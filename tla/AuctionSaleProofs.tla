------------------------- MODULE AuctionSaleProofs -------------------------
(***************************************************************************)
(* Machine-checked theorems about AuctionSale, for any set of rounds,      *)
(* classifications and amounts.                                            *)
(***************************************************************************)
EXTENDS AuctionSale, TLAPS

---------------------------------------------------------------------------
(* The invariant.                                                          *)

\* What makes a sale out of a lot: a lotted edict met the conditions of the
\* lot when it was formed, and none of them can be edited while it is one.
LotReady ==
    \A r \in Rounds : edict[r].status = "LOTTED" =>
        edict[r].class = "CONSERVED" /\ edict[r].complete /\ edict[r].minBid > 0

\* OneEffectiveSale, part by part.
OneSale == \A r, n \in EffectiveSales : r = n

SaleMatchesStatus == status \in {"AUCTIONED", "AUCTION_CLOSED"} <=> EffectiveSales # {}

DefaultsNameSales ==
    \A n, m \in Unpaid :
        /\ attempt[n].superseded \in Sold
        /\ attempt[n].superseded = attempt[m].superseded => n = m

SaleInv ==
    /\ TypeOK /\ OneLot /\ LotReady
    /\ OneSale /\ SaleMatchesStatus /\ DefaultsNameSales
    /\ SaleMeetsReserve

---------------------------------------------------------------------------
(* Edits of the two tables.                                                *)

\* Closing the lots leaves the other columns, and no lot.
LEMMA ClosingLots ==
    ASSUME TypeOK, edict' = LotsClosed, UNCHANGED attempt
    PROVE  /\ edict' \in [Rounds -> Edict]
           /\ \A r \in Rounds : /\ edict'[r].status # "LOTTED"
                                /\ edict'[r].class = edict[r].class
                                /\ edict'[r].complete = edict[r].complete
                                /\ edict'[r].minBid = edict[r].minBid
BY DEF TypeOK, LotsClosed, Edict

\* While the attempts stay, so do the sales and the defaults.
LEMMA SalesKept ==
    ASSUME UNCHANGED attempt
    PROVE  /\ Sold' = Sold /\ Unpaid' = Unpaid /\ EffectiveSales' = EffectiveSales
           /\ DefaultsNameSales => DefaultsNameSales'
BY DEF Sold, Unpaid, EffectiveSales, DefaultsNameSales

\* A step that touches neither the attempts nor what a sold edict says, and
\* neither begins nor ends a sale.
LEMMA SaleUndisturbed ==
    ASSUME SaleInv, UNCHANGED attempt,
           status' \in {"AUCTIONED", "AUCTION_CLOSED"} <=> status \in {"AUCTIONED", "AUCTION_CLOSED"},
           \A r \in EffectiveSales :
              /\ status' = "AUCTIONED" => edict'[r].status = "LOTTED"
              /\ edict'[r].class = edict[r].class /\ edict'[r].complete = edict[r].complete
              /\ edict'[r].minBid = edict[r].minBid
    PROVE  OneSale' /\ SaleMatchesStatus' /\ DefaultsNameSales' /\ SaleMeetsReserve'
<1>1. OneSale' /\ SaleMatchesStatus' /\ DefaultsNameSales'
  BY SalesKept DEF SaleInv, OneSale, SaleMatchesStatus
<1>2. SaleMeetsReserve'
  BY SalesKept DEF SaleInv, SaleMeetsReserve
<1> QED
  BY <1>1, <1>2

---------------------------------------------------------------------------
(* The invariant holds of each kind of step.                               *)

\* The empty tables.
LEMMA SaleInvHoldsAtFirst == Init => SaleInv
<1> SUFFICES ASSUME Init PROVE SaleInv
  OBVIOUS
<1>1. TypeOK
  BY ClassesAssumption DEF Init, TypeOK, Edict, Attempt, NoEdict, NoAttempt, Amounts, L!Statuses
<1>2. Sold = {} /\ Unpaid = {} /\ EffectiveSales = {}
  BY DEF Init, Sold, Unpaid, EffectiveSales, NoAttempt
<1>3. OneLot /\ LotReady
  BY DEF Init, OneLot, LotReady, NoEdict
<1> QED
  BY <1>1, <1>2, <1>3
     DEF SaleInv, Init, OneSale, SaleMatchesStatus, DefaultsNameSales, SaleMeetsReserve

\* Steps of the status alone.
LEMMA StatusSteps ==
    ASSUME SaleInv,
           MarkEligible \/ JudicialHold \/ ReclassifyScrap \/ ReclassifyUnrecoverable
               \/ \E r \in Rounds : PrepareForAuction(r)
    PROVE  SaleInv'
<1>1. /\ UNCHANGED <<edict, attempt>>
      /\ status \notin {"LOTTED", "AUCTIONED", "AUCTION_CLOSED"}
      /\ status' \notin {"LOTTED", "AUCTIONED", "AUCTION_CLOSED"}
      /\ status' \in L!Statuses /\ stopped' \in BOOLEAN
  BY DEF MarkEligible, JudicialHold, ReclassifyScrap, ReclassifyUnrecoverable, PrepareForAuction,
         SaleInv, TypeOK, L!Statuses
<1>2. TypeOK' /\ OneLot' /\ LotReady'
  BY <1>1 DEF SaleInv, TypeOK, OneLot, LotReady
<1> QED
  BY <1>1, <1>2, SaleUndisturbed DEF SaleInv

\* Edicts are registered and appraised while there is neither lot nor sale.
LEMMA EdictSteps ==
    ASSUME SaleInv, NEW r \in Rounds, RegisterEdict(r) \/ SetAppraisal(r)
    PROVE  SaleInv'
<1>1. /\ UNCHANGED <<status, stopped, attempt>>
      /\ status \in AppraisalEditable
  BY DEF RegisterEdict, SetAppraisal, EdictRegistrable, AppraisalEditable
<1>2. /\ edict' \in [Rounds -> Edict]
      /\ \A n \in Rounds : edict[n].status # "LOTTED" => edict'[n].status # "LOTTED"
  <2>1. CASE RegisterEdict(r)
    BY <2>1 DEF RegisterEdict, SaleInv, TypeOK, Edict, Amounts
  <2>2. CASE SetAppraisal(r)
    <3>1. PICK appraised \in BOOLEAN, minBid \in Amounts :
              edict' = [edict EXCEPT ![r] = [edict[r] EXCEPT !.appraised = appraised,
                                                             !.minBid = minBid]]
      BY <2>2 DEF SetAppraisal, SaleInv, TypeOK, Edict
    <3>2. [edict[r] EXCEPT !.appraised = appraised, !.minBid = minBid] \in Edict
      BY DEF SaleInv, TypeOK, Edict
    <3> QED
      BY <3>1, <3>2 DEF SaleInv, TypeOK, Edict
  <2> QED
    BY <2>1, <2>2
<1>3. \A n \in Rounds : edict[n].status # "LOTTED"
  BY <1>1 DEF SaleInv, OneLot, AppraisalEditable
<1>4. EffectiveSales = {}
  BY <1>1 DEF SaleInv, SaleMatchesStatus, AppraisalEditable
<1>5. TypeOK' /\ OneLot' /\ LotReady'
  BY <1>1, <1>2, <1>3 DEF SaleInv, TypeOK, OneLot, LotReady, AppraisalEditable
<1> QED
  BY <1>1, <1>4, <1>5, SaleUndisturbed DEF SaleInv

\* A round becomes the lot, and any other lot is closed.
LEMMA LotStep ==
    ASSUME SaleInv, NEW r \in Rounds, LotForAuction(r)
    PROVE  SaleInv'
<1>1. /\ status = "AUCTION_PREP" /\ status' = "LOTTED" /\ Lottable(r)
      /\ edict' = LotOnly(r) /\ UNCHANGED <<stopped, attempt>>
  BY DEF LotForAuction
<1>2. /\ edict' \in [Rounds -> Edict]
      /\ \A n \in Rounds : edict'[n].status = "LOTTED" <=> n = r
      /\ edict'[r].class = edict[r].class /\ edict'[r].complete = edict[r].complete
      /\ edict'[r].minBid = edict[r].minBid
  BY <1>1 DEF LotOnly, SaleInv, TypeOK, Edict
<1>3. EffectiveSales = {}
  BY <1>1 DEF SaleInv, SaleMatchesStatus
<1>4. TypeOK' /\ OneLot' /\ LotReady'
  BY <1>1, <1>2 DEF SaleInv, TypeOK, OneLot, LotReady, Lottable, L!Statuses
<1> QED
  BY <1>1, <1>3, <1>4, SaleUndisturbed DEF SaleInv

\* The lot goes when the auction is closed and when the owner reclaims.
LEMMA UnlotSteps ==
    ASSUME SaleInv, CloseAuction \/ Reclaim
    PROVE  SaleInv'
<1>1. /\ edict' = LotsClosed /\ UNCHANGED <<stopped, attempt>>
      /\ \/ status = "AUCTIONED" /\ status' = "AUCTION_CLOSED"
         \/ status \in {"LOTTED", "JUDICIAL_HOLD"} /\ status' = "ACTIVE_CUSTODY"
  BY DEF CloseAuction, Reclaim
<1>2. /\ edict' \in [Rounds -> Edict]
      /\ \A n \in Rounds : /\ edict'[n].status # "LOTTED"
                           /\ edict'[n].class = edict[n].class
                           /\ edict'[n].complete = edict[n].complete
                           /\ edict'[n].minBid = edict[n].minBid
  BY <1>1, ClosingLots DEF SaleInv
<1>3. TypeOK' /\ OneLot' /\ LotReady'
  BY <1>1, <1>2 DEF SaleInv, TypeOK, OneLot, LotReady, L!Statuses
<1>4. \A n \in EffectiveSales : n \in Rounds
  BY DEF EffectiveSales, Sold
<1> QED
  BY <1>1, <1>2, <1>3, <1>4, SaleUndisturbed DEF SaleInv

\* A deserted round is neither sale nor default.
LEMMA DesertedStep ==
    ASSUME SaleInv, NEW r \in Rounds, RecordAttempt(r)
    PROVE  SaleInv'
<1>1. /\ Untried(r) /\ UNCHANGED <<status, stopped, edict>>
      /\ attempt' = [attempt EXCEPT ![r] = [NoAttempt EXCEPT !.outcome = "DESERTED"]]
  BY DEF RecordAttempt
<1>2. /\ attempt' \in [Rounds -> Attempt]
      /\ attempt'[r].outcome = "DESERTED"
      /\ \A n \in Rounds : n # r => attempt'[n] = attempt[n]
  BY <1>1 DEF SaleInv, TypeOK, Attempt, NoAttempt, Amounts
<1>3. Sold' = Sold /\ Unpaid' = Unpaid /\ r \notin Sold /\ r \notin Unpaid
  BY <1>1, <1>2 DEF Sold, Unpaid, Untried
<1>4. \A n \in Sold \cup Unpaid : n \in Rounds /\ attempt'[n] = attempt[n]
  BY <1>2, <1>3 DEF Sold, Unpaid
<1>5. EffectiveSales' = EffectiveSales /\ EffectiveSales \subseteq Sold
  BY <1>3, <1>4 DEF EffectiveSales
<1>6. TypeOK' /\ OneLot' /\ LotReady'
  BY <1>1, <1>2 DEF SaleInv, TypeOK, OneLot, LotReady
<1>7. OneSale' /\ SaleMatchesStatus' /\ DefaultsNameSales'
  BY <1>1, <1>3, <1>4, <1>5 DEF SaleInv, OneSale, SaleMatchesStatus, DefaultsNameSales
<1>8. SaleMeetsReserve'
  BY <1>1, <1>4, <1>5 DEF SaleInv, SaleMeetsReserve
<1> QED
  BY <1>6, <1>7, <1>8 DEF SaleInv

\* The lot is sold: there is no other effective sale, since the vehicle was
\* not sold, and no default names a round that had no outcome.
LEMMA SaleStep ==
    ASSUME SaleInv, NEW r \in Rounds, NEW amount \in Money, RecordSale(r, amount)
    PROVE  SaleInv'
<1>1. /\ status = "LOTTED" /\ status' = "AUCTIONED" /\ stopped' = TRUE
      /\ Sellable(r, amount) /\ UNCHANGED edict
      /\ attempt' = [attempt EXCEPT ![r] =
             [outcome |-> "SOLD", amount |-> amount, superseded |-> NoRound]]
  BY DEF RecordSale
<1>2. /\ attempt' \in [Rounds -> Attempt]
      /\ attempt'[r].outcome = "SOLD" /\ attempt'[r].amount = amount
      /\ \A n \in Rounds : n # r => attempt'[n] = attempt[n]
  BY <1>1 DEF SaleInv, TypeOK, Attempt, Amounts
<1>3. Sold' = Sold \cup {r} /\ Unpaid' = Unpaid /\ r \notin Sold /\ r \notin Unpaid
  BY <1>1, <1>2 DEF Sold, Unpaid, Untried, Sellable
<1>4. \A n \in Unpaid : attempt'[n] = attempt[n] /\ attempt[n].superseded \in Sold
  BY <1>2, <1>3 DEF SaleInv, DefaultsNameSales, Unpaid
<1>5. EffectiveSales = {}
  BY <1>1 DEF SaleInv, SaleMatchesStatus
<1>6. EffectiveSales' = {r}
  <2>1. r \in EffectiveSales'
    BY <1>3, <1>4 DEF EffectiveSales
  <2>2. ASSUME NEW n \in EffectiveSales' PROVE n = r
    <3>1. n \in Sold \cup {r} /\ \A m \in Unpaid : attempt[m].superseded # n
      BY <2>2, <1>3, <1>4 DEF EffectiveSales
    <3> QED
      BY <3>1, <1>5 DEF EffectiveSales
  <2> QED
    BY <2>1, <2>2
<1>7. TypeOK' /\ OneLot' /\ LotReady'
  BY <1>1, <1>2 DEF SaleInv, TypeOK, OneLot, LotReady, L!Statuses
<1>8. OneSale' /\ SaleMatchesStatus'
  BY <1>1, <1>6 DEF OneSale, SaleMatchesStatus
<1>9. DefaultsNameSales'
  BY <1>3, <1>4 DEF SaleInv, DefaultsNameSales
<1>10. SaleMeetsReserve'
  BY <1>1, <1>2, <1>6 DEF SaleMeetsReserve, Sellable, SaleInv, LotReady
<1> QED
  BY <1>7, <1>8, <1>9, <1>10 DEF SaleInv

\* The default supersedes the one effective sale, which no other default names.
LEMMA DefaultStep ==
    ASSUME SaleInv, NEW n \in Rounds, NEW sale \in Rounds \cup {NoRound},
           DefaultAuction(n, sale)
    PROVE  SaleInv'
<1>1. /\ status = "AUCTIONED" /\ status' = "LOTTED" /\ UNCHANGED <<stopped, edict>>
      /\ Untried(n) /\ sale \in EffectiveSales
      /\ attempt' = [attempt EXCEPT ![n] =
             [outcome |-> "NO_PAYMENT", amount |-> 0, superseded |-> sale]]
  BY DEF DefaultAuction, Supersedes
<1>2. /\ attempt' \in [Rounds -> Attempt]
      /\ attempt'[n].outcome = "NO_PAYMENT" /\ attempt'[n].superseded = sale
      /\ \A m \in Rounds : m # n => attempt'[m] = attempt[m]
  BY <1>1 DEF SaleInv, TypeOK, Attempt, Amounts
<1>3. Sold' = Sold /\ Unpaid' = Unpaid \cup {n} /\ n \notin Unpaid /\ sale \in Sold
  BY <1>1, <1>2 DEF Sold, Unpaid, Untried, EffectiveSales
<1>4. \A m \in Unpaid : /\ attempt'[m] = attempt[m] /\ attempt[m].superseded \in Sold
                        /\ attempt[m].superseded # sale
  BY <1>1, <1>2, <1>3 DEF SaleInv, DefaultsNameSales, Unpaid, EffectiveSales
<1>5. EffectiveSales' = {}
  <2> SUFFICES ASSUME NEW r \in EffectiveSales' PROVE FALSE
    OBVIOUS
  <2>1. r \in Sold /\ r # sale /\ \A m \in Unpaid : attempt[m].superseded # r
    BY <1>2, <1>3, <1>4 DEF EffectiveSales
  <2>2. r \in EffectiveSales
    BY <2>1 DEF EffectiveSales
  <2> QED
    BY <2>1, <2>2, <1>1 DEF SaleInv, OneSale
<1>6. TypeOK' /\ OneLot' /\ LotReady'
  BY <1>1, <1>2 DEF SaleInv, TypeOK, OneLot, LotReady, L!Statuses
<1>7. OneSale' /\ SaleMatchesStatus' /\ SaleMeetsReserve'
  BY <1>1, <1>5 DEF OneSale, SaleMatchesStatus, SaleMeetsReserve
<1>8. DefaultsNameSales'
  BY <1>2, <1>3, <1>4 DEF SaleInv, DefaultsNameSales
<1> QED
  BY <1>6, <1>7, <1>8 DEF SaleInv

\* Every step keeps the invariant.
LEMMA SaleInvIsInductive == SaleInv /\ [Next]_vars => SaleInv'
<1> SUFFICES ASSUME SaleInv, [Next]_vars PROVE SaleInv'
  OBVIOUS
<1>1. CASE MarkEligible \/ JudicialHold \/ ReclassifyScrap \/ ReclassifyUnrecoverable
  BY <1>1, StatusSteps
<1>2. CASE CloseAuction \/ Reclaim
  BY <1>2, UnlotSteps
<1>3. ASSUME NEW r \in Rounds,
             \/ RegisterEdict(r) \/ SetAppraisal(r) \/ RecordAttempt(r)
             \/ PrepareForAuction(r) \/ LotForAuction(r)
      PROVE  SaleInv'
  BY <1>3, EdictSteps, DesertedStep, StatusSteps, LotStep
<1>4. ASSUME NEW r \in Rounds, NEW amount \in Money, RecordSale(r, amount)
      PROVE  SaleInv'
  BY <1>4, SaleStep
<1>5. ASSUME NEW n \in Rounds, NEW sale \in Rounds \cup {NoRound}, DefaultAuction(n, sale)
      PROVE  SaleInv'
  BY <1>5, DefaultStep
<1>6. CASE UNCHANGED vars
  <2>1. TypeOK' /\ OneLot' /\ LotReady'
    BY <1>6 DEF vars, SaleInv, TypeOK, OneLot, LotReady
  <2>2. OneSale' /\ SaleMatchesStatus' /\ DefaultsNameSales' /\ SaleMeetsReserve'
    BY <1>6 DEF vars, SaleInv, OneSale, SaleMatchesStatus, DefaultsNameSales, SaleMeetsReserve,
                EffectiveSales, Sold, Unpaid
  <2> QED
    BY <2>1, <2>2 DEF SaleInv
<1> QED
  BY <1>1, <1>2, <1>3, <1>4, <1>5, <1>6 DEF Next

\* The invariant holds in every state.
THEOREM SaleInvariant == Spec => []SaleInv
BY SaleInvHoldsAtFirst, SaleInvIsInductive, PTL DEF Spec

---------------------------------------------------------------------------
(* What follows from it.                                                   *)

\* Every variable has the type of its column.
THEOREM AuctionTypeCorrect == Spec => []TypeOK
<1>1. SaleInv => TypeOK
  BY DEF SaleInv
<1> QED
  BY <1>1, SaleInvariant, PTL

\* I7, whatever defaults, re-lots, resales and reclaims follow one another:
\* one lot, one effective sale, exactly while the vehicle is sold.
THEOREM OneSaleAtATime == Spec => []OneEffectiveSale
<1>1. SaleInv => OneEffectiveSale
  BY DEF SaleInv, OneSale, SaleMatchesStatus, DefaultsNameSales, OneEffectiveSale
<1> QED
  BY <1>1, SaleInvariant, PTL

\* The effective sale is of the lot and not below its reserve.
THEOREM ReserveIsMet == Spec => []SaleMeetsReserve
<1>1. SaleInv => SaleMeetsReserve
  BY DEF SaleInv
<1> QED
  BY <1>1, SaleInvariant, PTL

\* No outcome that was recorded is written again.
THEOREM AppendOnly == Spec => OutcomesKept
<1> DEFINE Kept == \A r \in Rounds : ~Untried(r) => attempt'[r] = attempt[r]
<1>1. TypeOK /\ [Next]_vars => [Kept]_vars
  <2> SUFFICES ASSUME TypeOK, Next PROVE Kept
    OBVIOUS
  <2>1. ASSUME NEW n \in Rounds, Untried(n),
               \A r \in Rounds : r # n => attempt'[r] = attempt[r]
        PROVE  Kept
    BY <2>1
  <2>2. CASE UNCHANGED attempt
    BY <2>2
  <2>3. ASSUME NEW n \in Rounds, RecordAttempt(n) PROVE Kept
    BY <2>1, <2>3 DEF RecordAttempt, TypeOK
  <2>4. ASSUME NEW n \in Rounds, NEW amount \in Money, RecordSale(n, amount) PROVE Kept
    BY <2>1, <2>4 DEF RecordSale, Sellable, TypeOK
  <2>5. ASSUME NEW n \in Rounds, NEW sale \in Rounds \cup {NoRound}, DefaultAuction(n, sale)
        PROVE  Kept
    BY <2>1, <2>5 DEF DefaultAuction, Supersedes, TypeOK
  <2> QED
    BY <2>2, <2>3, <2>4, <2>5
       DEF Next, MarkEligible, JudicialHold, ReclassifyScrap, ReclassifyUnrecoverable,
           CloseAuction, Reclaim, RegisterEdict, SetAppraisal, PrepareForAuction, LotForAuction
<1> QED
  BY <1>1, AuctionTypeCorrect, PTL DEF Spec, OutcomesKept

\* Refinement: every endpoint follows an enabled edge of the custody table, and
\* T_stop is set by the edges that say so and never taken back.
THEOREM ImplementsTable == Spec => Lifecycle
<1>1. TypeOK /\ [Next]_vars => [L!Next]_(L!lifecycleVars)
  <2> SUFFICES ASSUME TypeOK, [Next]_vars
               PROVE  L!Next \/ UNCHANGED <<status, stopped>>
    BY DEF L!lifecycleVars
  <2> USE DEF L!Next, L!Follow, L!EnabledEdges, L!StoppingEdges
  <2>1. ASSUME NEW edge \in L!EnabledEdges, edge \notin L!StoppingEdges,
               status = edge[1], status' = edge[2], stopped' = stopped
        PROVE  L!Next
    <3>1. stopped' = (stopped \/ edge \in L!StoppingEdges)
      BY <2>1, Zenon DEF TypeOK
    <3> QED
      BY <2>1, <3>1
  <2>2. ASSUME NEW edge \in L!StoppingEdges, status = edge[1], status' = edge[2],
               stopped' = TRUE
        PROVE  L!Next
    <3>1. stopped' = (stopped \/ edge \in L!StoppingEdges)
      BY <2>2, Zenon
    <3>2. edge \in L!EnabledEdges
      BY <2>2
    <3> QED
      BY <2>2, <3>1, <3>2
  <2>3. CASE MarkEligible \/ JudicialHold
    BY <2>1, <2>3 DEF MarkEligible, JudicialHold
  <2>4. CASE ReclassifyScrap \/ ReclassifyUnrecoverable
    BY <2>2, <2>4 DEF ReclassifyScrap, ReclassifyUnrecoverable
  <2>5. CASE CloseAuction \/ Reclaim
    BY <2>1, <2>5 DEF CloseAuction, Reclaim
  <2>6. ASSUME NEW r \in Rounds, PrepareForAuction(r) \/ LotForAuction(r) PROVE L!Next
    BY <2>1, <2>6 DEF PrepareForAuction, LotForAuction
  <2>7. ASSUME NEW r \in Rounds, NEW amount \in Money, RecordSale(r, amount) PROVE L!Next
    BY <2>2, <2>7 DEF RecordSale
  <2>8. ASSUME NEW n \in Rounds, NEW sale \in Rounds \cup {NoRound}, DefaultAuction(n, sale)
        PROVE  L!Next
    BY <2>1, <2>8 DEF DefaultAuction
  <2>9. ASSUME NEW r \in Rounds, RegisterEdict(r) \/ SetAppraisal(r) \/ RecordAttempt(r)
        PROVE  UNCHANGED <<status, stopped>>
    BY <2>9 DEF RegisterEdict, SetAppraisal, RecordAttempt
  <2> QED
    BY <2>3, <2>4, <2>5, <2>6, <2>7, <2>8, <2>9 DEF Next, vars
<1> QED
  BY <1>1, AuctionTypeCorrect, PTL DEF Spec, Lifecycle
=============================================================================
