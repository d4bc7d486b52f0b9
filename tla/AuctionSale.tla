---------------------------- MODULE AuctionSale ----------------------------
(***************************************************************************)
(* The auction of one impounded vehicle: eligibility, the edict of each    *)
(* round, the deserted rounds and the recycling they allow, the sale, the  *)
(* default of the winner and the owner who reclaims the vehicle            *)
(* (src/src/modules/auction).                                              *)
(*                                                                         *)
(* A handler reads the process, the edicts and the attempts, lets a pure   *)
(* guard judge them, and calls one ...Atomic method, which locks the       *)
(* process row and asks every one of those questions again.  The first     *)
(* reads can only refuse, never widen, what the method does: so each       *)
(* endpoint is one action here, with the conditions of its method.  An     *)
(* idempotent answer (the round is already recorded) and a 409 change      *)
(* nothing and are no steps.                                               *)
(*                                                                         *)
(* The conditions of eligibility that live elsewhere (scope, day 60,       *)
(* notification trail, chain, no open release) may hold or not, so an      *)
(* eligibility may be granted or not.                                      *)
(***************************************************************************)
EXTENDS Integers, FiniteSets

CONSTANTS
    Rounds,         \* auction rounds that can be named (a bound)
    MaxAttempts,    \* AUCTION_MAX_ATTEMPTS: deserted rounds before recycling
    Classes,        \* classifications an edict may carry
    Money,          \* positive amounts: appraisals, reserves and bids
    NoRound

ASSUME RoundsAssumption == Rounds \subseteq Nat /\ NoRound \notin Rounds

ASSUME MoneyAssumption == Money \subseteq Nat \ {0}

ASSUME ClassesAssumption == "CONSERVED" \in Classes

VARIABLES
    status,     \* impound_processes.status
    stopped,    \* impound_processes.frozen_at is not null
    edict,      \* auction_edicts, one row per round
    attempt     \* auction_attempts, one row per round

vars == <<status, stopped, edict, attempt>>

L == INSTANCE ImpoundLifecycle

\* 0 is an amount that is absent or not positive.
Amounts == Money \cup {0}

Edict == [status : {"NONE", "DESIGNATED", "LOTTED", "CLOSED"},
          class : Classes, complete : BOOLEAN,
          appraised : BOOLEAN, minBid : Amounts]

Attempt == [outcome : {"NONE", "DESERTED", "SOLD", "NO_PAYMENT"},
            amount : Amounts, superseded : Rounds \cup {NoRound}]

NoEdict == [status |-> "NONE", class |-> "CONSERVED", complete |-> FALSE,
            appraised |-> FALSE, minBid |-> 0]

NoAttempt == [outcome |-> "NONE", amount |-> 0, superseded |-> NoRound]

EdictRegistrable  == {"ACTIVE_CUSTODY", "AUCTION_ELIGIBLE"}
AppraisalEditable == {"ACTIVE_CUSTODY", "AUCTION_ELIGIBLE", "AUCTION_PREP"}

Registered(r) == edict[r].status # "NONE"
Untried(r)    == attempt[r].outcome = "NONE"
Sold          == {r \in Rounds : attempt[r].outcome = "SOLD"}
Unpaid        == {r \in Rounds : attempt[r].outcome = "NO_PAYMENT"}

\* The sales no default has superseded (findActiveSoldRound takes the last).
EffectiveSales == {r \in Sold : \A n \in Unpaid : attempt[n].superseded # r}

---------------------------------------------------------------------------
(* Before the auction.                                                     *)

MarkEligible ==
    /\ status = "ACTIVE_CUSTODY"
    /\ status' = "AUCTION_ELIGIBLE"
    /\ UNCHANGED <<stopped, edict, attempt>>

\* changeStatus of the custody process; the way back is the same endpoint's, or
\* Reclaim's.
JudicialHold ==
    /\ status = "ACTIVE_CUSTODY"
    /\ status' = "JUDICIAL_HOLD"
    /\ UNCHANGED <<stopped, edict, attempt>>

\* The reference of the edict is mandatory; its publication and business
\* days, which make it complete, are not.
RegisterEdict(r) ==
    /\ status \in EdictRegistrable
    /\ ~Registered(r)
    /\ \E class \in Classes, complete \in BOOLEAN :
          edict' = [edict EXCEPT ![r] =
              [status |-> "DESIGNATED", class |-> class, complete |-> complete,
               appraised |-> FALSE, minBid |-> 0]]
    /\ UNCHANGED <<status, stopped, attempt>>

\* Mutants: a negative amount is parsed; the process status is not checked.
AppraiseNegative(r) ==
    /\ status \in AppraisalEditable
    /\ Registered(r)
    /\ edict' = [edict EXCEPT ![r].minBid = -1]
    /\ UNCHANGED <<status, stopped, attempt>>

AppraiseAnytime(r) ==
    /\ Registered(r)
    /\ \E appraised \in BOOLEAN, minBid \in Amounts :
          edict' = [edict EXCEPT ![r].appraised = appraised, ![r].minBid = minBid]
    /\ UNCHANGED <<status, stopped, attempt>>

SetAppraisal(r) ==
    /\ status \in AppraisalEditable
    /\ Registered(r)
    /\ \E appraised \in BOOLEAN, minBid \in Amounts :
          edict' = [edict EXCEPT ![r].appraised = appraised, ![r].minBid = minBid]
    /\ UNCHANGED <<status, stopped, attempt>>

---------------------------------------------------------------------------
(* Deserted rounds and recycling.                                          *)

RecordAttempt(r) ==
    /\ status = "AUCTION_ELIGIBLE"
    /\ Registered(r)
    /\ Untried(r)
    /\ attempt' = [attempt EXCEPT ![r] = [NoAttempt EXCEPT !.outcome = "DESERTED"]]
    /\ UNCHANGED <<status, stopped, edict>>

\* evaluateScrapEdictGate.
ScrapGate ==
    \A r \in 1 .. MaxAttempts :
        /\ r \in Rounds
        /\ attempt[r].outcome = "DESERTED"
        /\ Registered(r) /\ edict[r].complete

ReclassifyScrap ==
    /\ status = "AUCTION_ELIGIBLE"
    /\ ScrapGate
    /\ status' = "DIRECT_RECYCLING"
    /\ stopped' = TRUE
    /\ UNCHANGED <<edict, attempt>>

\* The classification may come from the request alone.
ReclassifyUnrecoverable ==
    /\ status = "ACTIVE_CUSTODY"
    /\ status' = "DIRECT_RECYCLING"
    /\ stopped' = TRUE
    /\ UNCHANGED <<edict, attempt>>

---------------------------------------------------------------------------
(* The sale.                                                               *)

PrepareForAuction(r) ==
    /\ status = "AUCTION_ELIGIBLE"
    /\ Registered(r)
    /\ edict[r].class = "CONSERVED" /\ edict[r].appraised
    /\ status' = "AUCTION_PREP"
    /\ UNCHANGED <<stopped, edict, attempt>>

Lottable(r) ==
    /\ Registered(r) /\ edict[r].complete
    /\ edict[r].class = "CONSERVED"
    /\ edict[r].minBid > 0

\* Any other lotted round is closed: one lot per process.
LotOnly(r) ==
    [n \in Rounds |->
        IF n = r THEN [edict[n] EXCEPT !.status = "LOTTED"]
        ELSE IF edict[n].status = "LOTTED" THEN [edict[n] EXCEPT !.status = "CLOSED"]
        ELSE edict[n]]

LotForAuction(r) ==
    /\ status = "AUCTION_PREP"
    /\ Lottable(r)
    /\ edict' = LotOnly(r)
    /\ status' = "LOTTED"
    /\ UNCHANGED <<stopped, attempt>>

\* Mutant: an outcome already recorded for the round does not count.
SellsAgain(r, amount) ==
    /\ edict[r].status = "LOTTED"
    /\ edict[r].class = "CONSERVED" /\ edict[r].complete
    /\ amount >= edict[r].minBid

Sellable(r, amount) ==
    /\ Untried(r)
    /\ edict[r].status = "LOTTED"
    /\ edict[r].class = "CONSERVED" /\ edict[r].complete
    /\ amount >= edict[r].minBid

RecordSale(r, amount) ==
    /\ status = "LOTTED"
    /\ Sellable(r, amount)
    /\ attempt' = [attempt EXCEPT ![r] =
           [outcome |-> "SOLD", amount |-> amount, superseded |-> NoRound]]
    /\ status' = "AUCTIONED"
    /\ stopped' = TRUE
    /\ UNCHANGED edict

\* closeLottedEdicts.
LotsClosed ==
    [r \in Rounds |-> IF edict[r].status = "LOTTED"
                      THEN [edict[r] EXCEPT !.status = "CLOSED"] ELSE edict[r]]

CloseAuction ==
    /\ status = "AUCTIONED"
    /\ edict' = LotsClosed
    /\ status' = "AUCTION_CLOSED"
    /\ UNCHANGED <<stopped, attempt>>

\* Mutant: the default does not name the sale it supersedes.
SupersedesNone(n, sale) == Untried(n) /\ sale = NoRound

\* The default takes a round number of its own and names the sale.
Supersedes(n, sale) ==
    /\ Untried(n)
    /\ sale \in EffectiveSales
    /\ \A r \in EffectiveSales : r <= sale

DefaultAuction(n, sale) ==
    /\ status = "AUCTIONED"
    /\ Supersedes(n, sale)
    /\ attempt' = [attempt EXCEPT ![n] =
           [outcome |-> "NO_PAYMENT", amount |-> 0, superseded |-> sale]]
    /\ status' = "LOTTED"
    /\ UNCHANGED <<stopped, edict>>

\* Mutant: the reclaim clears frozen_at.
ReclaimResuming ==
    /\ status \in {"LOTTED", "JUDICIAL_HOLD"}
    /\ edict' = LotsClosed
    /\ status' = "ACTIVE_CUSTODY"
    /\ stopped' = FALSE
    /\ UNCHANGED attempt

\* The endpoint takes whatever edge leads back to custody from the status it
\* finds: with a reason given, it lifts a judicial hold too.
Reclaim ==
    /\ status \in {"LOTTED", "JUDICIAL_HOLD"}
    /\ edict' = LotsClosed
    /\ status' = "ACTIVE_CUSTODY"
    /\ UNCHANGED <<stopped, attempt>>

---------------------------------------------------------------------------
Init ==
    /\ status = "ACTIVE_CUSTODY"
    /\ stopped = FALSE
    /\ edict = [r \in Rounds |-> NoEdict]
    /\ attempt = [r \in Rounds |-> NoAttempt]

Next ==
    \/ MarkEligible \/ JudicialHold \/ ReclassifyScrap \/ ReclassifyUnrecoverable
    \/ CloseAuction \/ Reclaim
    \/ \E r \in Rounds :
          \/ RegisterEdict(r) \/ SetAppraisal(r) \/ RecordAttempt(r)
          \/ PrepareForAuction(r) \/ LotForAuction(r)
          \/ \E amount \in Money : RecordSale(r, amount)
          \/ \E sale \in Rounds \cup {NoRound} : DefaultAuction(r, sale)

Spec == Init /\ [][Next]_vars

---------------------------------------------------------------------------
(* Properties.                                                             *)

\* The types of the variables.
TypeOK ==
    /\ status \in L!Statuses
    /\ stopped \in BOOLEAN
    /\ edict \in [Rounds -> Edict]
    /\ attempt \in [Rounds -> Attempt]

\* Through reclaims, new rounds and re-lotted old ones, at most one round is
\* the lot, and there is one exactly while the vehicle is lotted or sold.
OneLot ==
    /\ \A r, n \in Rounds :
          edict[r].status = "LOTTED" /\ edict[n].status = "LOTTED" => r = n
    /\ status \in {"LOTTED", "AUCTIONED"} <=>
          \E r \in Rounds : edict[r].status = "LOTTED"

\* I7, the base of the settlement: one lot, of which one sale is effective,
\* exactly while the vehicle is sold, and every default supersedes a sale of
\* its own.
OneEffectiveSale ==
    /\ OneLot
    /\ \A r, n \in EffectiveSales : r = n
    /\ status \in {"AUCTIONED", "AUCTION_CLOSED"} <=> EffectiveSales # {}
    /\ \A n, m \in Unpaid :
          /\ attempt[n].superseded \in Sold
          /\ attempt[n].superseded = attempt[m].superseded => n = m

\* The effective sale is of the lot, a complete edict of a conserved vehicle,
\* and not below the reserve, which nothing changed since the lot was formed.
SaleMeetsReserve ==
    \A r \in EffectiveSales :
        /\ status = "AUCTIONED" => edict[r].status = "LOTTED"
        /\ edict[r].class = "CONSERVED" /\ edict[r].complete
        /\ attempt[r].amount >= edict[r].minBid /\ edict[r].minBid > 0

\* A recorded outcome is never rewritten: retries, defaults and resales add
\* rows and leave the ones there are (append-only ledger of the auction).
OutcomesKept ==
    [][\A r \in Rounds : ~Untried(r) => attempt'[r] = attempt[r]]_vars

\* Every endpoint drives an enabled edge of the custody table, and T_stop is
\* set by the edges that say so and never taken back.
Lifecycle == [][L!Next]_(L!lifecycleVars)

---------------------------------------------------------------------------
(* What comments of the code say, and the code does not do.                *)

\* auction-prisma.repository.ts:569 "NAO congela (nunca congelou)": a vehicle
\* that is reclaimed never had its storage charges stopped.
ReclaimedNeverStopped == status = "ACTIVE_CUSTODY" => ~stopped

\* auction.service.ts:352 "repetem PREP+LOT dessa rodada": the round that is
\* sold meets the conditions of the preparation, its appraisal among them.
SoldRoundPrepared == \A r \in EffectiveSales : edict[r].appraised

\* impound.transitions.ts:30 "inadimplencia do arrematante => reintegra o
\* lote": after a default the lot is on sale again.
ReintegratedLotOnSale ==
    [][status = "AUCTIONED" /\ status' = "LOTTED" =>
          \E r \in Rounds, amount \in Money : Sellable(r, amount)']_vars
=============================================================================
