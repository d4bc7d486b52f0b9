----------------------- MODULE CustodyReleaseProofs -----------------------
(***************************************************************************)
(* Machine-checked theorems about CustodyRelease, for any number of        *)
(* clerks, scans, dossiers, checklist codes and profiles.                  *)
(***************************************************************************)
EXTENDS CustodyRelease, TLAPS

---------------------------------------------------------------------------
(* Type correctness, by the kind of step.                                  *)

\* A request that is opened where its endpoint allows it has the type.
LEMMA OpenType ==
    ASSUME TypeOK, NEW k \in Clerks, NEW call \in CallNames,
           NEW stage \in {"context", "commit"},
           NEW d \in Dossiers \cup {NoDossier}, Open(k, call, stage, d),
           FitsCall([call |-> call, from |-> status, dossier |-> d])
    PROVE  TypeOK'
<1> DEFINE r == [call |-> call, stage |-> stage, from |-> status,
                 dossier |-> d, at |-> day, kept |-> 0, over |-> {}]
<1>1. r \in Request
  BY DEF TypeOK, Request, FitsCall, CallNames, FitsCall
<1>2. request' = [request EXCEPT ![k] = r]
  BY DEF Open
<1> QED
  BY <1>1, <1>2 DEF TypeOK, Open, custodyVars, ledgerVars, worldVars

\* The null request is a request.
LEMMA NoRequestType == NoRequest \in Request
BY DEF NoRequest, Request, FitsCall, L!Statuses

\* Inserting a dossier keeps the table's type.
LEMMA InsertType ==
    ASSUME TypeOK, NEW kind \in DossierKinds, NEW unmet \in SUBSET Codes,
           Insert(kind, unmet)
    PROVE  dossier' \in [Dossiers -> Dossier]
BY DEF TypeOK, Insert, Dossier, DossierStatuses

\* The end of a request keeps the type of the requests.
LEMMA FinishType ==
    ASSUME TypeOK, NEW k \in Clerks, Finish(k)
    PROVE  request' \in [Clerks -> Request]
BY NoRequestType DEF TypeOK, Finish

\* The steps that open requests and start scans keep the types.
LEMMA ArriveType ==
    ASSUME TypeOK, NEW k \in Clerks, Arrive(k)
    PROVE  TypeOK'
<1>1. CASE TransitionOpen(k)
  BY <1>1, OpenType DEF TransitionOpen, CallNames, FitsCall
<1>2. CASE StartOpen(k)
  BY <1>2, OpenType DEF StartOpen, CallNames, FitsCall
<1>3. CASE DossierOpen(k)
  BY <1>3, OpenType DEF DossierOpen, CallNames, FitsCall
<1>4. CASE SettleOpen(k)
  BY <1>4, OpenType DEF SettleOpen, CallNames, FitsCall
<1>5. CASE AuctionOpen(k, "eligible") \/ AuctionOpen(k, "recycle")
  BY <1>5, OpenType DEF AuctionOpen, CallNames, FitsCall
<1>6. ASSUME NEW d \in Dossiers,
             CheckOpen(k, d) \/ ConsumeOpen(k, d) \/ ExitOpen(k, d) \/ ReturnOpen(k, d)
      PROVE  TypeOK'
  BY <1>6, OpenType DEF CheckOpen, ConsumeOpen, ExitOpen, ReturnOpen, CallNames, FitsCall
<1> QED
  BY <1>1, <1>2, <1>3, <1>4, <1>5, <1>6 DEF Arrive

\* The later steps of a handler, its commit among them, keep the types.
LEMMA ProgressType ==
    ASSUME TypeOK, NEW k \in Clerks, Progress(k)
    PROVE  TypeOK'
<1> USE DEF custodyVars, ledgerVars, worldVars
<1>1. CASE ReadContext(k)
  <2>1. Due(profile.model, enteredAt, day) \in Nat
    BY DEF Due, TypeOK, Days, NoDay
  <2>2. Accruable(profile, enteredAt, AsOf(day)) \in Nat
    BY ProfilesAssumption DEF Accruable, Due, AsOf, TypeOK, Days, NoDay
  <2>3. EveryDaily \in Nat
    BY MaxDayAssumption DEF EveryDaily
  <2> DEFINE r == request[k]
             n == IF enteredAt = NoDay THEN EveryDaily
                  ELSE IF r.call = "start" THEN Due(profile.model, enteredAt, day)
                  ELSE Accruable(profile, enteredAt, AsOf(day))
  <2>4. [r EXCEPT !.stage = "lines", !.at = day, !.kept = n] \in Request
    BY ZenonT(60), <2>1, <2>2, <2>3 DEF TypeOK, Request, FitsCall
  <2>5. request' = [request EXCEPT ![k] =
            [r EXCEPT !.stage = "lines", !.at = day, !.kept = n]]
    BY <1>1 DEF ReadContext, TypeOK, Request
  <2> QED
    BY <1>1, <2>4, <2>5 DEF ReadContext, TypeOK
<1>2. CASE ReadLines(k)
  <2>1. Beyond(request[k].kept) \in SUBSET Nat
    BY DEF Beyond, TypeOK
  <2> DEFINE r == request[k]
             over == IF r.call = "start" THEN {} ELSE Beyond(r.kept)
  <2>2. [r EXCEPT !.stage = "commit", !.at = day, !.kept = 0, !.over = over] \in Request
    BY ZenonT(60), <2>1 DEF TypeOK, Request, FitsCall
  <2> QED
    BY <1>2, <2>2, NoRequestType DEF ReadLines, TypeOK
<1>3. CASE Conflict(k)
  BY <1>3, FinishType DEF Conflict, TypeOK
<1>4. CASE TransitionCommit(k)
  <2>1. NativeTarget[request[k].from] \in L!Statuses
    BY <1>4 DEF TransitionCommit, TypeOK, Request, FitsCall, NativeTarget, L!Statuses
  <2> QED
    BY <1>4, <2>1, FinishType DEF TransitionCommit, TypeOK, Request, Days
<1>5. CASE StartCommit(k)
  BY <1>5, FinishType, InsertType DEF StartCommit, TypeOK, Request, Days, DossierKinds, L!Statuses
<1>6. CASE CheckCommit(k)
  <2> DEFINE d == request[k].dossier
  <2>1. PICK c \in Codes, satisfied \in BOOLEAN :
            dossier' = [dossier EXCEPT ![d].unmet =
                IF satisfied THEN @ \ {c} ELSE @ \cup {c}]
    BY <1>6 DEF CheckCommit
  <2> DEFINE u == IF satisfied THEN dossier[d].unmet \ {c}
                  ELSE dossier[d].unmet \cup {c}
  <2>2. d \in Dossiers
    BY <1>6 DEF CheckCommit, TypeOK, Request, FitsCall
  <2>3. u \in SUBSET Codes
    BY <2>2 DEF TypeOK, Dossier
  <2>4. [dossier[d] EXCEPT !.unmet = u] \in Dossier
    BY <2>2, <2>3 DEF TypeOK, Dossier
  <2>5. dossier' = [dossier EXCEPT ![d] = [dossier[d] EXCEPT !.unmet = u]]
    BY <2>1
  <2>6. dossier' \in [Dossiers -> Dossier]
    BY <2>4, <2>5 DEF TypeOK
  <2> QED
    BY <1>6, <2>6, FinishType DEF CheckCommit, TypeOK
<1>7. CASE ConsumeAsk(k)
  <2> DEFINE r == request[k]
             w == [r EXCEPT !.stage = "write", !.at = 0, !.over = {}]
  <2>1. w \in Request
    BY ZenonT(60), <1>7 DEF ConsumeAsk, TypeOK, Request, FitsCall
  <2>2. request' = [request EXCEPT ![k] = w]
    BY <1>7 DEF ConsumeAsk
  <2> QED
    BY <1>7, <2>1, <2>2 DEF ConsumeAsk, TypeOK
<1>14. CASE ConsumeCommit(k)
  BY ZenonT(60), <1>14, FinishType DEF ConsumeCommit, TypeOK, Dossier, DossierStatuses, L!Statuses
<1>8. CASE DossierCommit(k)
  BY <1>8, FinishType, InsertType DEF DossierCommit, TypeOK, DossierKinds
<1>9. CASE ExitCommit(k)
  BY <1>9, FinishType DEF ExitCommit, TypeOK, L!Statuses
<1>10. CASE ReturnCommit(k)
  BY ZenonT(60), <1>10, FinishType DEF ReturnCommit, TypeOK, Dossier, DossierStatuses, L!Statuses
<1>11. CASE EligibleCommit(k)
  BY <1>11, FinishType DEF EligibleCommit, TypeOK, L!Statuses
<1>12. CASE RecycleCommit(k)
  BY <1>12, FinishType DEF RecycleCommit, TypeOK, Request, Days, L!Statuses
<1>13. CASE SettleCommit(k)
  BY <1>13, FinishType DEF SettleCommit, TypeOK, Request
<1> QED
  BY <1>1, <1>2, <1>3, <1>4, <1>5, <1>6, <1>7, <1>8, <1>9, <1>10, <1>11,
     <1>12, <1>13, <1>14 DEF Progress

\* The steps of a scan keep the types.
LEMMA SweepType ==
    ASSUME TypeOK, NEW s \in Sweeps, Scanning(s) \/ SweepStop(s)
    PROVE  TypeOK'
<1> USE DEF custodyVars, ledgerVars, worldVars
<1>1. NoScan \in Scan
  BY DEF NoScan, Scan
<1>2. CASE SweepList(s)
  BY <1>2 DEF SweepList, TypeOK, NoScan, Scan
<1>3. CASE SweepContext(s)
  <2>1. Accruable(profile, enteredAt, AsOf(sweep[s].now)) \in Nat
    BY ProfilesAssumption DEF Accruable, Due, AsOf, TypeOK, Days, NoDay, Scan
  <2> QED
    BY <1>3, <2>1 DEF SweepContext, TypeOK, NoScan, Scan
<1>4. CASE SweepMax(s)
  <2>1. PICK max \in daily \cup {0} :
            sweep' = [sweep EXCEPT ![s] =
                IF max < sweep[s].due
                THEN [pc |-> "accrue", now |-> 0, due |-> sweep[s].due,
                      next |-> max + 1]
                ELSE NoScan]
    BY <1>4 DEF SweepMax
  <2> DEFINE c == [pc |-> "accrue", now |-> 0, due |-> sweep[s].due,
                   next |-> max + 1]
  <2>2. max < sweep[s].due => c \in Scan
    BY DEF TypeOK, Scan
  <2>3. sweep' \in [Sweeps -> Scan]
    BY <1>1, <2>1, <2>2 DEF TypeOK
  <2> QED
    BY <1>4, <2>3 DEF SweepMax, TypeOK
<1>5. CASE SweepAccrue(s)
  <2>1. sweep[s].next \in Nat \ {0}
    BY <1>5 DEF SweepAccrue, TypeOK, Scan
  <2>2. sweep[s].next < sweep[s].due =>
            [sweep[s] EXCEPT !.next = sweep[s].next + 1] \in Scan
    BY DEF TypeOK, Scan
  <2>3. sweep' \in [Sweeps -> Scan]
    BY <1>1, <1>5, <2>2 DEF SweepAccrue, TypeOK
  <2> QED
    BY <1>5, <2>1, <2>3 DEF SweepAccrue, TypeOK
<1>6. CASE SweepStop(s)
  BY <1>1, <1>6 DEF SweepStop, TypeOK
<1> QED
  BY <1>2, <1>3, <1>4, <1>5, <1>6 DEF Scanning

\* The clock and the administrator keep the types.
LEMMA WorldType ==
    ASSUME TypeOK,
           \/ \E d \in Dossiers : SetRecipient(d) \/ Approve(d)
           \/ EditIntake \/ ManualCharge \/ AdjustDaily \/ UpdateProfile \/ Tick
    PROVE  TypeOK'
<1> USE DEF custodyVars, ledgerVars, worldVars
<1>1. ASSUME NEW d \in Dossiers, SetRecipient(d)
      PROVE  TypeOK'
  BY <1>1 DEF SetRecipient, TypeOK, Dossier
<1>2. ASSUME NEW d \in Dossiers, Approve(d)
      PROVE  TypeOK'
  BY ZenonT(60), <1>2 DEF Approve, TypeOK, Dossier, DossierStatuses
<1>3. CASE EditIntake
  BY <1>3 DEF EditIntake, TypeOK
<1>4. CASE ManualCharge
  BY <1>4 DEF ManualCharge, TypeOK
<1>5. CASE AdjustDaily
  BY <1>5 DEF AdjustDaily, TypeOK
<1>6. CASE UpdateProfile
  BY <1>6 DEF UpdateProfile, TypeOK
<1>7. CASE Tick
  BY <1>7 DEF Tick, TypeOK
<1> QED
  BY <1>1, <1>2, <1>3, <1>4, <1>5, <1>6, <1>7

\* The empty tables have their types.
LEMMA InitType == Init => TypeOK
<1>1. NoRow \in Dossier
  BY DEF NoRow, Dossier, DossierKinds, DossierStatuses
<1>2. NoScan \in Scan
  BY DEF NoScan, Scan
<1> SUFFICES ASSUME Init PROVE TypeOK
  OBVIOUS
<1>3. /\ status \in L!Statuses
      /\ enteredAt \in Days /\ frozenAt \in Days
  BY DEF Init, L!Statuses, Days, NoDay
<1>4. /\ dossier \in [Dossiers -> Dossier]
      /\ request \in [Clerks -> Request]
      /\ sweep \in [Sweeps -> Scan]
  BY <1>1, <1>2, NoRequestType DEF Init
<1> QED
  BY <1>3, <1>4 DEF Init, TypeOK

\* Every step keeps the types.
LEMMA NextType == TypeOK /\ [Next]_vars => TypeOK'
<1> SUFFICES ASSUME TypeOK, [Next]_vars PROVE TypeOK'
  OBVIOUS
<1>1. CASE UNCHANGED vars
  BY <1>1 DEF vars, custodyVars, ledgerVars, worldVars, TypeOK
<1>2. CASE Next
  BY <1>2, ArriveType, ProgressType, SweepType, WorldType DEF Next
<1> QED
  BY <1>1, <1>2

\* Every variable keeps its type, whatever the handlers and scans do.
THEOREM TypeCorrect == Spec => []TypeOK
BY InitType, NextType, PTL DEF Spec

---------------------------------------------------------------------------
(* The ledger: no gap and no day that has not elapsed.                     *)

\* The steps that are not steps of a scan.
Other ==
    \/ \E k \in Clerks : Arrive(k) \/ Progress(k)
    \/ \E d \in Dossiers : SetRecipient(d) \/ Approve(d)
    \/ EditIntake \/ ManualCharge \/ AdjustDaily \/ UpdateProfile \/ Tick
    \/ UNCHANGED vars

\* No handler writes a DAILY: that is the privilege of the accrual engine.
LEMMA OnlyScansAccrue == Other => UNCHANGED <<daily, sweep>>
BY ZenonT(60) DEF Other, Arrive, Progress, Open, TransitionOpen, StartOpen, DossierOpen,
       SettleOpen, AuctionOpen, CheckOpen, ConsumeOpen, ExitOpen, ReturnOpen,
       ReadContext, ReadLines, Conflict, ConsumeAsk, TransitionCommit, StartCommit,
       CheckCommit, ConsumeCommit, DossierCommit, ExitCommit, ReturnCommit,
       EligibleCommit, RecycleCommit, SettleCommit, SetRecipient, Approve,
       EditIntake, ManualCharge, AdjustDaily, UpdateProfile, Tick,
       vars, custodyVars, ledgerVars, worldVars

\* A scan that is about to write a period finds all the earlier ones there.
ScansContiguous ==
    \A s \in Sweeps : sweep[s].pc = "accrue" =>
        \A q \in 1 .. (sweep[s].next - 1) : q \in daily

LedgerInv == TypeOK /\ DailiesContiguous /\ ScansContiguous

\* A scan extends the dailies by the next one, or finds it there already.
LEMMA ScanKeepsContiguity ==
    ASSUME LedgerInv, NEW s \in Sweeps, Scanning(s) \/ SweepStop(s)
    PROVE  DailiesContiguous' /\ ScansContiguous'
<1> USE DEF LedgerInv, ledgerVars
<1>1. CASE SweepList(s)
  BY <1>1 DEF SweepList, TypeOK, DailiesContiguous, ScansContiguous, NoScan
<1>2. CASE SweepContext(s)
  BY <1>2 DEF SweepContext, TypeOK, DailiesContiguous, ScansContiguous, NoScan
<1>3. CASE SweepMax(s)
  <2>1. PICK max \in daily \cup {0} :
          /\ \A p \in daily : p <= max
          /\ sweep' = [sweep EXCEPT ![s] =
                IF max < sweep[s].due
                THEN [pc |-> "accrue", now |-> 0, due |-> sweep[s].due,
                      next |-> max + 1]
                ELSE NoScan]
    BY <1>3 DEF SweepMax
  <2>2. \A q \in 1 .. ((max + 1) - 1) : q \in daily
    BY DEF DailiesContiguous, TypeOK
  <2> QED
    BY <1>3, <2>1, <2>2 DEF SweepMax, TypeOK, DailiesContiguous, ScansContiguous, NoScan
<1>4. CASE SweepAccrue(s)
  <2> DEFINE p == sweep[s].next
  <2>1. p \in Nat /\ daily' = daily \cup {p} /\ \A q \in 1 .. (p - 1) : q \in daily
    BY <1>4 DEF SweepAccrue, TypeOK, Scan, ScansContiguous
  <2>2. DailiesContiguous'
    BY <2>1 DEF DailiesContiguous, TypeOK
  <2>3. ScansContiguous'
    <3> SUFFICES ASSUME NEW t \in Sweeps, sweep'[t].pc = "accrue",
                        NEW q \in 1 .. (sweep'[t].next - 1)
                 PROVE  q \in daily'
      BY DEF ScansContiguous
    <3>1. CASE t = s
      BY <1>4, <2>1, <3>1 DEF SweepAccrue, TypeOK, Scan, NoScan
    <3>2. CASE t # s
      BY <1>4, <2>1, <3>2 DEF SweepAccrue, TypeOK, Scan, ScansContiguous
    <3> QED
      BY <3>1, <3>2
  <2> QED
    BY <2>2, <2>3
<1>5. CASE SweepStop(s)
  BY <1>5 DEF SweepStop, TypeOK, DailiesContiguous, ScansContiguous, NoScan
<1> QED
  BY <1>1, <1>2, <1>3, <1>4, <1>5 DEF Scanning

\* Every step keeps the dailies of the tables and of the scans contiguous.
LEMMA LedgerInvStep == LedgerInv /\ [Next]_vars => LedgerInv'
<1> SUFFICES ASSUME LedgerInv, [Next]_vars PROVE LedgerInv'
  OBVIOUS
<1>1. TypeOK'
  BY NextType DEF LedgerInv
<1>2. ASSUME NEW s \in Sweeps, Scanning(s) \/ SweepStop(s)
      PROVE  LedgerInv'
  BY <1>1, <1>2, ScanKeepsContiguity DEF LedgerInv
<1>3. CASE Other
  BY <1>1, <1>3, OnlyScansAccrue DEF LedgerInv, DailiesContiguous, ScansContiguous
<1> QED
  BY <1>2, <1>3 DEF Next, Other

\* For any number of overlapping scans the dailies are always 1 .. k.
THEOREM NoGap == Spec => []DailiesContiguous
<1>1. Init => LedgerInv
  BY InitType DEF Init, LedgerInv, DailiesContiguous, ScansContiguous, NoScan
<1>2. LedgerInv => DailiesContiguous
  BY DEF LedgerInv
<1> QED
  BY <1>1, <1>2, LedgerInvStep, PTL DEF Spec

---------------------------------------------------------------------------
(* The ledger: no daily for a day that has not elapsed.                    *)

\* Some profile charges at least n dailies by now.
Elapsed(n) ==
    \E pr \in Profiles :
        /\ n <= pr.cap
        /\ n <= day - enteredAt + (IF pr.model = "CALENDAR" THEN 1 ELSE 0)

\* What a scan remembers was true when it read it, and time only goes on.
ScansElapsed ==
    \A s \in Sweeps :
        /\ sweep[s].pc # "idle" => enteredAt # NoDay
        /\ sweep[s].pc = "context" => sweep[s].now <= day
        /\ sweep[s].pc \in {"max", "accrue"} /\ sweep[s].due > 0 =>
              Elapsed(sweep[s].due)

ElapsedInv ==
    /\ TypeOK
    /\ OnlyElapsedDays
    /\ daily # {} => enteredAt # NoDay
    /\ ScansElapsed

\* The entry is stamped once and the clock does not go back.
LEMMA TimeGoesOn ==
    ASSUME TypeOK, Other
    PROVE  /\ enteredAt # NoDay => enteredAt' = enteredAt
           /\ day <= day'
<1> USE DEF custodyVars, ledgerVars, worldVars
<1>1. day' = day \/ day' = day + 1
  BY ZenonT(60) DEF Other, Arrive, Progress, Open, TransitionOpen, StartOpen,
         DossierOpen, SettleOpen, AuctionOpen, CheckOpen, ConsumeOpen, ExitOpen,
         ReturnOpen, ReadContext, ReadLines, Conflict, ConsumeAsk, TransitionCommit,
         StartCommit, CheckCommit, ConsumeCommit, DossierCommit, ExitCommit,
         ReturnCommit, EligibleCommit, RecycleCommit, SettleCommit,
         SetRecipient, Approve, EditIntake, ManualCharge, AdjustDaily,
         UpdateProfile, Tick, vars
<1>2. enteredAt' = enteredAt \/ \E k \in Clerks : TransitionCommit(k)
  BY ZenonT(60) DEF Other, Arrive, Progress, Open, TransitionOpen, StartOpen,
         DossierOpen, SettleOpen, AuctionOpen, CheckOpen, ConsumeOpen, ExitOpen,
         ReturnOpen, ReadContext, ReadLines, Conflict, ConsumeAsk,
         StartCommit, CheckCommit, ConsumeCommit, DossierCommit, ExitCommit,
         ReturnCommit, EligibleCommit, RecycleCommit, SettleCommit,
         SetRecipient, Approve, EditIntake, ManualCharge, AdjustDaily,
         UpdateProfile, Tick, vars
<1>3. enteredAt # NoDay => enteredAt' = enteredAt
  BY <1>2 DEF TransitionCommit
<1> QED
  BY <1>1, <1>3 DEF TypeOK

\* A later clock keeps what has elapsed elapsed.
LEMMA ElapsedStays ==
    ASSUME TypeOK, Other, NEW n \in Nat, enteredAt # NoDay, Elapsed(n)
    PROVE  Elapsed(n)'
<1>1. enteredAt' = enteredAt /\ day <= day'
  BY TimeGoesOn
<1>2. day' \in Nat /\ day \in Nat /\ enteredAt \in Nat /\ enteredAt' \in Nat
  BY <1>1, NextType DEF Other, Next, TypeOK, Days, NoDay
<1>3. PICK pr \in Profiles :
          /\ n <= pr.cap
          /\ n <= day - enteredAt + (IF pr.model = "CALENDAR" THEN 1 ELSE 0)
  BY DEF Elapsed
<1> DEFINE extra == IF pr.model = "CALENDAR" THEN 1 ELSE 0
<1>4. extra \in Int /\ n <= day - enteredAt + extra
  BY <1>3
<1> HIDE DEF extra
<1>5. PICK later \in Nat : later = day'
  BY <1>2
<1>6. day <= later
  BY <1>1, <1>5
<1>7. n <= later - enteredAt + extra
  BY <1>2, <1>4, <1>6
<1>8. n <= day' - enteredAt' + extra
  BY <1>1, <1>5, <1>7
<1> QED
  BY <1>3, <1>8 DEF Elapsed, extra

\* When one daily has elapsed, so have the ones before it.
LEMMA ElapsedBelow ==
    ASSUME TypeOK, NEW n \in Nat, NEW m \in Nat, m <= n, Elapsed(n)
    PROVE  Elapsed(m)
BY ProfilesAssumption DEF Elapsed, TypeOK, Days, NoDay

\* The engine accrues only elapsed days of the profile it reads.
LEMMA AccruableElapsed ==
    ASSUME TypeOK, NEW now \in Nat, now <= day, enteredAt # NoDay,
           Accruable(profile, enteredAt, AsOf(now)) > 0
    PROVE  Elapsed(Accruable(profile, enteredAt, AsOf(now)))
<1>1. AsOf(now) \in Int /\ AsOf(now) <= day
  BY DEF AsOf, TypeOK, Days, NoDay
<1>2. /\ profile \in Profiles
      /\ profile.model \in {"ROLLING_24H", "CALENDAR"}
      /\ profile.cap \in Nat
      /\ enteredAt \in Nat /\ day \in Nat
  BY ProfilesAssumption DEF TypeOK, Days, NoDay
<1> DEFINE n == Accruable(profile, enteredAt, AsOf(now))
<1>3. /\ n <= profile.cap
      /\ n <= day - enteredAt + (IF profile.model = "CALENDAR" THEN 1 ELSE 0)
  BY <1>1, <1>2 DEF Accruable, Due
<1> QED
  BY <1>2, <1>3 DEF Elapsed

\* What the handlers, the clock and the administrator do keeps the
\* dailies, those charged and those a scan is about to charge, elapsed.
LEMMA OtherKeepsElapsed ==
    ASSUME ElapsedInv, Other
    PROVE  ElapsedInv'
<1> USE DEF ElapsedInv
<1>1. daily' = daily /\ sweep' = sweep
  BY OnlyScansAccrue
<1>2. TypeOK'
  BY NextType DEF Other, Next
<1>3. /\ enteredAt # NoDay => enteredAt' = enteredAt
      /\ day <= day'
  BY TimeGoesOn
<1>4. OnlyElapsedDays'
  <2> SUFFICES ASSUME NEW p \in daily PROVE Elapsed(p)'
    BY <1>1 DEF OnlyElapsedDays, Elapsed
  <2>1. p \in Nat /\ Elapsed(p) /\ enteredAt # NoDay
    BY DEF TypeOK, OnlyElapsedDays, Elapsed
  <2> QED
    BY <2>1, ElapsedStays
<1>5. ScansElapsed'
  <2> SUFFICES ASSUME NEW s \in Sweeps
               PROVE  /\ sweep[s].pc # "idle" => enteredAt' # NoDay
                      /\ sweep[s].pc = "context" => sweep[s].now <= day'
                      /\ sweep[s].pc \in {"max", "accrue"} /\ sweep[s].due > 0 =>
                            Elapsed(sweep[s].due)'
    BY <1>1 DEF ScansElapsed
  <2>1. sweep[s].due \in Nat /\ sweep[s].now \in Nat
    BY DEF TypeOK, Scan
  <2>2. sweep[s].pc # "idle" => enteredAt' # NoDay
    BY <1>3 DEF ScansElapsed
  <2>3. sweep[s].pc = "context" => sweep[s].now <= day'
    BY <1>2, <1>3, <2>1 DEF ScansElapsed, TypeOK
  <2>4. ASSUME sweep[s].pc \in {"max", "accrue"}, sweep[s].due > 0
        PROVE  Elapsed(sweep[s].due)'
    <3>1. PICK n \in Nat : n = sweep[s].due
      BY <2>1
    <3>2. Elapsed(n) /\ enteredAt # NoDay
      BY <2>4, <3>1 DEF ScansElapsed
    <3>3. Elapsed(n)'
      BY <3>2, ElapsedStays
    <3> QED
      BY <1>1, <3>1, <3>3 DEF Elapsed
  <2> QED
    BY <2>2, <2>3, <2>4
<1> QED
  BY <1>1, <1>2, <1>3, <1>4, <1>5

\* A scan charges no daily but the elapsed ones it counted.
LEMMA ScanKeepsElapsed ==
    ASSUME ElapsedInv, NEW s \in Sweeps, Scanning(s) \/ SweepStop(s)
    PROVE  ElapsedInv'
<1> USE DEF ElapsedInv
<1>1. UNCHANGED <<enteredAt, day>>
  BY DEF Scanning, SweepList, SweepContext, SweepMax, SweepAccrue, SweepStop,
         custodyVars, worldVars
<1>2. TypeOK'
  BY NextType DEF Next
<1>3. \A n : Elapsed(n)' <=> Elapsed(n)
  BY <1>1 DEF Elapsed
<1>4. \A t \in Sweeps \ {s} : sweep'[t] = sweep[t]
  BY DEF Scanning, SweepList, SweepContext, SweepMax, SweepAccrue, SweepStop, TypeOK
\* What is left to show of a step: its own scan and the daily it writes.
<1>5. ASSUME /\ sweep'[s].pc # "idle" => enteredAt # NoDay
             /\ sweep'[s].pc = "context" => sweep'[s].now <= day
             /\ sweep'[s].pc \in {"max", "accrue"} /\ sweep'[s].due > 0 =>
                   Elapsed(sweep'[s].due)
             /\ \A p \in daily' : p \in daily \/ (Elapsed(p) /\ enteredAt # NoDay)
      PROVE  ElapsedInv'
  <2>1. OnlyElapsedDays'
    BY <1>1, <1>5 DEF OnlyElapsedDays, Elapsed
  <2>2. (daily # {} => enteredAt # NoDay)'
    BY <1>1, <1>5
  <2>3. ScansElapsed'
    BY <1>1, <1>3, <1>4, <1>5 DEF ScansElapsed
  <2> QED
    BY <1>2, <2>1, <2>2, <2>3
<1>6. CASE SweepList(s)
  BY <1>5, <1>6 DEF SweepList, TypeOK, NoScan, ledgerVars
<1>7. CASE SweepContext(s)
  <2>1. sweep[s].now \in Nat /\ sweep[s].now <= day /\ enteredAt # NoDay
    BY <1>7 DEF SweepContext, ScansElapsed, TypeOK, Scan
  <2>2. /\ sweep'[s].pc = "max"
        /\ sweep'[s].due = Accruable(profile, enteredAt, AsOf(sweep[s].now))
        /\ daily' = daily
    BY <1>7 DEF SweepContext, TypeOK, NoScan, ledgerVars
  <2> QED
    BY <1>5, <2>1, <2>2, AccruableElapsed
<1>8. CASE SweepMax(s)
  <2>1. /\ sweep'[s].pc \in {"accrue", "idle"}
        /\ sweep'[s].pc = "accrue" => sweep'[s].due = sweep[s].due
        /\ daily' = daily
    BY <1>8 DEF SweepMax, TypeOK, NoScan, ledgerVars
  <2>2. enteredAt # NoDay /\ (sweep[s].due > 0 => Elapsed(sweep[s].due))
    BY <1>8 DEF SweepMax, ScansElapsed
  <2> QED
    BY <1>5, <2>1, <2>2
<1>9. CASE SweepAccrue(s)
  <2> DEFINE p == sweep[s].next
             n == sweep[s].due
  <2>1. p \in Nat /\ n \in Nat /\ p > 0 /\ p <= n /\ enteredAt # NoDay
    BY <1>9 DEF SweepAccrue, TypeOK, Scan, ScansElapsed
  <2>2. Elapsed(n) /\ Elapsed(p)
    BY <1>9, <2>1, ElapsedBelow DEF SweepAccrue, ScansElapsed
  <2>3. /\ daily' = daily \cup {p}
        /\ sweep'[s].pc \in {"accrue", "idle"}
        /\ sweep'[s].pc = "accrue" => sweep'[s].due = n
    BY <1>9 DEF SweepAccrue, TypeOK, Scan, NoScan
  <2> QED
    BY <1>5, <2>1, <2>2, <2>3
<1>10. CASE SweepStop(s)
  BY <1>5, <1>10 DEF SweepStop, TypeOK, NoScan, ledgerVars
<1> QED
  BY <1>6, <1>7, <1>8, <1>9, <1>10 DEF Scanning

\* No scan, however stale what it read, charges a day that has not elapsed.
THEOREM NoEarlyDaily == Spec => []OnlyElapsedDays
<1>1. Init => ElapsedInv
  BY InitType DEF Init, ElapsedInv, OnlyElapsedDays, ScansElapsed, NoScan
<1>2. ElapsedInv /\ [Next]_vars => ElapsedInv'
  BY OtherKeepsElapsed, ScanKeepsElapsed DEF Next, Other
<1>3. ElapsedInv => OnlyElapsedDays
  BY DEF ElapsedInv
<1> QED
  BY <1>1, <1>2, <1>3, PTL DEF Spec

---------------------------------------------------------------------------
(* The release gate and the refinement of the life cycle.                  *)

\* Only the commits of the handlers that drive an edge write the status.
StatusCommit(k) ==
    \/ TransitionCommit(k) \/ StartCommit(k) \/ ConsumeCommit(k)
    \/ ExitCommit(k) \/ ReturnCommit(k) \/ EligibleCommit(k) \/ RecycleCommit(k)

\* The status and the instants of entry and stop change in a commit only.
LEMMA OnlyCommitsMove ==
    ASSUME [Next]_vars, \A k \in Clerks : ~StatusCommit(k)
    PROVE  UNCHANGED <<status, enteredAt, frozenAt>>
BY ZenonT(60) DEF StatusCommit, Next, Arrive, Progress, Scanning, Open, TransitionOpen,
       StartOpen, DossierOpen, SettleOpen, AuctionOpen, CheckOpen, ConsumeOpen,
       ExitOpen, ReturnOpen, ReadContext, ReadLines, Conflict, ConsumeAsk, CheckCommit,
       DossierCommit, SettleCommit, SetRecipient, Approve, EditIntake,
       ManualCharge, AdjustDaily, UpdateProfile, Tick, SweepList, SweepContext,
       SweepMax, SweepAccrue, SweepStop, vars, custodyVars, ledgerVars, worldVars

\* A handler remembers what it remembers until it takes a step itself.
LEMMA OthersKeepRequest ==
    ASSUME TypeOK, [Next]_vars, NEW k \in Clerks, ~Arrive(k), ~Progress(k)
    PROVE  request'[k] = request[k]
<1>1. ASSUME NEW j \in Clerks, Arrive(j)
      PROVE  \E r : request' = [request EXCEPT ![j] = r]
  BY <1>1 DEF Arrive, Open, TransitionOpen, StartOpen, DossierOpen, SettleOpen,
     AuctionOpen, CheckOpen, ConsumeOpen, ExitOpen, ReturnOpen
<1>2. ASSUME NEW j \in Clerks, Progress(j)
      PROVE  \E r : request' = [request EXCEPT ![j] = r]
  <2>1. CASE ReadContext(j) \/ ReadLines(j)
    BY <2>1 DEF ReadContext, ReadLines
  <2>2. CASE ~ReadContext(j) /\ ~ReadLines(j)
    BY <1>2, <2>2 DEF Finish, Progress, Conflict, TransitionCommit, StartCommit,
       CheckCommit, ConsumeAsk, ConsumeCommit, DossierCommit, ExitCommit,
       ReturnCommit, EligibleCommit, RecycleCommit, SettleCommit
  <2> QED
    BY <2>1, <2>2
<1>3. CASE \A j \in Clerks : ~Arrive(j) /\ ~Progress(j)
  BY <1>3 DEF Next, Scanning, SetRecipient, Approve, EditIntake, ManualCharge,
     AdjustDaily, UpdateProfile, Tick, SweepList, SweepContext, SweepMax,
     SweepAccrue, SweepStop, vars
<1> QED
  BY <1>1, <1>2, <1>3 DEF TypeOK

\* Between its questions and its writes a release holds the rows that the
\* answers are about: only the checklist can move under it.
AnswersHold ==
    \A k \in Clerks : request[k].stage = "write" =>
        /\ status = "RELEASE_IN_PROGRESS"
        /\ DossierReady(request[k].dossier)
        /\ DebtsSettled
        /\ \A j \in Clerks : request[j].stage = "write" => j = k

GateInv == TypeOK /\ AnswersHold

\* A request is between the two only after it asked.
LEMMA WritersAsked ==
    ASSUME TypeOK, [Next]_vars, NEW k \in Clerks, request'[k].stage = "write"
    PROVE  request'[k] = request[k] \/ ConsumeAsk(k)
<1>1. CASE Arrive(k)
  BY <1>1 DEF Arrive, Open, TransitionOpen, StartOpen, DossierOpen, SettleOpen,
     AuctionOpen, CheckOpen, ConsumeOpen, ExitOpen, ReturnOpen, TypeOK
<1>2. CASE ReadContext(k)
  <2>1. \E n : request' = [request EXCEPT ![k] =
            [request[k] EXCEPT !.stage = "lines", !.at = day, !.kept = n]]
    BY <1>2 DEF ReadContext, TypeOK, Request
  <2> QED
    BY <2>1 DEF TypeOK, Request
<1>3. CASE ReadLines(k)
  BY <1>3 DEF ReadLines, TypeOK, Request, NoRequest
<1>4. CASE Progress(k) /\ ~ReadContext(k) /\ ~ReadLines(k) /\ ~ConsumeAsk(k)
  <2>1. Finish(k)
    BY <1>4 DEF Progress, Conflict, TransitionCommit, StartCommit,
       CheckCommit, ConsumeCommit, DossierCommit, ExitCommit, ReturnCommit,
       EligibleCommit, RecycleCommit, SettleCommit
  <2> QED
    BY <2>1 DEF Finish, TypeOK, NoRequest
<1> QED
  BY <1>1, <1>2, <1>3, <1>4, OthersKeepRequest

\* setRequirementCheck writes the items of the checklist and nothing else.
LEMMA OnlyItemsMove ==
    ASSUME TypeOK, NEW k \in Clerks, CheckCommit(k), NEW e \in Dossiers
    PROVE  /\ dossier'[e].kind = dossier[e].kind
           /\ dossier'[e].status = dossier[e].status
           /\ dossier'[e].approved = dossier[e].approved
           /\ dossier'[e].recipient = dossier[e].recipient
<1> DEFINE d == request[k].dossier
<1>1. PICK c \in Codes, satisfied \in BOOLEAN :
        dossier' = [dossier EXCEPT ![d].unmet =
            IF satisfied THEN @ \ {c} ELSE @ \cup {c}]
  BY DEF CheckCommit
<1> DEFINE u == IF satisfied THEN dossier[d].unmet \ {c}
                ELSE dossier[d].unmet \cup {c}
<1>2. dossier' = [dossier EXCEPT ![d].unmet = u]
  BY <1>1
<1> HIDE DEF u, d
<1> QED
  BY <1>2 DEF TypeOK, Dossier

\* While a release holds its rows, nobody else moves what they say.
LEMMA LockedRowsKept ==
    ASSUME TypeOK, [Next]_vars, NEW h \in Clerks, request[h].stage = "write",
           \A k \in Clerks : ~ConsumeCommit(k),
           DossierReady(request[h].dossier)
    PROVE  /\ UNCHANGED <<status, daily, settled, extrasOwed>>
           /\ DossierReady(request[h].dossier)'
<1> DEFINE d == request[h].dossier
<1>1. ~ProcessFree
  BY DEF ProcessFree
<1>2. d \in Dossiers
  BY DEF TypeOK, Request, FitsCall
<1>3. UNCHANGED <<status, daily, settled, extrasOwed>>
  BY ZenonT(60), <1>1 DEF Next, Arrive, Progress, Scanning, Open, TransitionOpen,
       StartOpen, DossierOpen, SettleOpen, AuctionOpen, CheckOpen, ConsumeOpen,
       ExitOpen, ReturnOpen, ReadContext, ReadLines, Conflict, ConsumeAsk,
       TransitionCommit, StartCommit, CheckCommit, DossierCommit, ExitCommit,
       ReturnCommit, EligibleCommit, RecycleCommit, SettleCommit, SetRecipient,
       Approve, EditIntake, ManualCharge, AdjustDaily, UpdateProfile, Tick,
       SweepList, SweepContext, SweepMax, SweepAccrue, SweepStop, vars,
       custodyVars, ledgerVars, worldVars
<1>4. /\ dossier'[d].status = dossier[d].status
      /\ dossier'[d].approved = dossier[d].approved
      /\ dossier'[d].recipient = dossier[d].recipient
  <2>1. CASE \E k \in Clerks : CheckCommit(k)
    BY <1>2, <2>1, OnlyItemsMove
  <2>2. ASSUME NEW e \in Dossiers, SetRecipient(e) \/ Approve(e)
        PROVE  dossier'[d] = dossier[d]
    <3>1. e # d
      BY <2>2 DEF SetRecipient, Approve, DossierFree
    <3>2. \E row : dossier' = [dossier EXCEPT ![e] = row]
      BY <2>2 DEF SetRecipient, Approve, TypeOK, Dossier
    <3> QED
      BY <1>2, <3>1, <3>2 DEF TypeOK
  <2>3. CASE /\ \A k \in Clerks : ~CheckCommit(k)
             /\ \A e \in Dossiers : ~SetRecipient(e) /\ ~Approve(e)
    <3>1. dossier' = dossier
      BY ZenonT(60), <1>1, <2>3 DEF Next, Arrive, Progress, Scanning, Open, TransitionOpen,
         StartOpen, DossierOpen, SettleOpen, AuctionOpen, CheckOpen, ConsumeOpen,
         ExitOpen, ReturnOpen, ReadContext, ReadLines, Conflict, ConsumeAsk,
         TransitionCommit, StartCommit, DossierCommit, ExitCommit, ReturnCommit,
         EligibleCommit, RecycleCommit, SettleCommit, EditIntake, ManualCharge,
         AdjustDaily, UpdateProfile, Tick, SweepList, SweepContext, SweepMax,
         SweepAccrue, SweepStop, vars
    <3> QED
      BY <3>1
  <2> QED
    BY <2>1, <2>2, <2>3
<1>5. request'[h] = request[h]
  <2>1. request[h].call = "consume"
    BY DEF TypeOK, Request
  <2>2. ~Arrive(h)
    BY <2>1 DEF Arrive, Open, TransitionOpen, StartOpen, DossierOpen, SettleOpen,
       AuctionOpen, CheckOpen, ConsumeOpen, ExitOpen, ReturnOpen
  <2>3. ~Progress(h)
    BY <1>1 DEF Progress, ReadContext, ReadLines, Conflict, ConsumeAsk,
       TransitionCommit, StartCommit, CheckCommit, DossierCommit, ExitCommit,
       ReturnCommit, EligibleCommit, RecycleCommit, SettleCommit
  <2> QED
    BY <2>2, <2>3, OthersKeepRequest
<1> QED
  BY <1>3, <1>4, <1>5 DEF DossierReady, Active

\* Every step keeps the answers of a release true until it writes.
LEMMA GateInvStep == GateInv /\ [Next]_vars => GateInv'
<1> SUFFICES ASSUME GateInv, [Next]_vars PROVE GateInv'
  OBVIOUS
<1> USE DEF GateInv
<1>1. TypeOK'
  BY NextType
<1>2. CASE ProcessFree
  <2> SUFFICES ASSUME NEW k \in Clerks, request'[k].stage = "write"
               PROVE  /\ status' = "RELEASE_IN_PROGRESS"
                      /\ DossierReady(request[k].dossier)'
                      /\ DebtsSettled'
                      /\ \A j \in Clerks : request'[j].stage = "write" => j = k
    BY <1>1 DEF AnswersHold
  <2>1. ConsumeAsk(k)
    BY <1>2, WritersAsked DEF ProcessFree
  <2>2. /\ status = "RELEASE_IN_PROGRESS" /\ DossierReady(request[k].dossier)
        /\ DebtsSettled
        /\ UNCHANGED <<custodyVars, dossier, ledgerVars>>
    BY <2>1 DEF ConsumeAsk, ConsumeRecheck, TypeOK, Request, FitsCall
  <2>3. /\ request'[k].dossier = request[k].dossier
        /\ \A j \in Clerks \ {k} : request'[j] = request[j]
    BY <2>1 DEF ConsumeAsk, TypeOK, NoRequest
  <2> QED
    BY <1>2, <2>2, <2>3 DEF ProcessFree, DossierReady, Active, DebtsSettled,
       custodyVars, ledgerVars
<1>3. ASSUME NEW h \in Clerks, request[h].stage = "write"
      PROVE  GateInv'
  <2>1. ASSUME NEW k \in Clerks, request'[k].stage = "write"
        PROVE  request'[k] = request[k] /\ k = h
    BY <1>3, <2>1, WritersAsked DEF ConsumeAsk, ProcessFree, AnswersHold
  <2>2. CASE \E k \in Clerks : ConsumeCommit(k)
    <3>1. ConsumeCommit(h)
      BY <1>3, <2>2 DEF ConsumeCommit, AnswersHold
    <3>2. request'[h].stage = "none"
      BY <3>1 DEF ConsumeCommit, Finish, NoRequest, TypeOK
    <3> QED
      BY <1>1, <2>1, <3>2 DEF AnswersHold
  <2>3. CASE \A k \in Clerks : ~ConsumeCommit(k)
    <3>1. /\ UNCHANGED <<status, daily, settled, extrasOwed>>
          /\ DossierReady(request[h].dossier)'
      BY <1>3, <2>3, LockedRowsKept DEF AnswersHold
    <3> QED
      BY <1>1, <1>3, <2>1, <3>1 DEF AnswersHold, DebtsSettled
  <2> QED
    BY <2>2, <2>3
<1> QED
  BY <1>2, <1>3 DEF ProcessFree

\* At first no release is between its questions and its writes.
LEMMA InitGate == Init => GateInv
BY InitType DEF Init, GateInv, AnswersHold, NoRequest

\* A release passes the gate at the instant it commits.
LEMMA ConsumePasses ==
    ASSUME GateInv, NEW k \in Clerks, ConsumeCommit(k)
    PROVE  /\ daily \subseteq settled /\ ~extrasOwed
           /\ \E d \in Dossiers :
                 /\ dossier[d].approved /\ dossier[d].recipient
                 /\ dossier'[d].status = "COMPLETED"
<1> DEFINE d == request[k].dossier
<1>1. d \in Dossiers
  BY DEF GateInv, ConsumeCommit, TypeOK, Request, FitsCall
<1>2. dossier'[d].status = "COMPLETED"
  BY <1>1 DEF GateInv, ConsumeCommit, TypeOK, Dossier
<1> QED
  BY <1>1, <1>2 DEF GateInv, AnswersHold, ConsumeCommit, DossierReady, DebtsSettled

\* No interleaving releases a vehicle whose debts, authorization or recipient
\* are not in order when the release commits: the rows it asked about are
\* locked until then.
THEOREM GateHolds == Spec => ReleasedOnlyWhenDue
<1>1. GateInv /\ [Next]_vars =>
        [status # "RELEASED" /\ status' = "RELEASED" =>
          /\ daily \subseteq settled /\ ~extrasOwed
          /\ \E d \in Dossiers :
                /\ dossier[d].approved /\ dossier[d].recipient
                /\ dossier'[d].status = "COMPLETED"]_vars
  <2> SUFFICES ASSUME GateInv, [Next]_vars, status # "RELEASED", status' = "RELEASED"
               PROVE  \E k \in Clerks : ConsumeCommit(k)
    BY ConsumePasses
  <2>1. PICK k \in Clerks : StatusCommit(k)
    BY OnlyCommitsMove
  <2>2. TransitionCommit(k) => status' # "RELEASED"
    BY DEF GateInv, TransitionCommit, TypeOK, Request, FitsCall, NativeTarget
  <2> QED
    BY <2>1, <2>2 DEF StatusCommit, StartCommit, ExitCommit, ReturnCommit,
       EligibleCommit, RecycleCommit
<1> QED
  BY <1>1, InitGate, GateInvStep, PTL DEF Spec, ReleasedOnlyWhenDue

\* A commit follows an enabled edge of the custody table.
LEMMA CommitIsAnEdge ==
    ASSUME GateInv, NEW k \in Clerks, StatusCommit(k)
    PROVE  L!Next
<1> DEFINE r == request[k]
<1> USE DEF GateInv, L!Next, L!Follow, L!EnabledEdges, L!StoppingEdges
<1>1. CASE TransitionCommit(k)
  <2>1. /\ r.from \in DOMAIN NativeTarget /\ status = r.from
        /\ status' = NativeTarget[r.from] /\ frozenAt' = frozenAt
    BY <1>1 DEF TransitionCommit, TransitionRecheck, TypeOK, Request, FitsCall
  <2>2. <<status, status'>> \in L!EnabledEdges \ L!StoppingEdges
    BY <2>1 DEF NativeTarget
  <2> QED
    BY <2>1, <2>2
<1>2. CASE StartCommit(k)
  <2>1. status = "ACTIVE_CUSTODY" /\ r.at \in Nat
    BY <1>2 DEF StartCommit, StartRecheck, TypeOK, Request, FitsCall
  <2>2. frozenAt' # NoDay
    BY <1>2, <2>1 DEF StartCommit, NoDay
  <2> QED
    BY <1>2, <2>1, <2>2 DEF StartCommit
<1>3. CASE RecycleCommit(k)
  <2>1. status = "ACTIVE_CUSTODY" /\ r.at \in Nat
    BY <1>3 DEF RecycleCommit, AuctionRecheck, TypeOK, Request, FitsCall
  <2>2. frozenAt' # NoDay
    BY <1>3, <2>1 DEF RecycleCommit, NoDay
  <2> QED
    BY <1>3, <2>1, <2>2 DEF RecycleCommit
<1>4. CASE ConsumeCommit(k)
  BY <1>4 DEF ConsumeCommit, AnswersHold
<1>5. CASE ExitCommit(k)
  BY <1>5 DEF ExitCommit, ExitRecheck, TypeOK, Request, FitsCall
<1>6. CASE ReturnCommit(k)
  BY <1>6 DEF ReturnCommit, ReturnRecheck, TypeOK, Request, FitsCall
<1>7. CASE EligibleCommit(k)
  BY <1>7 DEF EligibleCommit, AuctionRecheck, TypeOK, Request, FitsCall
<1> QED
  BY <1>1, <1>2, <1>3, <1>4, <1>5, <1>6, <1>7 DEF StatusCommit

\* The handlers, their transactions interleaved in any way, implement the
\* custody table.
THEOREM ImplementsLifecycle == Spec => Lifecycle
<1>1. Init => L!Init
  BY DEF Init, L!Init
<1>2. GateInv /\ [Next]_vars => [L!Next]_(L!lifecycleVars)
  BY OnlyCommitsMove, CommitIsAnEdge DEF L!lifecycleVars
<1> QED
  BY <1>1, <1>2, InitGate, GateInvStep, PTL DEF Spec, Lifecycle, L!Spec

---------------------------------------------------------------------------
(* The dossiers agree with the status.                                     *)

DossierInv == GateInv /\ DossierMatchesStatus

\* The steps that leave the dossiers' statuses, kinds and acts alone.
LEMMA DossiersKept ==
    ASSUME DossierInv, [Next]_vars,
           \A k \in Clerks :
               ~StatusCommit(k) /\ ~DossierCommit(k) /\ ~CheckCommit(k),
           \A d \in Dossiers : ~SetRecipient(d) /\ ~Approve(d)
    PROVE  UNCHANGED <<status, dossier>>
<1>1. status' = status
  BY OnlyCommitsMove
<1>2. dossier' = dossier
  BY ZenonT(60) DEF StatusCommit, Next, Arrive, Progress, Scanning, Open, TransitionOpen,
       StartOpen, DossierOpen, SettleOpen, AuctionOpen, CheckOpen, ConsumeOpen,
       ExitOpen, ReturnOpen, ReadContext, ReadLines, Conflict, ConsumeAsk,
       SettleCommit, EditIntake, ManualCharge, AdjustDaily, UpdateProfile, Tick,
       SweepList, SweepContext, SweepMax, SweepAccrue, SweepStop, vars,
       custodyVars, ledgerVars, worldVars
<1> QED
  BY <1>1, <1>2

\* An inserted dossier is the only open one.
LEMMA InsertedAlone ==
    ASSUME TypeOK, NoActive, NEW kind \in DossierKinds, NEW unmet \in SUBSET Codes,
           Insert(kind, unmet)
    PROVE  \E d \in Dossiers :
              /\ \A e \in Dossiers : Active(e)' <=> e = d
              /\ dossier'[d].kind = kind
BY DEF TypeOK, NoActive, Insert, Active, ActiveStatuses

\* The rows of a dossier table after one row is rewritten.
LEMMA EditKeepsMatch ==
    ASSUME DossierInv, NEW d \in Dossiers, status' = status,
           \A e \in Dossiers : dossier'[e].kind = dossier[e].kind,
           \A e \in Dossiers : Active(e)' <=> Active(e),
           \A e \in Dossiers : DossierReady(e) => DossierReady(e)'
    PROVE  DossierMatchesStatus'
BY DEF DossierInv, GateInv, DossierMatchesStatus

\* A commit that moves the status leaves the open dossier that matches it.
LEMMA MoveKeepsMatch ==
    ASSUME DossierInv, NEW k \in Clerks, StatusCommit(k)
    PROVE  DossierMatchesStatus'
<1> DEFINE r == request[k]
           d == r.dossier
<1> USE DEF DossierInv, GateInv, ActiveStatuses
<1>1. CASE TransitionCommit(k)
  <2>1. /\ r.from \in DOMAIN NativeTarget /\ status = r.from
        /\ status' = NativeTarget[r.from] /\ dossier' = dossier
    BY <1>1 DEF TransitionCommit, TransitionRecheck, TypeOK, Request, FitsCall
  <2>2. /\ status \in {"IN_REMOVAL", "RECEPTION", "ACTIVE_CUSTODY", "JUDICIAL_HOLD"}
        /\ status' \in {"RECEPTION", "ACTIVE_CUSTODY", "JUDICIAL_HOLD"}
        /\ status' = "RECEPTION" => status = "IN_REMOVAL"
    BY <2>1 DEF NativeTarget
  <2> QED
    BY <2>1, <2>2 DEF DossierMatchesStatus, Active, DossierReady
<1>2. CASE StartCommit(k)
  <2>1. PICK e \in Dossiers :
           /\ \A f \in Dossiers : Active(f)' <=> f = e
           /\ dossier'[e].kind = "STANDARD"
    BY <1>2, InsertedAlone DEF StartCommit, StartRecheck, DossierKinds
  <2>2. status' = "RELEASE_IN_PROGRESS"
    BY <1>2 DEF StartCommit
  <2> QED
    BY <2>1, <2>2 DEF DossierMatchesStatus
<1>3. CASE ConsumeCommit(k)
  <2>1. d \in Dossiers /\ Active(d) /\ status' = "RELEASED"
    BY <1>3 DEF ConsumeCommit, AnswersHold, DossierReady, TypeOK, Request, FitsCall
  <2>2. \A e \in Dossiers : ~Active(e)'
    BY <1>3, <2>1 DEF ConsumeCommit, DossierMatchesStatus, Active, TypeOK, Dossier
  <2> QED
    BY <2>1, <2>2 DEF DossierMatchesStatus
<1>4. CASE ExitCommit(k)
  <2>1. /\ d \in Dossiers /\ DossierReady(d) /\ dossier[d].kind = "FOR_REPAIR"
        /\ status = "ACTIVE_CUSTODY"
        /\ status' = "RELEASED_FOR_REPAIR" /\ dossier' = dossier
    BY <1>4 DEF ExitCommit, ExitRecheck, TypeOK, Request, FitsCall
  <2> QED
    BY <2>1 DEF DossierMatchesStatus, Active, DossierReady
<1>5. CASE ReturnCommit(k)
  <2>1. d \in Dossiers /\ Active(d) /\ status' = "ACTIVE_CUSTODY"
    BY <1>5 DEF ReturnCommit, ReturnRecheck, TypeOK, Request, FitsCall
  <2>2. \A e \in Dossiers : ~Active(e)'
    BY <1>5, <2>1 DEF ReturnCommit, DossierMatchesStatus, Active, TypeOK, Dossier
  <2> QED
    BY <2>1, <2>2 DEF DossierMatchesStatus
<1>6. CASE EligibleCommit(k) \/ RecycleCommit(k)
  <2>1. /\ NoActive /\ dossier' = dossier
        /\ status' \in {"AUCTION_ELIGIBLE", "DIRECT_RECYCLING"}
    BY <1>6 DEF EligibleCommit, RecycleCommit, AuctionRecheck
  <2> QED
    BY <2>1 DEF DossierMatchesStatus, NoActive, Active, DossierReady
<1> QED
  BY <1>1, <1>2, <1>3, <1>4, <1>5, <1>6 DEF StatusCommit

\* Every step keeps one open release at most, of the kind of the status.
LEMMA DossierInvStep == DossierInv /\ [Next]_vars => DossierInv'
<1> SUFFICES ASSUME DossierInv, [Next]_vars PROVE DossierInv'
  OBVIOUS
<1> USE DEF DossierInv, GateInv, ActiveStatuses
<1>1. GateInv'
  BY GateInvStep
<1>2. ASSUME NEW k \in Clerks, StatusCommit(k) PROVE DossierMatchesStatus'
  BY <1>2, MoveKeepsMatch
<1>3. ASSUME NEW k \in Clerks, DossierCommit(k) PROVE DossierMatchesStatus'
  <2>1. /\ NoActive /\ status = "ACTIVE_CUSTODY" /\ status' = status
        /\ Insert("FOR_REPAIR", {})
    BY <1>3 DEF DossierCommit, DossierRecheck, TypeOK, Request, FitsCall, custodyVars
  <2>2. PICK e \in Dossiers :
           /\ \A f \in Dossiers : Active(f)' <=> f = e
           /\ dossier'[e].kind = "FOR_REPAIR"
    BY <2>1, InsertedAlone DEF DossierKinds
  <2> QED
    BY <2>1, <2>2 DEF DossierMatchesStatus
<1>4. ASSUME NEW k \in Clerks, CheckCommit(k) PROVE DossierMatchesStatus'
  <2>2. \A e \in Dossiers : /\ dossier'[e].kind = dossier[e].kind
                            /\ dossier'[e].status = dossier[e].status
                            /\ dossier'[e].approved = dossier[e].approved
                            /\ dossier'[e].recipient = dossier[e].recipient
    BY <1>4, OnlyItemsMove
  <2>3. request[k].dossier \in Dossiers /\ status' = status
    BY <1>4 DEF CheckCommit, TypeOK, Request, FitsCall, custodyVars
  <2> QED
    BY <2>2, <2>3, EditKeepsMatch DEF Active, DossierReady
<1>5. ASSUME NEW d \in Dossiers, SetRecipient(d) PROVE DossierMatchesStatus'
  <2>1. /\ \A e \in Dossiers : /\ dossier'[e].kind = dossier[e].kind
                               /\ dossier'[e].status = dossier[e].status
                               /\ dossier'[e].approved = dossier[e].approved
                               /\ dossier[e].recipient => dossier'[e].recipient
        /\ status' = status
    BY <1>5 DEF SetRecipient, TypeOK, Dossier, custodyVars
  <2> QED
    BY <2>1, EditKeepsMatch DEF Active, DossierReady
<1>6. ASSUME NEW d \in Dossiers, Approve(d) PROVE DossierMatchesStatus'
  <2>1. /\ \A e \in Dossiers :
              /\ dossier'[e].kind = dossier[e].kind
              /\ dossier'[e].status = IF e = d THEN "AUTHORIZED" ELSE dossier[e].status
              /\ dossier'[e].recipient = dossier[e].recipient
              /\ dossier[e].approved => dossier'[e].approved
        /\ status' = status /\ Active(d)
    BY <1>6 DEF Approve, ApproveGuard, TypeOK, Dossier, custodyVars
  <2> QED
    BY <2>1, EditKeepsMatch DEF Active, DossierReady
<1>7. CASE UNCHANGED <<status, dossier>>
  BY <1>1, <1>7 DEF DossierMatchesStatus, Active, DossierReady
<1>8. CASE /\ \A k \in Clerks :
                 ~StatusCommit(k) /\ ~DossierCommit(k) /\ ~CheckCommit(k)
           /\ \A d \in Dossiers : ~SetRecipient(d) /\ ~Approve(d)
  BY <1>7, <1>8, DossiersKept
<1>9. DossierMatchesStatus'
  BY <1>2, <1>3, <1>4, <1>5, <1>6, <1>8
<1> QED
  BY <1>1, <1>9

\* At most one release is open, and the status says which kind it is.
THEOREM OneReleaseAtATime == Spec => []DossierMatchesStatus
<1>1. Init => DossierInv
  BY InitGate DEF Init, DossierInv, DossierMatchesStatus, Active,
     ActiveStatuses, DossierReady, NoRow
<1>2. DossierInv => DossierMatchesStatus
  BY DEF DossierInv
<1> QED
  BY <1>1, <1>2, DossierInvStep, PTL DEF Spec

---------------------------------------------------------------------------
(* T_stop.                                                                 *)

\* The instant a handler sampled is not in the future, and a handler that
\* will stamp T_stop sampled it after the entry.
RequestTimes ==
    \A k \in Clerks :
        /\ request[k].at <= day
        /\ request[k].call \in {"start", "recycle"} =>
              enteredAt # NoDay /\ enteredAt <= request[k].at

StopInv == GateInv /\ StoppedExactlyAtTheEnd /\ RequestTimes

\* A step that leaves the status and T_stop alone keeps their relation.
LEMMA StopKept ==
    ASSUME StopInv, [Next]_vars, \A k \in Clerks : ~StatusCommit(k)
    PROVE  StoppedExactlyAtTheEnd'
<1>1. UNCHANGED <<status, enteredAt, frozenAt>>
  BY OnlyCommitsMove
<1>2. day' = day \/ day' = day + 1
  BY ZenonT(60) DEF StatusCommit, Next, Arrive, Progress, Scanning, Open, TransitionOpen,
       StartOpen, DossierOpen, SettleOpen, AuctionOpen, CheckOpen, ConsumeOpen,
       ExitOpen, ReturnOpen, ReadContext, ReadLines, Conflict, ConsumeAsk, CheckCommit,
       DossierCommit, SettleCommit, SetRecipient, Approve, EditIntake,
       ManualCharge, AdjustDaily, UpdateProfile, Tick, SweepList, SweepContext,
       SweepMax, SweepAccrue, SweepStop, vars, custodyVars, ledgerVars, worldVars
<1> QED
  BY <1>1, <1>2 DEF StopInv, GateInv, StoppedExactlyAtTheEnd, TypeOK, Days, NoDay

\* A commit sets T_stop exactly on the edges that end the charges.
LEMMA StopMoves ==
    ASSUME StopInv, NEW k \in Clerks, StatusCommit(k)
    PROVE  StoppedExactlyAtTheEnd'
<1> DEFINE r == request[k]
<1> USE DEF StopInv, GateInv, StoppedExactlyAtTheEnd
<1>1. r.at \in Nat /\ r.at <= day /\ day \in Nat /\ enteredAt \in Days /\ frozenAt \in Days
  BY DEF RequestTimes, TypeOK, Request
<1>2. CASE TransitionCommit(k)
  <2>1. /\ r.from \in DOMAIN NativeTarget /\ status = r.from
        /\ status' = NativeTarget[r.from] /\ UNCHANGED <<frozenAt, day>>
        /\ enteredAt' = IF r.from = "IN_REMOVAL" /\ enteredAt = NoDay
                        THEN r.at ELSE enteredAt
    BY <1>2 DEF TransitionCommit, TransitionRecheck, TypeOK, Request, FitsCall,
       worldVars
  <2>2. /\ status \in {"IN_REMOVAL", "RECEPTION", "ACTIVE_CUSTODY", "JUDICIAL_HOLD"}
        /\ status' \in {"RECEPTION", "ACTIVE_CUSTODY", "JUDICIAL_HOLD"}
    BY <2>1 DEF NativeTarget
  <2> QED
    BY <1>1, <2>1, <2>2 DEF Days, NoDay
<1>3. CASE StartCommit(k) \/ RecycleCommit(k)
  <2>1. /\ status = "ACTIVE_CUSTODY"
        /\ status' \in {"RELEASE_IN_PROGRESS", "DIRECT_RECYCLING"}
        /\ UNCHANGED <<enteredAt, day>>
        /\ frozenAt' = IF frozenAt = NoDay THEN r.at ELSE frozenAt
        /\ enteredAt # NoDay /\ enteredAt <= r.at
    BY <1>3 DEF StartCommit, StartRecheck, RecycleCommit, AuctionRecheck,
       RequestTimes, TypeOK, Request, FitsCall, worldVars
  <2> QED
    BY <1>1, <2>1 DEF Days, NoDay
<1>4. CASE ConsumeCommit(k)
  <2>1. /\ status = "RELEASE_IN_PROGRESS" /\ status' = "RELEASED"
        /\ UNCHANGED <<enteredAt, frozenAt, day>>
    BY <1>4 DEF ConsumeCommit, AnswersHold, worldVars
  <2> QED
    BY <2>1
<1>5. CASE ExitCommit(k) \/ ReturnCommit(k) \/ EligibleCommit(k)
  <2>1. /\ status \in {"ACTIVE_CUSTODY", "RELEASED_FOR_REPAIR"}
        /\ status' \in {"ACTIVE_CUSTODY", "RELEASED_FOR_REPAIR", "AUCTION_ELIGIBLE"}
        /\ UNCHANGED <<enteredAt, frozenAt, day>>
    BY <1>5 DEF ExitCommit, ExitRecheck, ReturnCommit, ReturnRecheck,
       EligibleCommit, AuctionRecheck, TypeOK, Request, FitsCall, worldVars
  <2> QED
    BY <2>1
<1> QED
  BY <1>2, <1>3, <1>4, <1>5 DEF StatusCommit

\* A release that locked its rows will stamp no T_stop.
LEMMA NothingStamped ==
    ASSUME TypeOK, NEW k \in Clerks, ConsumeAsk(k)
    PROVE  request'[k].at = 0 /\ request'[k].call = "consume"
BY DEF ConsumeAsk, TypeOK, NoRequest

\* The steps of a handler and of the clock keep the sampled instants in order.
LEMMA TimesStep ==
    ASSUME StopInv, [Next]_vars
    PROVE  RequestTimes'
<1> USE DEF StopInv, GateInv
<1>1. /\ enteredAt # NoDay => enteredAt' = enteredAt
      /\ day <= day'
  <2>1. CASE Other
    BY <2>1, TimeGoesOn
  <2>2. ASSUME NEW s \in Sweeps, Scanning(s) \/ SweepStop(s)
        PROVE  UNCHANGED <<enteredAt, day>>
    BY <2>2 DEF Scanning, SweepList, SweepContext, SweepMax, SweepAccrue,
       SweepStop, custodyVars, worldVars
  <2> QED
    BY <2>1, <2>2 DEF Next, Other, TypeOK
<1>2. TypeOK'
  BY NextType
<1>3. ASSUME NEW k \in Clerks
      PROVE  \/ request'[k] = request[k]
             \/ request'[k].at = 0 /\ request'[k].call \notin {"start", "recycle"}
             \/ /\ request'[k].at = day /\ day' = day /\ enteredAt' = enteredAt
                /\ request'[k].call \in {"start", "recycle"} =>
                      \/ request[k].call = request'[k].call
                      \/ status = "ACTIVE_CUSTODY"
  <2>1. CASE ReadContext(k) \/ ReadLines(k)
    <3>1. day' = day /\ enteredAt' = enteredAt
      BY <2>1 DEF ReadContext, ReadLines, custodyVars, worldVars
    <3>2. request[k] \in Request
      BY DEF TypeOK
    <3>3. \/ request'[k].at = 0 /\ request'[k].call \notin {"start", "recycle"}
          \/ request'[k].at = day /\ request'[k].call = request[k].call
      <4>1. CASE ReadLines(k)
        BY <3>2, <4>1 DEF ReadLines, TypeOK, Request, NoRequest
      <4>2. CASE ReadContext(k)
        <5>1. \E n : request' = [request EXCEPT ![k] =
                  [request[k] EXCEPT !.stage = "lines", !.at = day, !.kept = n]]
          BY <4>2 DEF ReadContext, TypeOK, Request
        <5> QED
          BY <3>2, <5>1 DEF TypeOK, Request
      <4> QED
        BY <2>1, <4>1, <4>2
    <3> QED
      BY <3>1, <3>3
  <2>2. CASE Arrive(k)
    BY <2>2 DEF Arrive, Open, TransitionOpen, StartOpen, DossierOpen, SettleOpen,
       AuctionOpen, CheckOpen, ConsumeOpen, ExitOpen, ReturnOpen, TypeOK,
       custodyVars, worldVars
  <2>3. CASE Progress(k) /\ ~ReadContext(k) /\ ~ReadLines(k)
    <3>1. Finish(k) \/ ConsumeAsk(k)
      BY <2>3 DEF Progress, Conflict, TransitionCommit, StartCommit,
         CheckCommit, ConsumeCommit, DossierCommit, ExitCommit, ReturnCommit,
         EligibleCommit, RecycleCommit, SettleCommit
    <3>2. CASE ConsumeAsk(k)
      BY <3>2, NothingStamped
    <3> QED
      BY <3>1, <3>2 DEF Finish, TypeOK, NoRequest
  <2>4. CASE ~Arrive(k) /\ ~Progress(k)
    BY <2>4, OthersKeepRequest
  <2> QED
    BY <2>1, <2>2, <2>3, <2>4
<1>4. SUFFICES ASSUME NEW k \in Clerks
               PROVE  /\ request'[k].at <= day'
                      /\ request'[k].call \in {"start", "recycle"} =>
                            enteredAt' # NoDay /\ enteredAt' <= request'[k].at
  BY DEF RequestTimes
<1>5. /\ request[k].at \in Nat /\ request[k].at <= day /\ day \in Nat /\ day' \in Nat
      /\ enteredAt \in Days
  BY <1>2 DEF RequestTimes, TypeOK, Request
<1>6. CASE request'[k] = request[k]
  BY <1>1, <1>5, <1>6 DEF RequestTimes
<1>7. CASE request'[k].at = 0 /\ request'[k].call \notin {"start", "recycle"}
  BY <1>2, <1>7 DEF TypeOK
<1>8. CASE /\ request'[k].at = day /\ day' = day /\ enteredAt' = enteredAt
           /\ request'[k].call \in {"start", "recycle"} =>
                 request[k].call = request'[k].call \/ status = "ACTIVE_CUSTODY"
  BY <1>5, <1>8 DEF RequestTimes, StoppedExactlyAtTheEnd
<1> QED
  BY <1>3, <1>6, <1>7, <1>8

\* The storage charges stop exactly where the table says they end.
THEOREM StopsAtTheEnd == Spec => []StoppedExactlyAtTheEnd
<1>1. Init => StopInv
  BY InitGate DEF Init, StopInv, StoppedExactlyAtTheEnd, RequestTimes,
     NoRequest, NoDay
<1>2. StopInv /\ [Next]_vars => StopInv'
  BY GateInvStep, StopKept, StopMoves, TimesStep DEF StopInv
<1>3. StopInv => StoppedExactlyAtTheEnd
  BY DEF StopInv
<1> QED
  BY <1>1, <1>2, <1>3, PTL DEF Spec
=============================================================================
