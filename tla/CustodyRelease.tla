-------------------------- MODULE CustodyRelease --------------------------
(***************************************************************************)
(* One impounded vehicle from reception to release: the custody status,    *)
(* the release dossiers, the storage ledger and the hourly accrual sweep   *)
(* (src/src/modules/{impound,release,charging,jurisdiction}).              *)
(*                                                                         *)
(* Every method of a Prisma repository is one READ COMMITTED transaction.  *)
(* The writers start with SELECT ... FOR UPDATE on the process row, all    *)
(* but the edits of the open dossier and of its checklist and those of the *)
(* intake, so a method is one step here.  The exception is the release     *)
(* itself, which counts the open items of a checklist its locks do not     *)
(* cover: it is two steps, with the rows locked between them (ProcessFree, *)
(* DossierFree).  A service handler is several methods: it reads in its    *)
(* first transactions and commits what it concluded in its last one.  The  *)
(* steps of the requests of several clerks and of several sweeps           *)
(* interleave freely, which is what this module is about.                  *)
(*                                                                         *)
(* A read whose value the last transaction checks again is taken together  *)
(* with the read before it.  The custody events each handler appends under *)
(* the same lock, and the parking spot it frees, are left to the modules   *)
(* that are about them.                                                    *)
(***************************************************************************)
EXTENDS Integers, FiniteSets

CONSTANTS
    Clerks,     \* HTTP requests that can be in flight at the same time
    Sweeps,     \* accrual scans that can overlap (worker ticks, instances)
    Dossiers,   \* rows of impound_releases the process can have (a bound)
    Codes,      \* required items of the release checklist
    Profiles,   \* jurisdiction profiles an administrator can configure
    Calls,      \* the endpoints the environment uses (a bound)
    MaxDay,     \* the clock stops here (a bound)
    NoDossier

ASSUME DossierAssumption == NoDossier \notin Dossiers

ASSUME MaxDayAssumption == MaxDay \in Nat

(***************************************************************************)
(* A profile is reduced to what the accrual engine reads: the counting     *)
(* model and the ceiling, here a number of dailies (THIRTY_DAYS_LEGACY,    *)
(* SIX_MONTHS; UNLIMITED is a ceiling beyond MaxDay).                      *)
(***************************************************************************)
ASSUME ProfilesAssumption ==
    /\ Profiles # {}
    /\ Profiles \subseteq [model : {"ROLLING_24H", "CALENDAR"}, cap : Nat]

VARIABLES
    status, enteredAt, frozenAt,    \* the impound_processes row
    intakeComplete,                 \* isIntakeComplete of the inspection
    dossier,                        \* impound_releases, with the unmet checks
    daily, settled, reconciled,     \* DAILY charges: all, settled, net zero
    extrasOwed,                     \* an unsettled REMOVAL or ADDITIONAL
    profile,                        \* the jurisdiction profile of the process
    day,                            \* the wall clock, in days
    request,                        \* what each clerk's handler remembers
    sweep                           \* what each running scan remembers

custodyVars == <<status, enteredAt, frozenAt, intakeComplete>>
ledgerVars  == <<daily, settled, reconciled, extrasOwed>>
worldVars   == <<profile, day>>
vars == <<custodyVars, dossier, ledgerVars, worldVars, request, sweep>>

NoDay == -1
Days  == Nat \cup {NoDay}

L == INSTANCE ImpoundLifecycle WITH stopped <- (frozenAt # NoDay)

DossierKinds    == {"STANDARD", "FOR_REPAIR"}
DossierStatuses == {"NONE", "IN_PROGRESS", "AUTHORIZED", "COMPLETED", "RETURNED"}
ActiveStatuses  == {"IN_PROGRESS", "AUTHORIZED"}

Dossier == [kind : DossierKinds, status : DossierStatuses,
            approved : BOOLEAN, recipient : BOOLEAN, unmet : SUBSET Codes]

\* A row that has not been inserted yet.
NoRow == [kind |-> "STANDARD", status |-> "NONE",
          approved |-> FALSE, recipient |-> FALSE, unmet |-> {}]

CallNames == {"transition", "start", "consume", "dossier", "exit", "return",
              "eligible", "recycle", "check", "settle"}

\* The edges the generic transition endpoint can drive: the others need a
\* gate that only the release and auction services resolve.
NativeTarget ==
    [from \in {"IN_REMOVAL", "RECEPTION", "ACTIVE_CUSTODY", "JUDICIAL_HOLD"} |->
        CASE from = "IN_REMOVAL"     -> "RECEPTION"
          [] from = "RECEPTION"      -> "ACTIVE_CUSTODY"
          [] from = "ACTIVE_CUSTODY" -> "JUDICIAL_HOLD"
          [] from = "JUDICIAL_HOLD"  -> "ACTIVE_CUSTODY"]

\* The status a handler expects, and whether it is about a dossier, follow
\* from the endpoint.
FitsCall(r) ==
    /\ r.call = "transition" => r.from \in DOMAIN NativeTarget
    /\ r.call \in {"start", "dossier", "exit", "eligible", "recycle"} =>
          r.from = "ACTIVE_CUSTODY"
    /\ r.call = "consume" => r.from = "RELEASE_IN_PROGRESS"
    /\ r.call = "return" => r.from = "RELEASED_FOR_REPAIR"
    /\ r.call \in {"consume", "exit", "return", "check"} => r.dossier \in Dossiers

Request == {r \in [call : CallNames \cup {"none"},
                   stage : {"none", "context", "lines", "commit", "write"},
                   from : L!Statuses,
                   dossier : Dossiers \cup {NoDossier},
                   at : Nat, kept : Nat, over : SUBSET Nat] :
              FitsCall(r) /\ (r.stage = "write" => r.call = "consume")}

NoRequest == [call |-> "none", stage |-> "none", from |-> "IN_REMOVAL",
              dossier |-> NoDossier, at |-> 0, kept |-> 0, over |-> {}]

Scan == {c \in [pc : {"idle", "context", "max", "accrue"},
                now : Nat, due : Nat, next : Nat] :
            c.pc = "accrue" => c.next > 0 /\ c.next <= c.due}

NoScan == [pc |-> "idle", now |-> 0, due |-> 0, next |-> 0]

---------------------------------------------------------------------------
(* The accrual engine (charge.accrual.ts), with instants 24 hours apart.   *)

\* Mutant: the running day counts as a whole one.
DueRoundedUp(model, t0, asOf) == IF asOf <= t0 THEN 0 ELSE asOf - t0 + 1

Due(model, t0, asOf) ==
    IF asOf <= t0 THEN 0
    ELSE IF model = "ROLLING_24H" THEN asOf - t0 ELSE asOf - t0 + 1

Accruable(p, t0, asOf) ==
    LET n == Due(p.model, t0, asOf)
    IN  IF n < p.cap THEN n ELSE p.cap

\* asOf = min(now, frozen_at).
AsOf(now) == IF frozenAt = NoDay \/ now < frozenAt THEN now ELSE frozenAt

\* dailies.slice(n), the dailies being sorted by period_seq.
Beyond(n) == {p \in daily : Cardinality({q \in daily : q <= p}) > n}

\* No DAILY can be beyond this count: the value of a process without t0.
EveryDaily == MaxDay + 1

---------------------------------------------------------------------------
Active(d) == dossier[d].status \in ActiveStatuses

NoActive == \A d \in Dossiers : ~Active(d)

\* Nobody is between the questions and the writes of a release, with the
\* process row and the row of its dossier locked.
ProcessFree == \A k \in Clerks : request[k].stage # "write"

DossierFree(d) ==
    \A k \in Clerks : request[k].stage = "write" => request[k].dossier # d

\* A request leaves its commit: whatever happened, the handler is over.
Finish(k) == request' = [request EXCEPT ![k] = NoRequest]

Open(k, call, stage, d) ==
    /\ call \in Calls
    /\ request[k].call = "none"
    /\ request' = [request EXCEPT ![k] =
           [call |-> call, stage |-> stage, from |-> status, dossier |-> d,
            at |-> day, kept |-> 0, over |-> {}]]
    /\ UNCHANGED <<custodyVars, dossier, ledgerVars, worldVars, sweep>>

Insert(kind, unmet) ==
    \E d \in Dossiers, named \in BOOLEAN :
        /\ dossier[d].status = "NONE"
        /\ dossier' = [dossier EXCEPT ![d] =
               [kind |-> kind, status |-> "IN_PROGRESS", approved |-> FALSE,
                recipient |-> named, unmet |-> unmet]]

---------------------------------------------------------------------------
(* Reception, judicial hold: POST /impound-processes/:id/transition.       *)

TransitionOpen(k) ==
    /\ status \in DOMAIN NativeTarget
    /\ status = "RECEPTION" => intakeComplete
    /\ Open(k, "transition", "commit", NoDossier)

\* Mutant: the row lock without the comparison with expectedFrom.
TransitionUnchecked(r) == TRUE

TransitionRecheck(r) == status = r.from

TransitionCommit(k) ==
    LET r == request[k]
    IN  /\ r.call = "transition" /\ r.stage = "commit"
        /\ ProcessFree
        /\ TransitionRecheck(r)
        /\ status' = NativeTarget[r.from]
        /\ enteredAt' = IF r.from = "IN_REMOVAL" /\ enteredAt = NoDay
                        THEN r.at ELSE enteredAt
        /\ Finish(k)
        /\ UNCHANGED <<frozenAt, intakeComplete, dossier, ledgerVars,
                       worldVars, sweep>>

\* saveInspection (a field may be emptied, a photo set required again) and
\* completeInspection: the intake becomes complete or incomplete.
EditIntake ==
    /\ "intake" \in Calls
    /\ intakeComplete' = ~intakeComplete
    /\ UNCHANGED <<status, enteredAt, frozenAt, dossier, ledgerVars,
                   worldVars, request, sweep>>

---------------------------------------------------------------------------
(* Release: start, and the edits of the open dossier.                      *)

\* findProcessById and hasActiveRelease.
StartOpen(k) ==
    /\ status = "ACTIVE_CUSTODY"
    /\ NoActive
    /\ Open(k, "start", "context", NoDossier)

\* Mutant: only the partial-unique index stands in the way.
StartUnchecked(r) == NoActive

StartRecheck(r) == status = r.from /\ NoActive

\* T_stop is the occurredAt the service sampled before it took the lock.
StartCommit(k) ==
    LET r == request[k]
    IN  /\ r.call = "start" /\ r.stage = "commit"
        /\ ProcessFree
        /\ StartRecheck(r)
        /\ Insert("STANDARD", Codes)
        /\ status' = "RELEASE_IN_PROGRESS"
        /\ frozenAt' = IF frozenAt = NoDay THEN r.at ELSE frozenAt
        /\ Finish(k)
        /\ UNCHANGED <<enteredAt, intakeComplete, ledgerVars, worldVars, sweep>>

\* The UPDATE carries its own WHERE status IN (IN_PROGRESS, AUTHORIZED).
SetRecipient(d) ==
    /\ "recipient" \in Calls
    /\ DossierFree(d)
    /\ Active(d)
    /\ dossier' = [dossier EXCEPT ![d].recipient = TRUE]
    /\ UNCHANGED <<custodyVars, ledgerVars, worldVars, request, sweep>>

ApproveGuard(d) == Active(d) /\ ~dossier[d].approved

Approve(d) ==
    /\ "approve" \in Calls
    /\ DossierFree(d)
    /\ ApproveGuard(d)
    /\ dossier' = [dossier EXCEPT ![d].approved = TRUE,
                                  ![d].status = "AUTHORIZED"]
    /\ UNCHANGED <<custodyVars, ledgerVars, worldVars, request, sweep>>

\* setRequirementCheck: assertActiveRelease, then an UPDATE of the check row
\* that neither waits for a lock on the dossier or the process nor asks for
\* a status again.
CheckOpen(k, d) ==
    /\ Active(d)
    /\ Open(k, "check", "commit", d)

CheckCommit(k) ==
    LET r == request[k]
        d == r.dossier
    IN  /\ r.call = "check" /\ r.stage = "commit"
        /\ dossier[d].kind = "STANDARD"
        /\ \E c \in Codes, satisfied \in BOOLEAN :
               dossier' = [dossier EXCEPT ![d].unmet =
                   IF satisfied THEN @ \ {c} ELSE @ \cup {c}]
        /\ Finish(k)
        /\ UNCHANGED <<custodyVars, ledgerVars, worldVars, sweep>>

---------------------------------------------------------------------------
(* The charge state a release or a settlement is decided on: the accrual   *)
(* context in one transaction, the ledger lines in the next.               *)

ReadContext(k) ==
    LET r == request[k]
    IN  /\ r.stage = "context"
        /\ request' = [request EXCEPT ![k].stage = "lines",
                ![k].at = day,
                ![k].kept =
                    IF enteredAt = NoDay THEN EveryDaily
                    ELSE IF r.call = "start" THEN Due(profile.model, enteredAt, day)
                    ELSE Accruable(profile, enteredAt, AsOf(day))]
        /\ UNCHANGED <<custodyVars, dossier, ledgerVars, worldVars, sweep>>

DebtsSettled == daily \subseteq settled /\ ~extrasOwed

\* What the pure guards conclude from the lines: guardReleaseStart refuses a
\* freeze before the last daily; guardReleaseGate an unpaid ledger or one
\* whose over-accrued dailies do not net to zero.
GateOpen(r) ==
    CASE r.call = "start"   -> Cardinality(daily) <= r.kept
      [] r.call = "consume" -> DebtsSettled /\ Beyond(r.kept) \subseteq reconciled
      [] OTHER              -> TRUE

ReadLines(k) ==
    LET r == request[k]
    IN  /\ r.stage = "lines"
        /\ request' = [request EXCEPT ![k] =
               IF GateOpen(r)
               THEN [r EXCEPT !.stage = "commit", !.at = day, !.kept = 0,
                              !.over = IF r.call = "start" THEN {}
                                       ELSE Beyond(r.kept)]
               ELSE NoRequest]
        /\ UNCHANGED <<custodyVars, dossier, ledgerVars, worldVars, sweep>>

---------------------------------------------------------------------------
(* Release: the act itself.                                                *)

DossierReady(d) ==
    Active(d) /\ dossier[d].approved /\ dossier[d].recipient

ConsumeOpen(k, d) ==
    /\ status = "RELEASE_IN_PROGRESS"
    /\ DossierReady(d)
    /\ dossier[d].unmet = {}
    /\ Open(k, "consume", "context", d)

\* Mutant: the ledger of the handler's first reads.
ConsumeTrustsLedger(r) ==
    /\ status = r.from
    /\ DossierReady(r.dossier)
    /\ dossier[r.dossier].unmet = {}
    /\ r.over \subseteq reconciled

\* Everything is asked again under the lock, except which dailies are
\* over-accrued: the list comes with the request.
ConsumeRecheck(r) ==
    /\ status = r.from
    /\ DossierReady(r.dossier)
    /\ dossier[r.dossier].unmet = {}
    /\ DebtsSettled
    /\ r.over \subseteq reconciled

\* The two row locks, and the questions under them.
ConsumeAsk(k) ==
    LET r == request[k]
    IN  /\ r.call = "consume" /\ r.stage = "commit"
        /\ ProcessFree
        /\ ConsumeRecheck(r)
        /\ request' = [request EXCEPT ![k] =
               [r EXCEPT !.stage = "write", !.at = 0, !.over = {}]]
        /\ UNCHANGED <<custodyVars, dossier, ledgerVars, worldVars, sweep>>

\* The writes, and the end of the transaction.
ConsumeCommit(k) ==
    LET r == request[k]
    IN  /\ r.stage = "write"
        /\ status' = "RELEASED"
        /\ dossier' = [dossier EXCEPT ![r.dossier].status = "COMPLETED"]
        /\ Finish(k)
        /\ UNCHANGED <<enteredAt, frozenAt, intakeComplete, ledgerVars,
                       worldVars, sweep>>

---------------------------------------------------------------------------
(* Release for repair: the dossier, the exit and the return.               *)

DossierOpen(k) ==
    /\ NoActive
    /\ status = "ACTIVE_CUSTODY"
    /\ Open(k, "dossier", "commit", NoDossier)

DossierRecheck(r) == status = r.from /\ NoActive

DossierCommit(k) ==
    LET r == request[k]
    IN  /\ r.call = "dossier" /\ r.stage = "commit"
        /\ ProcessFree
        /\ DossierRecheck(r)
        /\ Insert("FOR_REPAIR", {})
        /\ Finish(k)
        /\ UNCHANGED <<custodyVars, ledgerVars, worldVars, sweep>>

ExitOpen(k, d) ==
    /\ status = "ACTIVE_CUSTODY"
    /\ DossierReady(d)
    /\ dossier[d].kind = "FOR_REPAIR"
    /\ Open(k, "exit", "commit", d)

ExitRecheck(r) ==
    /\ status = r.from
    /\ DossierReady(r.dossier)
    /\ dossier[r.dossier].kind = "FOR_REPAIR"

ExitCommit(k) ==
    LET r == request[k]
    IN  /\ r.call = "exit" /\ r.stage = "commit"
        /\ ProcessFree
        /\ ExitRecheck(r)
        /\ status' = "RELEASED_FOR_REPAIR"
        /\ Finish(k)
        /\ UNCHANGED <<enteredAt, frozenAt, intakeComplete, dossier,
                       ledgerVars, worldVars, sweep>>

ReturnOpen(k, d) ==
    /\ status = "RELEASED_FOR_REPAIR"
    /\ Active(d)
    /\ dossier[d].kind = "FOR_REPAIR"
    /\ Open(k, "return", "commit", d)

ReturnRecheck(r) ==
    /\ status = r.from
    /\ Active(r.dossier)
    /\ dossier[r.dossier].kind = "FOR_REPAIR"

ReturnCommit(k) ==
    LET r == request[k]
    IN  /\ r.call = "return" /\ r.stage = "commit"
        /\ ProcessFree
        /\ ReturnRecheck(r)
        /\ status' = "ACTIVE_CUSTODY"
        /\ dossier' = [dossier EXCEPT ![r.dossier].status = "RETURNED"]
        /\ Finish(k)
        /\ UNCHANGED <<enteredAt, frozenAt, intakeComplete, ledgerVars,
                       worldVars, sweep>>

---------------------------------------------------------------------------
(* The two ways out of custody towards the auction.                        *)

\* markEligible and reclassifyUnrecoverable; the other conditions of their
\* gates (deadline, notifications, chain, classification) may hold or not.
AuctionOpen(k, call) ==
    /\ status = "ACTIVE_CUSTODY"
    /\ NoActive
    /\ Open(k, call, "commit", NoDossier)

\* Mutant: hasActiveRelease is only asked before the lock.
AuctionUnchecked(r) == status = r.from

AuctionRecheck(r) == status = r.from /\ NoActive

EligibleCommit(k) ==
    LET r == request[k]
    IN  /\ r.call = "eligible" /\ r.stage = "commit"
        /\ ProcessFree
        /\ AuctionRecheck(r)
        /\ status' = "AUCTION_ELIGIBLE"
        /\ Finish(k)
        /\ UNCHANGED <<enteredAt, frozenAt, intakeComplete, dossier,
                       ledgerVars, worldVars, sweep>>

RecycleCommit(k) ==
    LET r == request[k]
    IN  /\ r.call = "recycle" /\ r.stage = "commit"
        /\ ProcessFree
        /\ AuctionRecheck(r)
        /\ status' = "DIRECT_RECYCLING"
        /\ frozenAt' = IF frozenAt = NoDay THEN r.at ELSE frozenAt
        /\ Finish(k)
        /\ UNCHANGED <<enteredAt, intakeComplete, dossier, ledgerVars,
                       worldVars, sweep>>

---------------------------------------------------------------------------
(* The ledger: manual charges, adjustments and settlement.                 *)

\* createManualCharge asks for no status and no T_stop.
ManualCharge ==
    /\ "charge" \in Calls
    /\ ProcessFree
    /\ extrasOwed' = TRUE
    /\ UNCHANGED <<custodyVars, dossier, daily, settled, reconciled,
                   worldVars, request, sweep>>

\* An ADJUSTMENT that targets a DAILY brings its net to zero or away from it.
AdjustDaily ==
    /\ "adjust" \in Calls
    /\ ProcessFree
    /\ \E p \in daily :
           reconciled' = IF p \in reconciled THEN reconciled \ {p}
                                            ELSE reconciled \cup {p}
    /\ UNCHANGED <<custodyVars, dossier, daily, settled, extrasOwed,
                   worldVars, request, sweep>>

SettleOpen(k) == Open(k, "settle", "context", NoDossier)

\* Reverses the over-accrued dailies it was given and settles all others.
SettleCommit(k) ==
    LET r == request[k]
    IN  /\ r.call = "settle" /\ r.stage = "commit"
        /\ ProcessFree
        /\ reconciled' = reconciled \cup r.over
        /\ settled' = daily
        /\ extrasOwed' = FALSE
        /\ Finish(k)
        /\ UNCHANGED <<custodyVars, dossier, daily, worldVars, sweep>>

---------------------------------------------------------------------------
(* Every recheck that fails is a 409 and a rollback.                       *)

Recheck(r) ==
    CASE r.call = "transition" -> TransitionRecheck(r)
      [] r.call = "start"      -> StartRecheck(r)
      [] r.call = "consume"    -> ConsumeRecheck(r)
      [] r.call = "dossier"    -> DossierRecheck(r)
      [] r.call = "exit"       -> ExitRecheck(r)
      [] r.call = "return"     -> ReturnRecheck(r)
      [] r.call \in {"eligible", "recycle"} -> AuctionRecheck(r)
      [] r.call = "check"      -> dossier[r.dossier].kind = "STANDARD"
      [] OTHER                 -> TRUE

Conflict(k) ==
    /\ request[k].stage = "commit"
    /\ request[k].call # "check" => ProcessFree
    /\ ~Recheck(request[k])
    /\ Finish(k)
    /\ UNCHANGED <<custodyVars, dossier, ledgerVars, worldVars, sweep>>

---------------------------------------------------------------------------
(* The accrual sweep.                                                      *)

\* Mutant: candidates chosen by status instead of by T_stop.
SweepListInCustody(s) ==
    /\ "sweep" \in Calls
    /\ sweep[s].pc = "idle"
    /\ status = "ACTIVE_CUSTODY"
    /\ enteredAt # NoDay /\ frozenAt = NoDay
    /\ sweep' = [sweep EXCEPT ![s] = [NoScan EXCEPT !.pc = "context", !.now = day]]
    /\ UNCHANGED <<custodyVars, dossier, ledgerVars, worldVars, request>>

\* accrueTenantScan: the scan's clock, and the process among its candidates.
SweepList(s) ==
    /\ "sweep" \in Calls
    /\ sweep[s].pc = "idle"
    /\ enteredAt # NoDay /\ frozenAt = NoDay
    /\ sweep' = [sweep EXCEPT ![s] = [NoScan EXCEPT !.pc = "context", !.now = day]]
    /\ UNCHANGED <<custodyVars, dossier, ledgerVars, worldVars, request>>

\* loadAccrualContext and computeDuePeriods.
SweepContext(s) ==
    /\ sweep[s].pc = "context"
    /\ sweep' = [sweep EXCEPT ![s] =
           [NoScan EXCEPT !.pc = "max",
               !.due = Accruable(profile, enteredAt, AsOf(sweep[s].now))]]
    /\ UNCHANGED <<custodyVars, dossier, ledgerVars, worldVars, request>>

\* Mutant: the period of the greatest daily is done again.
SweepMaxAgain(s) ==
    /\ sweep[s].pc = "max"
    /\ \E max \in daily \cup {0} :
          /\ \A p \in daily : p <= max
          /\ sweep' = [sweep EXCEPT ![s] = [@ EXCEPT !.pc = "accrue", !.next = max]]
    /\ UNCHANGED <<custodyVars, dossier, ledgerVars, worldVars, request>>

\* maxDailyPeriodSeq; the loop skips the periods up to it.
SweepMax(s) ==
    /\ sweep[s].pc = "max"
    /\ \E max \in daily \cup {0} :
          /\ \A p \in daily : p <= max
          /\ sweep' = [sweep EXCEPT ![s] =
                 IF max < sweep[s].due
                 THEN [pc |-> "accrue", now |-> 0, due |-> sweep[s].due,
                       next |-> max + 1]
                 ELSE NoScan]
    /\ UNCHANGED <<custodyVars, dossier, ledgerVars, worldVars, request>>

\* accrueDailyCharge: under the lock only the period's absence is checked.
SweepAccrue(s) ==
    LET p == sweep[s].next
    IN  /\ sweep[s].pc = "accrue"
        /\ ProcessFree
        /\ daily' = daily \cup {p}
        /\ sweep' = [sweep EXCEPT ![s] =
               IF p < @.due THEN [@ EXCEPT !.next = p + 1] ELSE NoScan]
        /\ UNCHANGED <<custodyVars, dossier, settled, reconciled, extrasOwed,
                       worldVars, request>>

\* Mutant: a period without a tariff is passed over (continue, not break).
SweepSkip(s) ==
    /\ sweep[s].pc = "accrue" /\ sweep[s].next < sweep[s].due
    /\ sweep' = [sweep EXCEPT ![s].next = @ + 1]
    /\ UNCHANGED <<custodyVars, dossier, ledgerVars, worldVars, request>>

\* No tariff for the period, an error, a dead worker: the loop ends here.
SweepStop(s) ==
    /\ sweep[s].pc # "idle"
    /\ sweep' = [sweep EXCEPT ![s] = NoScan]
    /\ UNCHANGED <<custodyVars, dossier, ledgerVars, worldVars, request>>

---------------------------------------------------------------------------
(* The world around the process.                                           *)

\* PATCH of the jurisdiction profile: nothing ties it to open processes.
UpdateProfile ==
    /\ "profile" \in Calls
    /\ \E p \in Profiles \ {profile} : profile' = p
    /\ UNCHANGED <<custodyVars, dossier, ledgerVars, day, request, sweep>>

Tick ==
    /\ day < MaxDay
    /\ day' = day + 1
    /\ UNCHANGED <<custodyVars, dossier, ledgerVars, profile, request, sweep>>

Init ==
    /\ status = "IN_REMOVAL"
    /\ enteredAt = NoDay
    /\ frozenAt = NoDay
    /\ intakeComplete = FALSE
    /\ dossier = [d \in Dossiers |-> NoRow]
    /\ daily = {} /\ settled = {} /\ reconciled = {}
    /\ extrasOwed = FALSE
    /\ profile \in Profiles
    /\ day = 0
    /\ request = [k \in Clerks |-> NoRequest]
    /\ sweep = [s \in Sweeps |-> NoScan]

\* One more step of a request under way.
Progress(k) ==
    \/ ReadContext(k) \/ ReadLines(k) \/ Conflict(k)
    \/ TransitionCommit(k) \/ StartCommit(k) \/ CheckCommit(k)
    \/ ConsumeAsk(k) \/ ConsumeCommit(k) \/ DossierCommit(k) \/ ExitCommit(k)
    \/ ReturnCommit(k) \/ EligibleCommit(k) \/ RecycleCommit(k)
    \/ SettleCommit(k)

\* A new request.
Arrive(k) ==
    \/ TransitionOpen(k) \/ StartOpen(k) \/ DossierOpen(k) \/ SettleOpen(k)
    \/ AuctionOpen(k, "eligible") \/ AuctionOpen(k, "recycle")
    \/ \E d \in Dossiers :
          CheckOpen(k, d) \/ ConsumeOpen(k, d) \/ ExitOpen(k, d) \/ ReturnOpen(k, d)

Scanning(s) ==
    SweepList(s) \/ SweepContext(s) \/ SweepMax(s) \/ SweepAccrue(s)

Next ==
    \/ \E k \in Clerks : Arrive(k) \/ Progress(k)
    \/ \E d \in Dossiers : SetRecipient(d) \/ Approve(d)
    \/ \E s \in Sweeps : Scanning(s) \/ SweepStop(s)
    \/ EditIntake \/ ManualCharge \/ AdjustDaily \/ UpdateProfile \/ Tick

Spec == Init /\ [][Next]_vars

(***************************************************************************)
(* The worker re-enqueues the scan whatever became of the last one, and a  *)
(* missing tariff, an error or a restart does not stop it for ever: a step *)
(* of the scan that keeps becoming possible is taken.                      *)
(***************************************************************************)
FairSpec ==
    /\ Spec
    /\ \A s \in Sweeps :
          /\ WF_vars(SweepList(s))
          /\ SF_vars(SweepContext(s))
          /\ SF_vars(SweepMax(s))
          /\ SF_vars(SweepAccrue(s))

---------------------------------------------------------------------------
(* Properties.                                                             *)

\* The types of the variables.
TypeOK ==
    /\ status \in L!Statuses
    /\ enteredAt \in Days /\ frozenAt \in Days
    /\ intakeComplete \in BOOLEAN
    /\ dossier \in [Dossiers -> Dossier]
    /\ daily \subseteq Nat \ {0}
    /\ settled \subseteq Nat /\ reconciled \subseteq Nat
    /\ extrasOwed \in BOOLEAN
    /\ profile \in Profiles
    /\ day \in Nat
    /\ request \in [Clerks -> Request]
    /\ sweep \in [Sweeps -> Scan]

\* The dossier and the status, written by different transactions, agree: at
\* most one release is open (partial-unique index plus the status check), a
\* standard one exactly in RELEASE_IN_PROGRESS, a repair one only where the
\* vehicle can still leave or is away, with the authority's act registered;
\* so nothing on the auction track has an open release.
DossierMatchesStatus ==
    /\ \A d, e \in Dossiers : Active(d) /\ Active(e) => d = e
    /\ status = "RELEASE_IN_PROGRESS" <=>
          \E d \in Dossiers : Active(d) /\ dossier[d].kind = "STANDARD"
    /\ \A d \in Dossiers :
          Active(d) /\ dossier[d].kind = "FOR_REPAIR" =>
             status \in {"ACTIVE_CUSTODY", "JUDICIAL_HOLD", "RELEASED_FOR_REPAIR"}
    /\ status = "RELEASED_FOR_REPAIR" =>
          \E d \in Dossiers : DossierReady(d) /\ dossier[d].kind = "FOR_REPAIR"

\* T_stop is set exactly where the storage charges have ended, and entry,
\* T_stop and the clock are in order: a judicial hold, a repair or an
\* auction candidacy never stops them, however the handlers interleave.
StoppedExactlyAtTheEnd ==
    /\ frozenAt # NoDay <=>
          status \in {"RELEASE_IN_PROGRESS", "RELEASED", "DIRECT_RECYCLING"}
    /\ enteredAt = NoDay <=> status = "IN_REMOVAL"
    /\ frozenAt # NoDay => enteredAt <= frozenAt
    /\ enteredAt <= day /\ frozenAt <= day

\* "diarias sao contiguas 1..k" (charge.service.ts:302): overlapping scans,
\* stops in mid-loop and stale contexts leave no gap, which is what lets the
\* loop skip every period up to the greatest one.
DailiesContiguous ==
    \A p \in daily : \A q \in 1 .. p : q \in daily

\* A day is charged only after it began (CALENDAR) or ended (ROLLING_24H)
\* and below the ceiling, by a profile the process has or had.
OnlyElapsedDays ==
    \A p \in daily : \E pr \in Profiles :
        /\ p <= pr.cap
        /\ p <= day - enteredAt + (IF pr.model = "CALENDAR" THEN 1 ELSE 0)

\* I5, but for the checklist: at the instant of the release every charge is
\* settled and the release is authorized and received, whatever changed since
\* the handler read them.
ReleasedOnlyWhenDue ==
    [][status # "RELEASED" /\ status' = "RELEASED" =>
          /\ daily \subseteq settled /\ ~extrasOwed
          /\ \E d \in Dossiers :
                /\ dossier[d].approved /\ dossier[d].recipient
                /\ dossier'[d].status = "COMPLETED"]_vars

\* Every step of every handler is an edge of the custody table or leaves the
\* status and T_stop alone.
Lifecycle == L!Spec

\* A day every profile charges for, while the process is not stopped, is in
\* the ledger in the end, or the process is stopped first.
DayElapsed(p) ==
    /\ enteredAt # NoDay /\ frozenAt = NoDay
    /\ \A pr \in Profiles : p <= Accruable(pr, enteredAt, day)

SweepCatchesUp ==
    \A p \in 1 .. MaxDay :
        DayElapsed(p) ~> (p \in daily \/ frozenAt # NoDay)

---------------------------------------------------------------------------
(* What comments of the code say, and the code does not do.                *)

\* charge.accrual.service.ts:7 "worker caido nao PULA diaria": a day that
\* elapsed is charged, however late the sweep comes.
NoDayIsSkipped ==
    \A p \in 1 .. MaxDay : DayElapsed(p) ~> p \in daily

\* impound.transitions.ts:523 "RELEASE_IN_PROGRESS nao tem aresta de volta
\* => total estavel": from T_stop on, the dailies do not change.
TotalStableInRelease ==
    [][frozenAt # NoDay => daily' = daily]_vars

\* release-prisma.repository.ts:246 "M1 (invariante financeiro, anti-TOCTOU)":
\* no process is released with an over-accrued daily that does not net to 0.
ReleasedReconciled ==
    [][status # "RELEASED" /\ status' = "RELEASED" =>
          Beyond(Accruable(profile, enteredAt, frozenAt)) \subseteq reconciled]_vars

\* release-prisma.repository.ts:215 "RE-VERIFICACAO ATOMICA do gate I5 sob o
\* lock (fecha TOCTOU)": no release is completed with an open required item.
ReleasedChecklistMet ==
    [][\A d \in Dossiers :
          dossier[d].status # "COMPLETED" /\ dossier'[d].status = "COMPLETED" =>
             dossier[d].unmet = {}]_vars

\* release-prisma.repository.ts:433 "The release is no longer in progress.":
\* the checklist of a completed release does not change.
ClosedChecklistKept ==
    [][\A d \in Dossiers : dossier[d].status = "COMPLETED" =>
          dossier'[d].unmet = dossier[d].unmet]_vars

\* impound.transitions.ts:217 "I3 - CUSTODIA_ATIVA so com vistoria de
\* recepcao completa".
IntakeBeforeCustody ==
    [][status = "RECEPTION" /\ status' = "ACTIVE_CUSTODY" => intakeComplete]_vars
=============================================================================
