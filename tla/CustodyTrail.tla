---------------------------- MODULE CustodyTrail ----------------------------
(***************************************************************************)
(* The records that follow a vehicle into custody: the process the sweep   *)
(* opens for a completed removal, the legal notifications another sweep    *)
(* marks as due, the hash chain every one of them appends to, the anchors  *)
(* and the outbox kept beside it (src/src/modules/impound).                *)
(*                                                                         *)
(* Each commit is one transaction under the lock of the process; what a    *)
(* sweep or a request has read before it may be stale.  Sweeps overlap     *)
(* and a crash ends all of them; the job queue (JobQueue) calls them       *)
(* again.  A hash is the content it stands for.                            *)
(*                                                                         *)
(* Left out: identities and checklist links made with the process, the     *)
(* attachment of a notification, private profiles (they have no rite).     *)
(***************************************************************************)
EXTENDS Integers, Sequences, FiniteSets

CONSTANTS
    Orders,         \* removal orders whose service opens a custody
    Sweeps,         \* runs of impound.reconcile-removals under way (a bound)
    Notifiers,      \* runs of impound.notify-due under way (a bound)
    Clerks,         \* requests under way (a bound)
    Edges,          \* edges of ImpoundLifecycle the clerks take (a bound)
    OwnerDays,      \* ownerNotifDays of the profile
    EdictDays,      \* noticeEdictDay of the profile
    OpenPage,       \* LIMIT of the reconciliation
    NoticePage,     \* CANDIDATE_PAGE of the notifications
    MaxDay,         \* last day of the clock (a bound)
    MaxMoves,       \* transitions by clerks (a bound)
    MaxFaults,      \* failed transactions and crashes (a bound)
    NoOrder

Lifecycle == INSTANCE ImpoundLifecycle WITH status <- "", stopped <- FALSE

ASSUME DaysAssumption == OwnerDays \in Int /\ EdictDays \in Int

ASSUME PagesAssumption == OpenPage \in Nat \ {0} /\ NoticePage \in Nat \ {0}

ASSUME BoundsAssumption ==
    MaxDay \in Nat \ {0} /\ MaxMoves \in Nat /\ MaxFaults \in Nat

ASSUME EdgesAssumption == Edges \subseteq Lifecycle!EnabledEdges

ASSUME OrdersAssumption == NoOrder \notin Orders /\ IsFiniteSet(Orders)

VARIABLES
    now,            \* the clock, in days
    completed,      \* work_orders.completed_at, 0 before
    procs,          \* impound_processes
    chain,          \* custody_events of each process
    anchors,        \* audit_logs of each process
    outbox,         \* impound_outbox_events of each process
    notes,          \* process_notifications of each process
    sweep, notifier, clerk, verifier,   \* what each one is about
    moves, faults

recordVars == <<procs, chain, anchors, outbox, notes>>
workVars   == <<sweep, notifier, clerk, verifier>>
vars == <<now, completed, recordVars, workVars, moves, faults>>

Days  == 1 .. MaxDay
Ids   == 1 .. Len(procs)
Kinds == {"OWNER_INITIAL", "COMPLEMENTARY_EDICT"}

NoteStatuses == {"none", "DUE", "ISSUED", "WAIVED"}

DaysOf == [kind \in Kinds |-> IF kind = "OWNER_INITIAL" THEN OwnerDays ELSE EdictDays]

\* computeNotificationSchedule: without a positive delay there is no mark.
DueAt(kind, entered, day) == DaysOf[kind] > 0 /\ entered + DaysOf[kind] <= day

IdleSweep    == [pc |-> "idle", todo |-> {}, order |-> NoOrder, proc |-> 0]
IdleNotifier == [pc |-> "idle", at |-> 0, todo |-> {}, proc |-> 0, kinds |-> {}]
IdleClerk    == [pc |-> "idle", proc |-> 0, edge |-> <<"", "">>]

Fault == faults < MaxFaults /\ faults' = faults + 1

\* The first at most limit members, by a time; SQL breaks ties as it likes.
Pages(set, time, limit) ==
    {page \in SUBSET set :
        /\ Cardinality(page) = IF Cardinality(set) < limit THEN Cardinality(set)
                                                           ELSE limit
        /\ \A x \in page, y \in set \ page : time[x] <= time[y]}

First(set, time) == {x \in set : \A y \in set : time[x] <= time[y]}

---------------------------------------------------------------------------
(* The chain: insertEventTx and its replicas in the other modules.         *)

Genesis(p) == <<p>>
Status(to) == <<"STATUS_CHANGE", to>>
HashOf(event) == Append(event.prev, <<event.seq, event.type>>)

Event(row, type) == [seq |-> row.seq + 1, prev |-> row.hash, type |-> type]

\* The event, the head of the process, the anchor and the outbox row of one
\* commit; row is the process as the commit leaves it.
Append1(p, row, type, captured) ==
    LET event == Event(procs[p], type)
    IN  /\ procs' = [procs EXCEPT ![p] =
                        [row EXCEPT !.seq = event.seq, !.hash = HashOf(event)]]
        /\ chain' = [chain EXCEPT ![p] = Append(@, event)]
        /\ anchors' = [anchors EXCEPT ![p] =
                          @ \cup {[seq |-> event.seq, hash |-> HashOf(event)]}]
        /\ outbox' = [outbox EXCEPT ![p] = IF captured THEN Append(@, event) ELSE @]

\* Mutant: the copy of the append leaves the anchor out.
CreateUnanchored(row, types) ==
    LET p == Len(procs) + 1
        first == [seq |-> 1, prev |-> Genesis(p), type |-> types[1]]
    IN  /\ procs' = Append(procs, [row EXCEPT !.seq = 1, !.hash = HashOf(first)])
        /\ chain' = Append(chain, <<first>>)
        /\ outbox' = Append(outbox, <<>>)
        /\ notes' = Append(notes, [k \in Kinds |-> "none"])
        /\ UNCHANGED anchors

\* A process is created with the events of its creation.
Create(row, types) ==
    LET p == Len(procs) + 1
        first == [seq |-> 1, prev |-> Genesis(p), type |-> types[1]]
        events == IF Len(types) = 1 THEN <<first>>
                  ELSE <<first, [seq |-> 2, prev |-> HashOf(first), type |-> types[2]]>>
        last == events[Len(events)]
    IN  /\ procs' = Append(procs, [row EXCEPT !.seq = last.seq, !.hash = HashOf(last)])
        /\ chain' = Append(chain, events)
        /\ anchors' = Append(anchors, {[seq |-> events[i].seq, hash |-> HashOf(events[i])] :
                                          i \in DOMAIN events})
        /\ outbox' = Append(outbox, <<>>)
        /\ notes' = Append(notes, [k \in Kinds |-> "none"])

\* The partial unique index on the service order.
Unopened(o) == \A p \in Ids : procs[p].order # o

Opening(o) == [order |-> o, status |-> "IN_REMOVAL", entered |-> 0, stopped |-> FALSE,
               seq |-> 0, hash |-> <<>>]

---------------------------------------------------------------------------
(* Requests.                                                               *)

\* A crew ends the removal.
Complete(o) ==
    /\ completed[o] = 0
    /\ completed' = [completed EXCEPT ![o] = now]
    /\ UNCHANGED <<now, recordVars, workVars, moves, faults>>

\* POST /impound-processes names the order: the process is half open.
CreateByHand(o) ==
    /\ Unopened(o)
    /\ moves < MaxMoves /\ moves' = moves + 1
    /\ Create(Opening(o), <<Status("IN_REMOVAL")>>)
    /\ UNCHANGED <<now, completed, workVars, faults>>

\* OUTBOX_MILESTONE_STATUSES, and the methods that do not look at them.
Captured(edge) ==
    /\ edge[2] \in {"ACTIVE_CUSTODY", "RELEASED", "AUCTIONED", "CLOSED"}
    /\ edge # <<"RELEASED_FOR_REPAIR", "ACTIVE_CUSTODY">>

\* applyTransition: the status has to be the one that was read.
Follow(p, edge, at) ==
    LET row == procs[p]
    IN  /\ row.status = edge[1]
        /\ Append1(p, [row EXCEPT !.status = edge[2],
                          !.entered = IF edge[2] = "RECEPTION" /\ @ = 0 THEN at ELSE @,
                          !.stopped = @ \/ edge \in Lifecycle!StoppingEdges],
                   Status(edge[2]), Captured(edge))
        /\ UNCHANGED notes

Read(c, p, edge) ==
    /\ clerk[c].pc = "idle"
    /\ procs[p].status = edge[1]
    /\ moves < MaxMoves /\ moves' = moves + 1
    /\ clerk' = [clerk EXCEPT ![c] = [pc |-> "commit", proc |-> p, edge |-> edge]]
    /\ UNCHANGED <<now, completed, recordVars, sweep, notifier, verifier, faults>>

Commit(c) ==
    LET p == clerk[c].proc
        edge == clerk[c].edge
    IN  /\ clerk[c].pc = "commit"
        /\ IF procs[p].status = edge[1] THEN Follow(p, edge, now)
                                        ELSE UNCHANGED recordVars
        /\ clerk' = [clerk EXCEPT ![c] = IdleClerk]
        /\ UNCHANGED <<now, completed, sweep, notifier, verifier, moves, faults>>

\* issue and waive: the WHERE names the status.
Answer(p, kind, status) ==
    /\ notes[p][kind] = "DUE"
    /\ notes' = [notes EXCEPT ![p][kind] = status]
    /\ Append1(p, procs[p], <<kind, status>>, status = "ISSUED")
    /\ UNCHANGED <<now, completed, workVars, moves, faults>>

---------------------------------------------------------------------------
(* impound.reconcile-removals.                                             *)

\* Completed orders without a process, or with one that is half open.
HalfOpen(p) == procs[p].status = "IN_REMOVAL" /\ procs[p].entered = 0

\* Mutant: only orders without a process are looked for.
CandidatesWithout == {o \in Orders : completed[o] > 0 /\ Unopened(o)}

Candidates ==
    {o \in Orders : /\ completed[o] > 0
                    /\ \A p \in Ids : procs[p].order = o => HalfOpen(p)}

ProcessOf(o) == IF Unopened(o) THEN 0 ELSE CHOOSE p \in Ids : procs[p].order = o

CompletedAt == [x \in Orders \X (0 .. Len(procs)) |-> completed[x[1]]]

SweepList(w) ==
    LET found == {<<o, ProcessOf(o)>> : o \in Candidates}
    IN  /\ sweep[w].pc = "idle" /\ found # {}
        /\ \E page \in Pages(found, CompletedAt, OpenPage) :
              sweep' = [sweep EXCEPT ![w] = [IdleSweep EXCEPT !.pc = "next", !.todo = page]]
        /\ UNCHANGED <<now, completed, recordVars, notifier, clerk, verifier, moves, faults>>

\* The next candidate is at hand.
SweepNext(w) ==
    /\ sweep[w].pc = "next"
    /\ IF sweep[w].todo = {} THEN sweep' = [sweep EXCEPT ![w] = IdleSweep]
       ELSE \E x \in First(sweep[w].todo, CompletedAt) :
              sweep' = [sweep EXCEPT ![w].pc = IF x[2] = 0 THEN "open" ELSE "cure",
                                     ![w].todo = @ \ {x},
                                     ![w].order = x[1], ![w].proc = x[2]]
    /\ UNCHANGED <<now, completed, recordVars, notifier, clerk, verifier, moves, faults>>

Continue(w) == sweep' = [sweep EXCEPT ![w] = [IdleSweep EXCEPT !.pc = "next", !.todo = sweep[w].todo]]

\* openFromRemoval: one transaction; the index refuses a second process.
Open(w) ==
    LET o == sweep[w].order
    IN  /\ sweep[w].pc = "open"
        /\ IF Unopened(o)
           THEN Create([Opening(o) EXCEPT !.status = "RECEPTION", !.entered = completed[o]],
                       <<Status("IN_REMOVAL"), Status("RECEPTION")>>)
           ELSE UNCHANGED recordVars
        /\ Continue(w)
        /\ UNCHANGED <<now, completed, notifier, clerk, verifier, moves, faults>>

\* cureHalfOpenRemoval reads the process first ...
Cure(w) ==
    /\ sweep[w].pc = "cure"
    /\ IF HalfOpen(sweep[w].proc) THEN sweep' = [sweep EXCEPT ![w].pc = "enter"]
                                   ELSE Continue(w)
    /\ UNCHANGED <<now, completed, recordVars, notifier, clerk, verifier, moves, faults>>

\* ... and applies the transition after it, with the day of the removal.
Enter(w) ==
    LET p == sweep[w].proc
    IN  /\ sweep[w].pc = "enter"
        /\ IF procs[p].status = "IN_REMOVAL"
           THEN Follow(p, <<"IN_REMOVAL", "RECEPTION">>, completed[sweep[w].order])
           ELSE UNCHANGED recordVars
        /\ Continue(w)
        /\ UNCHANGED <<now, completed, notifier, clerk, verifier, moves, faults>>

\* A transaction fails: the candidate is skipped.
SweepFails(w) ==
    /\ sweep[w].pc \in {"open", "enter"}
    /\ Fault
    /\ Continue(w)
    /\ UNCHANGED <<now, completed, recordVars, notifier, clerk, verifier, moves>>

---------------------------------------------------------------------------
(* impound.notify-due.                                                     *)

Running(p) ==
    procs[p].entered > 0 /\ ~procs[p].stopped /\ procs[p].status # "JUDICIAL_HOLD"

EnteredAt == [p \in Ids |-> procs[p].entered]

NoticeList(n) ==
    LET found == {p \in Ids : Running(p)}
    IN  /\ notifier[n].pc = "idle" /\ found # {}
        /\ \E page \in Pages(found, EnteredAt, NoticePage) :
              notifier' = [notifier EXCEPT ![n] =
                              [IdleNotifier EXCEPT !.pc = "next", !.at = now, !.todo = page]]
        /\ UNCHANGED <<now, completed, recordVars, sweep, clerk, verifier, moves, faults>>

\* Mutant: the deadline is a day, not a day or later.
MarksToday(p, day) == {k \in Kinds : DaysOf[k] > 0 /\ procs[p].entered + DaysOf[k] = day}

\* The kinds due at the time the run has started at.
Marks(p, day) == {k \in Kinds : DueAt(k, procs[p].entered, day)}

\* The notifier goes on to the next candidate.
Left(n) == [notifier[n] EXCEPT !.pc = "next", !.proc = 0, !.kinds = {}]

\* markDueProcess reads the context of the next candidate.
NoticeRead(n) ==
    /\ notifier[n].pc = "next"
    /\ IF notifier[n].todo = {} THEN notifier' = [notifier EXCEPT ![n] = IdleNotifier]
       ELSE \E p \in First(notifier[n].todo, EnteredAt) :
              LET kinds == IF Running(p) THEN Marks(p, notifier[n].at) ELSE {}
              IN  notifier' = [notifier EXCEPT ![n].todo = @ \ {p},
                                  ![n].pc = IF kinds = {} THEN "next" ELSE "mark",
                                  ![n].proc = IF kinds = {} THEN 0 ELSE p,
                                  ![n].kinds = kinds]
    /\ UNCHANGED <<now, completed, recordVars, sweep, clerk, verifier, moves, faults>>

\* Mutant: the notification is upserted.
AbsentOrNot(p, kind) == TRUE

\* markDue looks for the notification under the lock.
Absent(p, kind) == notes[p][kind] = "none"

\* markDue, in the order of the days; it looks at nothing else of the process.
Mark(n) ==
    LET p == notifier[n].proc
    IN  /\ notifier[n].pc = "mark"
        /\ \E k \in First(notifier[n].kinds, DaysOf) :
              /\ IF Absent(p, k)
                 THEN /\ notes' = [notes EXCEPT ![p][k] = "DUE"]
                      /\ Append1(p, procs[p], <<k, "DUE">>, FALSE)
                 ELSE UNCHANGED recordVars
              /\ IF notifier[n].kinds = {k} THEN notifier' = [notifier EXCEPT ![n] = Left(n)]
                 ELSE notifier' = [notifier EXCEPT ![n].kinds = @ \ {k}]
        /\ UNCHANGED <<now, completed, sweep, clerk, verifier, moves, faults>>

\* A transaction fails: what the candidate has left is skipped.
MarkFails(n) ==
    /\ notifier[n].pc = "mark"
    /\ Fault
    /\ notifier' = [notifier EXCEPT ![n] = Left(n)]
    /\ UNCHANGED <<now, completed, recordVars, sweep, clerk, verifier, moves>>

---------------------------------------------------------------------------
(* verify: three reads of one REPEATABLE READ transaction, then verifyChain. *)

Stored(p) == [seq |-> procs[p].seq, hash |-> procs[p].hash, events |-> chain[p],
              anchors |-> anchors[p]]

\* Mutant: every statement reads what is committed (READ COMMITTED).
SeenCommitted(p) == Stored(p)

Seen(p) == verifier.snap

IdleVerifier == [pc |-> "idle", proc |-> 0, snap |-> <<>>, seq |-> 0, hash |-> <<>>,
                 events |-> <<>>, valid |-> TRUE]

\* Asked where the answer bars the vehicle from the auction (a bound).
VerifyBegin(p) ==
    /\ verifier.pc = "idle"
    /\ procs[p].status = "ACTIVE_CUSTODY"
    /\ verifier' = [IdleVerifier EXCEPT !.pc = "events", !.proc = p, !.snap = Stored(p),
                        !.seq = procs[p].seq, !.hash = procs[p].hash]
    /\ UNCHANGED <<now, completed, recordVars, sweep, notifier, clerk, moves, faults>>

VerifyEvents ==
    /\ verifier.pc = "events"
    /\ verifier' = [verifier EXCEPT !.pc = "anchors", !.events = Seen(verifier.proc).events]
    /\ UNCHANGED <<now, completed, recordVars, sweep, notifier, clerk, moves, faults>>

\* verifyChain: sequence, links and hashes, then the head, then the anchors.
Valid(p, seq, hash, events, found) ==
    LET before(i) == IF i = 1 THEN Genesis(p) ELSE HashOf(events[i - 1])
    IN  /\ \A i \in DOMAIN events : events[i].seq = i /\ events[i].prev = before(i)
        /\ Len(events) = seq
        /\ hash = IF events = <<>> THEN <<>> ELSE HashOf(events[Len(events)])
        /\ \A a \in found : a.seq <= seq
        /\ \A i \in DOMAIN events : [seq |-> i, hash |-> HashOf(events[i])] \in found

VerifyAnchors ==
    LET valid == Valid(verifier.proc, verifier.seq, verifier.hash, verifier.events,
                       Seen(verifier.proc).anchors)
    IN  /\ verifier.pc = "anchors"
        /\ verifier' = [IdleVerifier EXCEPT !.valid = valid]
        /\ UNCHANGED <<now, completed, recordVars, sweep, notifier, clerk, moves, faults>>

---------------------------------------------------------------------------
Tick ==
    /\ now < MaxDay
    /\ now' = now + 1
    /\ UNCHANGED <<completed, recordVars, workVars, moves, faults>>

\* What was under way is gone; nothing uncommitted is stored.
Crash ==
    /\ Fault
    /\ sweep' = [w \in Sweeps |-> IdleSweep]
    /\ notifier' = [n \in Notifiers |-> IdleNotifier]
    /\ clerk' = [c \in Clerks |-> IdleClerk]
    /\ verifier' = IdleVerifier
    /\ UNCHANGED <<now, completed, recordVars, moves>>

Init ==
    /\ now = 1
    /\ completed = [o \in Orders |-> 0]
    /\ procs = <<>> /\ chain = <<>> /\ anchors = <<>> /\ outbox = <<>> /\ notes = <<>>
    /\ sweep = [w \in Sweeps |-> IdleSweep]
    /\ notifier = [n \in Notifiers |-> IdleNotifier]
    /\ clerk = [c \in Clerks |-> IdleClerk]
    /\ verifier = IdleVerifier
    /\ moves = 0 /\ faults = 0

Sweeping(w) == SweepList(w) \/ SweepNext(w) \/ Open(w) \/ Cure(w) \/ Enter(w)

Notifying(n) == NoticeList(n) \/ NoticeRead(n) \/ Mark(n)

Next ==
    \/ Tick \/ Crash
    \/ \E o \in Orders : Complete(o) \/ CreateByHand(o)
    \/ \E c \in Clerks : \/ \E p \in Ids, edge \in Edges : Read(c, p, edge)
                         \/ Commit(c)
    \/ \E p \in Ids, k \in Kinds, status \in {"ISSUED", "WAIVED"} : Answer(p, k, status)
    \/ \E w \in Sweeps : Sweeping(w) \/ SweepFails(w)
    \/ \E n \in Notifiers : Notifying(n) \/ MarkFails(n)
    \/ \E p \in Ids : VerifyBegin(p)
    \/ VerifyEvents \/ VerifyAnchors

Spec == Init /\ [][Next]_vars

\* The recurring jobs are called again and again, and what they began goes on;
\* nothing is said of requests.
FairSpec ==
    /\ Spec
    /\ \A w \in Sweeps : WF_vars(Sweeping(w))
    /\ \A n \in Notifiers : WF_vars(Notifying(n))

---------------------------------------------------------------------------
\* Every variable holds values of its table's kind.
TypeOK ==
    /\ now \in Days /\ completed \in [Orders -> 0 .. MaxDay]
    /\ \A p \in Ids :
           /\ procs[p].order \in Orders
           /\ procs[p].status \in Lifecycle!Statuses
           /\ procs[p].entered \in 0 .. MaxDay /\ procs[p].stopped \in BOOLEAN
    /\ notes \in Seq([Kinds -> NoteStatuses])
    /\ Len(chain) = Len(procs) /\ Len(anchors) = Len(procs) /\ Len(outbox) = Len(procs)
    /\ Len(notes) = Len(procs)
    /\ moves \in 0 .. MaxMoves /\ faults \in 0 .. MaxFaults

\* verify never takes a sound chain for a broken one, although head, events
\* and anchors are read one after another while others append: a false alarm
\* bars the vehicle from the auction (impound.transitions.ts, chainBroken).
NoFalseAlarm == verifier.valid

\* T0 and the notifications are evidence: the day of entry is set once, a
\* notification is due before it is issued or waived, and neither is taken
\* back, whatever sweeps and requests overlap.
EvidenceKept ==
    [][\A p \in Ids :
          /\ procs[p].entered # 0 => procs'[p].entered = procs[p].entered
          /\ \A k \in Kinds : notes'[p][k] # notes[p][k] =>
                 <<notes[p][k], notes'[p][k]>> \in
                     {<<"none", "DUE">>, <<"DUE", "ISSUED">>, <<"DUE", "WAIVED">>}]_vars

InCustody(o) == {p \in Ids : procs[p].order = o /\ procs[p].entered > 0}

\* Every completed removal is in custody in the end, half-open processes
\* included, and in one process although a clerk opens it by hand while the
\* sweep is at it (impound.reconcile.service.ts, "a GARANTIA de durabilidade",
\* "criacao-manual concorrente nao duplicam"): again and again none is missing.
RemovalOpens ==
    []<>(\A o \in Orders : completed[o] > 0 => \E p \in Ids : InCustody(o) = {p})

\* Every notification whose day has come is marked in the end, unless the
\* process is stopped or held meanwhile ("latencia # correcao"): again and
\* again there is a moment at which none is overdue.  It rests on every running
\* process being in the page of the scan: the page is never turned.
DeadlinesMarked ==
    []<>(\A p \in Ids, k \in Kinds :
            Running(p) /\ DueAt(k, procs[p].entered, now) => notes[p][k] # "none")

\* No notification becomes due once the rite is stopped or suspended
\* (impound.notifications.service.ts, "Congelamento/suspensao: frozen_at set =>
\* sem novo DUE; JUDICIAL_HOLD => suspenso").  Refuted: markDue does not look
\* at what markDueProcess has read before the lock.
NoDueAfterStop ==
    [][\A p \in Ids, k \in Kinds :
          notes[p][k] = "none" /\ notes'[p][k] = "DUE" => Running(p)]_vars

\* Every arrival at a milestone status is in the outbox.  Refuted by the
\* return from a repair, which appends the event alone.
MilestonesCaptured ==
    \A p \in Ids : \A i \in DOMAIN chain[p] :
        chain[p][i].type = Status("ACTIVE_CUSTODY")
            => \E j \in DOMAIN outbox[p] : outbox[p][j] = chain[p][i]
=============================================================================
