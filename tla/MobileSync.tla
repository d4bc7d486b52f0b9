----------------------------- MODULE MobileSync -----------------------------
(***************************************************************************)
(* A work order recorded on a technician's device without a network, and   *)
(* the replay that brings it to the server                                 *)
(* (src/mobile/flutter_app/lib/core/sync,                                  *)
(* src/src/modules/mobile/mobile-work-order-sync.ts).                      *)
(*                                                                         *)
(* Action 0 creates the order, action k moves it to the k-th status after  *)
(* "open".  The queue of the device is one table: to record an action or   *)
(* to update one is to load the whole table, and to save the whole of it   *)
(* later.  The server keeps its receipts in memory.  A request or a reply  *)
(* may be lost, the device may give up while the server still works, and   *)
(* both may be restarted.                                                  *)
(*                                                                         *)
(* Left out: the other domains (expenses, checklists, evidence), which     *)
(* have queues of the same make, and what the payloads say.                *)
(***************************************************************************)
EXTENDS Integers, Sequences, FiniteSets

CONSTANTS
    MaxUpdates,     \* statuses after "open" (a bound)
    MaxRetry,       \* maxRetry of WorkOrderSyncReplayService
    Slots,          \* requests the server can be about at one time (a bound)
    MaxFaults       \* what goes wrong on the way (a bound)

ASSUME BoundsAssumption ==
    MaxUpdates \in Nat /\ MaxRetry \in Nat /\ MaxFaults \in Nat /\ IsFiniteSet(Slots)

VARIABLES
    table,      \* sync_actions, on the device
    made,       \* actions the technician has recorded
    known,      \* server_id of the order, in the memory of the app
    stored,     \* server_id of the order, in the database of the app
    user,       \* what the screen is about
    replay,     \* what replayTenant is about
    server,     \* what each request is about, at the server
    receipts,   \* syncReceipts
    progress,   \* work_orders created by action 0: the status of each
    count       \* late requests, restarts, and other faults

deviceVars == <<table, made, known, stored, user, replay>>
serverVars == <<server, receipts, progress>>
vars == <<deviceVars, serverVars, count>>

Actions == 0 .. MaxUpdates

\* Orders are as many as there are restarts and late requests, and one.
Ids == 1 .. 1 + MaxFaults

Row   == [status : {"pending", "syncing", "failed", "conflict", "synced", "yielded"},
          tries : 0 .. MaxRetry, id : {0} \cup Ids]
NoRow == [status |-> "none", tries |-> 0, id |-> 0]

Result   == [status : {"processed", "conflict", "failed"}, ref : {0} \cup Ids]
NoResult == [status |-> "none", ref |-> 0]

Tables == [Actions -> Row \cup {NoRow}]
Empty  == [a \in Actions |-> NoRow]

\* What replayTenant still has to do, one await after another.
Write(a, row) == [do |-> "write", act |-> a, row |-> row, id |-> 0]
MapTo(id)     == [do |-> "map", act |-> 0, row |-> NoRow, id |-> id]
Entity(id)    == [do |-> "entity", act |-> 0, row |-> NoRow, id |-> id]
Task == [do : {"write", "map", "entity"}, act : Actions, row : Row \cup {NoRow},
         id : {0} \cup Ids]

IdleUser   == [pc |-> "idle", act |-> 0, row |-> NoRow, snap |-> Empty]
IdleReplay == [pc |-> "idle", phase |-> "create", todo |-> <<>>, batch |-> Empty,
               snap |-> Empty]
FreeSlot   == [pc |-> "free", todo |-> <<>>, ids |-> [a \in Actions |-> 0],
               seen |-> 0, live |-> FALSE, got |-> [a \in Actions |-> NoResult]]

Faults == count.late + count.restart + count.other

Fault(kind) ==
    Faults < MaxFaults /\ count' = [count EXCEPT ![kind] = @ + 1]

\* The members of a set of actions, in the order of created_at.
InOrder(set) ==
    CHOOSE s \in [1 .. Cardinality(set) -> set] :
        \A i, j \in DOMAIN s : i < j => s[i] < s[j]

---------------------------------------------------------------------------
(* The screen.                                                             *)

\* _createWorkOrderLocked, _updateStatusLocked: the id is the one the app has
\* in memory.  Then enqueue loads the table.
Record ==
    /\ user.pc = "idle"
    /\ made <= MaxUpdates
    /\ user' = [pc |-> "save", act |-> made, snap |-> table,
                row |-> [status |-> "pending", tries |-> 0,
                         id |-> IF made = 0 THEN 0 ELSE known]]
    /\ made' = made + 1
    /\ UNCHANGED <<table, known, stored, replay, serverVars, count>>

\* WorkOrderConflictResolutionService.resolve: keepLocalAndRetry or acceptServer.
Resolve(a, status) ==
    /\ user.pc = "idle"
    /\ table[a].status = "conflict"
    /\ user' = [pc |-> "save", act |-> a, snap |-> table,
                row |-> [table[a] EXCEPT !.status = status]]
    /\ UNCHANGED <<table, made, known, stored, replay, serverVars, count>>

\* What was loaded is saved, whatever the table is by now.
SaveUser ==
    /\ user.pc = "save"
    /\ table' = [user.snap EXCEPT ![user.act] = user.row]
    /\ user' = IdleUser
    /\ UNCHANGED <<made, known, stored, replay, serverVars, count>>

\* hydrate: the orders are read from the database of the app.
Refresh ==
    /\ known # stored
    /\ known' = stored
    /\ UNCHANGED <<table, made, stored, user, replay, serverVars, count>>

---------------------------------------------------------------------------
(* replayTenant: the creations, then the updates.                          *)

Ready(phase, a) ==
    IF phase = "create" THEN a = 0 ELSE a # 0 /\ table[a].id # 0

\* pendingForTenant, and the filters of _replayEligible.
Eligible(phase) ==
    {a \in Actions : /\ table[a].status \in {"pending", "failed"}
                     /\ table[a].tries < MaxRetry
                     /\ Ready(phase, a)}

\* The pass of one kind of action: the copies of the batch, marked one by one.
Pass(phase) ==
    LET set == Eligible(phase)
        marked == [a \in Actions |-> IF a \in set
                                     THEN [table[a] EXCEPT !.status = "syncing"]
                                     ELSE NoRow]
        order == InOrder(set)
    IN  IF set = {} THEN IF phase = "update" THEN IdleReplay
                         ELSE [IdleReplay EXCEPT !.pc = "next"]
        ELSE [IdleReplay EXCEPT !.pc = "mark", !.phase = phase, !.batch = marked,
                  !.todo = [i \in DOMAIN order |-> Write(order[i], marked[order[i]])]]

StartReplay ==
    /\ replay.pc = "idle"
    /\ Eligible("create") \cup Eligible("update") # {}
    /\ replay' = Pass("create")
    /\ UNCHANGED <<table, made, known, stored, user, serverVars, count>>

NextPass ==
    /\ replay.pc = "next"
    /\ replay' = Pass("update")
    /\ UNCHANGED <<table, made, known, stored, user, serverVars, count>>

Working == replay.pc \in {"mark", "settle"} /\ replay.todo # <<>>

\* SyncQueueRepository.update loads the table ...
Load ==
    /\ Working
    /\ Head(replay.todo).do = "write"
    /\ replay.snap = Empty
    /\ replay' = [replay EXCEPT !.snap = table]
    /\ UNCHANGED <<table, made, known, stored, user, serverVars, count>>

\* ... and saves it; an action that is not in it is not added.
Save ==
    LET task == Head(replay.todo)
    IN  /\ Working
        /\ replay.snap # Empty
        /\ table' = [replay.snap EXCEPT ![task.act] =
                        IF @ = NoRow THEN NoRow ELSE task.row]
        /\ replay' = [replay EXCEPT !.todo = Tail(@), !.snap = Empty]
        /\ UNCHANGED <<made, known, stored, user, serverVars, count>>

\* _mapDependentActions lists the actions and updates those without an id.
MapDependents ==
    LET task == Head(replay.todo)
        set == {a \in Actions \ {0} : table[a] # NoRow /\ table[a].id = 0}
        order == InOrder(set)
        writes == [i \in DOMAIN order |->
                      Write(order[i], [table[order[i]] EXCEPT !.id = task.id])]
    IN  /\ Working
        /\ task.do = "map"
        /\ replay' = [replay EXCEPT !.todo = writes \o Tail(@)]
        /\ UNCHANGED <<table, made, known, stored, user, serverVars, count>>

\* buildWorkOrderSyncEntityUpdater: the order in the database of the app.
UpdateEntity ==
    /\ Working
    /\ Head(replay.todo).do = "entity"
    /\ stored' = Head(replay.todo).id
    /\ replay' = [replay EXCEPT !.todo = Tail(@)]
    /\ UNCHANGED <<table, made, known, user, serverVars, count>>

EndPass ==
    /\ replay.pc = "settle" /\ replay.todo = <<>>
    /\ replay' = IF replay.phase = "create" THEN [IdleReplay EXCEPT !.pc = "next"]
                                            ELSE IdleReplay
    /\ UNCHANGED <<table, made, known, stored, user, serverVars, count>>

Batch == {a \in Actions : replay.batch[a] # NoRow}

Send(s) ==
    /\ replay.pc = "mark" /\ replay.todo = <<>>
    /\ server[s].pc = "free"
    /\ replay' = [replay EXCEPT !.pc = "wait"]
    /\ server' = [server EXCEPT ![s] =
           [FreeSlot EXCEPT !.pc = "sent", !.todo = InOrder(Batch), !.live = TRUE,
                            !.ids = [a \in Actions |-> replay.batch[a].id]]]
    /\ UNCHANGED <<table, made, known, stored, user, receipts, progress, count>>

Failed(row) == [row EXCEPT !.status = "failed", !.tries = @ + 1]

\* NETWORK_ERROR: every action of the batch has failed.
Broken ==
    LET order == InOrder(Batch)
    IN  [replay EXCEPT !.pc = "settle",
             !.todo = [i \in DOMAIN order |->
                          Write(order[i], Failed(replay.batch[order[i]]))]]

\* Mutant: a reply that rejects the action synchronises it.
SettledLoosely(row, result) == [row EXCEPT !.status = "synced"]

Settled(row, result) ==
    CASE result.status = "processed" -> [row EXCEPT !.status = "synced"]
      [] result.status = "conflict"  -> [row EXCEPT !.status = "conflict"]
      [] OTHER                       -> Failed(row)

\* A creation that is synchronised maps the actions that wait for it.
Tasks(a, result) ==
    LET row == Settled(replay.batch[a], result)
    IN  <<Write(a, row)>>
        \o (IF a = 0 /\ row.status = "synced" THEN <<MapTo(result.ref)>> ELSE <<>>)
        \o (IF row.status = "synced" THEN <<Entity(result.ref)>> ELSE <<>>)

AllTasks(got) ==
    LET order == InOrder(Batch)
        upTo[i \in 0 .. Len(order)] ==
            IF i = 0 THEN <<>> ELSE upTo[i - 1] \o Tasks(order[i], got[order[i]])
    IN  upTo[Len(order)]

Receive(s) ==
    /\ server[s].pc = "reply" /\ server[s].live
    /\ replay' = [replay EXCEPT !.pc = "settle", !.todo = AllTasks(server[s].got)]
    /\ server' = [server EXCEPT ![s] = FreeSlot]
    /\ UNCHANGED <<table, made, known, stored, user, receipts, progress, count>>

---------------------------------------------------------------------------
(* What goes wrong on the way.                                             *)

\* The request never arrives, or the reply does not.
Lose(s) ==
    /\ server[s].live /\ server[s].pc \in {"sent", "reply"}
    /\ Fault("other")
    /\ replay' = Broken
    /\ server' = [server EXCEPT ![s] = FreeSlot]
    /\ UNCHANGED <<table, made, known, stored, user, receipts, progress>>

\* receiveTimeout: the device gives up, the server does not.
GiveUp(s) ==
    /\ server[s].live /\ server[s].pc # "reply"
    /\ Fault("late")
    /\ replay' = Broken
    /\ server' = [server EXCEPT ![s].live = FALSE]
    /\ UNCHANGED <<table, made, known, stored, user, receipts, progress>>

\* The receipts go with the process.
Restart ==
    /\ Fault("restart")
    /\ replay' = IF \E s \in Slots : server[s].live THEN Broken ELSE replay
    /\ server' = [s \in Slots |-> FreeSlot]
    /\ receipts' = [a \in Actions |-> NoResult]
    /\ UNCHANGED <<table, made, known, stored, user, progress>>

\* Nothing looks for actions left "syncing" when the app starts again.  The
\* server goes on with what it was at.
Crash ==
    LET busy == {s \in Slots : server[s].live /\ server[s].pc # "reply"}
    IN  /\ Faults + Cardinality(busy) < MaxFaults
        /\ count' = [count EXCEPT !.other = @ + 1, !.late = @ + Cardinality(busy)]
        /\ user' = IdleUser /\ replay' = IdleReplay
        /\ known' = stored
        /\ server' = [s \in Slots |-> IF server[s].pc = "reply" THEN FreeSlot
                                      ELSE [server[s] EXCEPT !.live = FALSE]]
        /\ UNCHANGED <<table, made, stored, receipts, progress>>

---------------------------------------------------------------------------
(* syncMobileWorkOrderActions.                                             *)

Current(s) == Head(server[s].todo)

\* The result of the action at hand; the reply of a request given up is gone.
Answer(s, result) ==
    LET slot == server[s]
        done == Len(slot.todo) = 1
    IN  server' = [server EXCEPT ![s] =
            IF done /\ ~slot.live THEN FreeSlot
            ELSE [slot EXCEPT !.pc = IF done THEN "reply" ELSE "check",
                              !.todo = Tail(@), !.seen = 0,
                              !.got = [@ EXCEPT ![Current(s)] = result]]]

\* The receipt is looked for: what it is about is not done again, and is a
\* conflict when it names another order (the fingerprint of the payload).
Look(s) ==
    LET a == Current(s)
        receipt == receipts[a]
    IN  /\ server[s].pc \in {"sent", "check"}
        /\ IF receipt = NoResult
           THEN server' = [server EXCEPT ![s].pc = "read"]
           ELSE Answer(s, IF a = 0 \/ receipt.ref = server[s].ids[a] THEN receipt
                          ELSE [status |-> "conflict", ref |-> receipt.ref])
        /\ UNCHANGED <<deviceVars, receipts, progress, count>>

\* Mutant: the receipt is kept before the order is.
ReadReserving(s) ==
    LET a == Current(s)
        id == server[s].ids[a]
    IN  /\ server[s].pc = "read"
        /\ IF a = 0 \/ progress[id] \in {a - 1, a}
           THEN server' = [server EXCEPT ![s].pc = "write"]
           ELSE Answer(s, [status |-> "conflict", ref |-> id])
        /\ receipts' = IF a # 0 THEN receipts
                       ELSE [receipts EXCEPT ![0] = [status |-> "processed",
                                                     ref |-> Len(progress) + 1]]
        /\ UNCHANGED <<deviceVars, progress, count>>

\* WorkOrderService.changeStatus reads the order; a transition the order does
\* not have is a conflict.
Read(s) ==
    LET a == Current(s)
        id == server[s].ids[a]
    IN  /\ server[s].pc = "read"
        /\ IF a = 0 \/ progress[id] \in {a - 1, a}
           THEN server' = [server EXCEPT ![s].pc = "write"]
           ELSE Answer(s, [status |-> "conflict", ref |-> id])
        /\ UNCHANGED <<deviceVars, receipts, progress, count>>

\* A database error, a permission that is gone.
Refuse(s) ==
    /\ server[s].pc \in {"read", "write"}
    /\ Fault("other")
    /\ Answer(s, [status |-> "failed", ref |-> 0])
    /\ UNCHANGED <<deviceVars, receipts, progress>>

\* Mutant: an update moves the order one status on, whatever it names.
ApplyNext(s) ==
    LET a == Current(s)
        id == IF a = 0 THEN Len(progress) + 1 ELSE server[s].ids[a]
    IN  /\ server[s].pc = "write"
        /\ progress' = IF a = 0 THEN Append(progress, 0)
                                ELSE [progress EXCEPT ![id] = @ + 1]
        /\ server' = [server EXCEPT ![s].pc = "record", ![s].seen = id]
        /\ UNCHANGED <<deviceVars, receipts, count>>

\* The order is created or its status replaced, whatever it is by now.
Apply(s) ==
    LET a == Current(s)
        id == IF a = 0 THEN Len(progress) + 1 ELSE server[s].ids[a]
    IN  /\ server[s].pc = "write"
        /\ progress' = IF a = 0 THEN Append(progress, 0)
                                ELSE [progress EXCEPT ![id] = a]
        /\ server' = [server EXCEPT ![s].pc = "record", ![s].seen = id]
        /\ UNCHANGED <<deviceVars, receipts, count>>

\* Mutant: no receipt is kept.
AcceptForgetful(s) ==
    LET result == [status |-> "processed", ref |-> server[s].seen]
    IN  /\ server[s].pc = "record"
        /\ Answer(s, result)
        /\ UNCHANGED <<deviceVars, receipts, progress, count>>

Accept(s) ==
    LET result == [status |-> "processed", ref |-> server[s].seen]
    IN  /\ server[s].pc = "record"
        /\ receipts' = [receipts EXCEPT ![Current(s)] = result]
        /\ Answer(s, result)
        /\ UNCHANGED <<deviceVars, progress, count>>

---------------------------------------------------------------------------
Init ==
    /\ table = Empty /\ made = 0 /\ known = 0 /\ stored = 0
    /\ user = IdleUser /\ replay = IdleReplay
    /\ server = [s \in Slots |-> FreeSlot]
    /\ receipts = [a \in Actions |-> NoResult]
    /\ progress = <<>>
    /\ count = [late |-> 0, restart |-> 0, other |-> 0]

Next ==
    \/ Record \/ SaveUser \/ Refresh
    \/ \E a \in Actions, status \in {"pending", "yielded"} : Resolve(a, status)
    \/ StartReplay \/ NextPass \/ Load \/ Save \/ MapDependents \/ UpdateEntity
    \/ EndPass
    \/ \E s \in Slots : \/ Send(s) \/ Receive(s) \/ Lose(s) \/ GiveUp(s)
                        \/ Look(s) \/ Read(s) \/ Refuse(s) \/ Apply(s) \/ Accept(s)
    \/ Restart \/ Crash

Spec == Init /\ [][Next]_vars

---------------------------------------------------------------------------
\* Every variable holds values of the kind the device and the server hold.
TypeOK ==
    /\ table \in Tables
    /\ made \in 0 .. MaxUpdates + 1
    /\ known \in {0} \cup Ids /\ stored \in {0} \cup Ids
    /\ user \in [pc : {"idle", "save"}, act : Actions, row : Row \cup {NoRow},
                 snap : Tables]
    /\ replay.pc \in {"idle", "next", "mark", "wait", "settle"}
    /\ replay.phase \in {"create", "update"}
    /\ replay.todo \in Seq(Task)
    /\ replay.batch \in Tables /\ replay.snap \in Tables
    /\ \A s \in Slots :
           /\ server[s].pc \in {"free", "sent", "check", "read", "write", "record",
                                "reply"}
           /\ server[s].todo \in Seq(Actions)
           /\ server[s].got \in [Actions -> Result \cup {NoResult}]
    /\ receipts \in [Actions -> Result \cup {NoResult}]
    /\ progress \in Seq(0 .. MaxUpdates)

\* The order of an action that is recorded once on the device is created once
\* at the server, and once more at most for every restart of the server, which
\* forgets the receipts, and for every request the device gave up while the
\* server was at it (mobile-sync-contracts.md, "reenvio identico retorna
\* already_applied").  Crashes of the app, lost requests and replies, and tables
\* saved over newer ones add none.  (A crash gives up the request that is out.)
OrdersBounded == Len(progress) <= 1 + count.restart + count.late

\* An action the device shows as synchronised is applied: the order is there,
\* and has reached the status.  Only a request that the device has given up can
\* set the order back.
SyncedMeansApplied ==
    count.late = 0 =>
        \A a \in Actions : table[a].status = "synced" =>
            IF a = 0 THEN Len(progress) > 0 ELSE progress[table[a].id] >= a

\* An update knows an order only if action 0 has created it.
UpdateFollowsOrder ==
    \A a \in Actions \ {0} : table[a].id <= Len(progress)
=============================================================================
