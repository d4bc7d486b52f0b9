------------------------------ MODULE JobQueue ------------------------------
(***************************************************************************)
(* The job queue in Redis and the worker that drains it                    *)
(* (src/src/infra/jobs), with the two ways jobs come into it: an event     *)
(* published by a request, and a scan that puts its own successor in the   *)
(* queue (charging.accrue-daily and the other recurring jobs).             *)
(*                                                                         *)
(* The interval of the worker does not wait for a tick to end, so several  *)
(* ticks can be under way.  Between two Redis commands that other ticks    *)
(* can tell apart there is a step; a command on an envelope whose id       *)
(* nobody else can reach is merged with its neighbour.  A command may      *)
(* fail, applied or not (the client gives up after five seconds), and the  *)
(* process may crash.  Handlers end, well or with an error.                *)
(***************************************************************************)
EXTENDS Integers, Sequences, FiniteSets

CONSTANTS
    ScanJobs,       \* ids of scans at hand at one time (a bound)
    EventJobs,      \* ids of events at hand at one time (a bound)
    Ticks,          \* ticks of the worker that can be under way (a bound)
    MaxAttempts,    \* maxAttempts of the envelopes
    MaxErrors,      \* handlers that throw (a bound)
    MaxFaults,      \* failed commands and crashes, together (a bound)
    NoJob

Jobs == ScanJobs \cup EventJobs

ASSUME AttemptsAssumption == MaxAttempts \in Nat \ {0}

ASSUME BoundsAssumption == MaxErrors \in Nat /\ MaxFaults \in Nat

ASSUME JobsAssumption == NoJob \notin Jobs /\ ScanJobs \cap EventJobs = {}

VARIABLES
    data,       \* erp:jobs:data:<id>: the stored envelopes
    pending,    \* erp:jobs:pending, a list
    delayed,    \* erp:jobs:delayed, a sorted set: those that wait, those due
    dead,       \* erp:jobs:failed
    tick,       \* what each tick is about
    up,         \* the process has booted and not crashed
    runs,       \* times the handler of the job at hand has been called
    errors,     \* handlers that have thrown
    faults      \* failed commands and crashes

redisVars == <<data, pending, delayed, dead>>
vars == <<redisVars, tick, up, runs, errors, faults>>

Unfinished == {"queued", "processing", "retrying"}

\* Failed is a job that has used up its attempts, and no other.
Envelope == [attempts : 0 .. MaxAttempts - 1, status : Unfinished \cup {"none"}]
                \cup [attempts : {MaxAttempts}, status : {"failed"}]

NoEnvelope == [attempts |-> 0, status |-> "none"]

Tick == [pc : {"idle", "promote", "requeue", "run", "complete", "fail"},
         due : SUBSET Jobs, job : Jobs \cup {NoJob}]

IdleTick == [pc |-> "idle", due |-> {}, job |-> NoJob]

Listed == {pending[i] : i \in 1 .. Len(pending)}
Held   == {tick[t].job : t \in Ticks} \ {NoJob}
Live   == Listed \cup DOMAIN delayed \cup Held

\* randomUUID: an id that no list, envelope or tick has.
Fresh(ids) == {j \in ids : data[j].status = "none"} \ (Live \cup dead)
NewScan    == CHOOSE j \in Fresh(ScanJobs) : TRUE
NewEvent   == CHOOSE j \in Fresh(EventJobs) : TRUE

Fault == faults < MaxFaults /\ faults' = faults + 1

Job(t)        == tick[t].job
Become(t, pc) == tick' = [tick EXCEPT ![t].pc = pc]
Drop(t)       == tick' = [tick EXCEPT ![t] = IdleTick]

Delay(j)   == [k \in DOMAIN delayed \cup {j} |->
                  IF k = j THEN "waiting" ELSE delayed[k]]
Undelay(j) == [k \in DOMAIN delayed \ {j} |-> delayed[k]]

---------------------------------------------------------------------------
(* enqueue: SET of the envelope, then ZADD or RPUSH.                       *)

Saved(j, status) == [data EXCEPT ![j] = [attempts |-> 0, status |-> status]]

\* A scan is delayed by its interval.
EnqueueScan ==
    /\ Fresh(ScanJobs) # {}
    /\ data' = Saved(NewScan, "retrying")
    /\ delayed' = Delay(NewScan)
    /\ UNCHANGED <<pending, dead>>

\* DomainEventPublisher; a publication that fails is logged and given up.
Publish ==
    /\ up
    /\ Fresh(EventJobs) # {}
    /\ data' = Saved(NewEvent, "queued")
    /\ pending' = Append(pending, NewEvent)
    /\ runs' = [runs EXCEPT ![NewEvent] = 0]
    /\ UNCHANGED <<delayed, dead, tick, up, errors, faults>>

\* startJobWorkerIfEnabled enqueues the first scan at every boot.
Boot ==
    /\ ~up
    /\ up' = TRUE
    /\ EnqueueScan
    /\ runs' = [runs EXCEPT ![NewScan] = 0]
    /\ UNCHANGED <<tick, errors, faults>>

Crash ==
    /\ up
    /\ Fault
    /\ up' = FALSE
    /\ tick' = [t \in Ticks |-> IdleTick]
    /\ UNCHANGED <<redisVars, runs, errors>>

\* runAfter comes.
Elapse(j) ==
    /\ j \in DOMAIN delayed /\ delayed[j] = "waiting"
    /\ delayed' = [delayed EXCEPT ![j] = "due"]
    /\ UNCHANGED <<data, pending, dead, tick, up, runs, errors, faults>>

---------------------------------------------------------------------------
(* dequeue: promoteDueJobs, then the head of the list.                     *)

\* The interval fires: ZRANGEBYSCORE.
Begin(t) ==
    /\ up
    /\ tick[t].pc = "idle"
    /\ tick' = [tick EXCEPT ![t].pc = "promote",
                    ![t].due = {j \in DOMAIN delayed : delayed[j] = "due"}]
    /\ UNCHANGED <<redisVars, up, runs, errors, faults>>

\* Mutant: the reply of ZREM is not looked at.
PromoteUnchecked(t, j) ==
    /\ tick[t].pc = "promote"
    /\ j \in tick[t].due
    /\ delayed' = Undelay(j)
    /\ tick' = [tick EXCEPT ![t].pc = "requeue", ![t].due = @ \ {j}, ![t].job = j]
    /\ UNCHANGED <<data, pending, dead, up, runs, errors, faults>>

\* ZREM: another tick may have removed the job since it was listed.
Promote(t, j) ==
    /\ tick[t].pc = "promote"
    /\ j \in tick[t].due
    /\ IF j \in DOMAIN delayed
       THEN /\ delayed' = Undelay(j)
            /\ tick' = [tick EXCEPT ![t].pc = "requeue", ![t].due = @ \ {j},
                                    ![t].job = j]
       ELSE /\ tick' = [tick EXCEPT ![t].due = @ \ {j}]
            /\ UNCHANGED delayed
    /\ UNCHANGED <<data, pending, dead, up, runs, errors, faults>>

\* Mutant: the envelope of the enqueue is stored again.
RequeueAsNew(t) ==
    /\ tick[t].pc = "requeue"
    /\ data' = Saved(Job(t), "queued")
    /\ pending' = Append(pending, Job(t))
    /\ tick' = [tick EXCEPT ![t].pc = "promote", ![t].job = NoJob]
    /\ UNCHANGED <<delayed, dead, up, runs, errors, faults>>

\* GET, SET and RPUSH.
Requeue(t) ==
    /\ tick[t].pc = "requeue"
    /\ IF data[Job(t)].status = "none" THEN UNCHANGED <<data, pending>>
       ELSE /\ data' = [data EXCEPT ![Job(t)].status = "queued"]
            /\ pending' = Append(pending, Job(t))
    /\ tick' = [tick EXCEPT ![t].pc = "promote", ![t].job = NoJob]
    /\ UNCHANGED <<delayed, dead, up, runs, errors, faults>>

\* LPOP and GET: nothing to do ends the tick.
Pop(t) ==
    /\ tick[t].pc = "promote" /\ tick[t].due = {}
    /\ IF pending = <<>> THEN Drop(t) /\ UNCHANGED <<pending, data>>
       ELSE /\ pending' = Tail(pending)
            /\ IF data[Head(pending)].status = "none"
               THEN Drop(t) /\ UNCHANGED data
               ELSE /\ data' = [data EXCEPT ![Head(pending)].status = "processing"]
                    /\ tick' = [tick EXCEPT ![t].pc = "run", ![t].job = Head(pending)]
    /\ UNCHANGED <<delayed, dead, up, runs, errors, faults>>

---------------------------------------------------------------------------
(* runTick: the handler, then complete or fail.                            *)

\* The handler returns or throws.
Ends(t) ==
    \/ Become(t, "complete") /\ UNCHANGED errors
    \/ Become(t, "fail") /\ errors < MaxErrors /\ errors' = errors + 1

RunEvent(t) ==
    /\ tick[t].pc = "run" /\ Job(t) \in EventJobs
    /\ runs' = [runs EXCEPT ![Job(t)] = @ + 1]
    /\ Ends(t)
    /\ UNCHANGED <<redisVars, up, faults>>

\* Mutant: no successor while a scan is at hand; the one that runs is.
ScanDeduplicated(t) ==
    /\ tick[t].pc = "run" /\ Job(t) \in ScanJobs
    /\ IF ScanJobs \cap Live = {} THEN EnqueueScan ELSE UNCHANGED redisVars
    /\ runs' = [runs EXCEPT ![Job(t)] = @ + 1]
    /\ Ends(t)
    /\ UNCHANGED <<up, faults>>

\* try { scan } finally { enqueue the successor }.
RunScan(t) ==
    /\ tick[t].pc = "run" /\ Job(t) \in ScanJobs
    /\ EnqueueScan
    /\ runs' = [runs EXCEPT ![Job(t)] = @ + 1, ![NewScan] = 0]
    /\ Ends(t)
    /\ UNCHANGED <<up, faults>>

\* The successor cannot be enqueued: the handler throws.
RunScanFault(t) ==
    /\ tick[t].pc = "run" /\ Job(t) \in ScanJobs
    /\ Fault
    /\ runs' = [runs EXCEPT ![Job(t)] = @ + 1]
    /\ Become(t, "fail")
    /\ UNCHANGED <<redisVars, up, errors>>

Complete(t) ==
    /\ tick[t].pc = "complete"
    /\ data' = [data EXCEPT ![Job(t)] = NoEnvelope]
    /\ runs' = [runs EXCEPT ![Job(t)] = 0]
    /\ Drop(t)
    /\ UNCHANGED <<pending, delayed, dead, up, errors, faults>>

\* complete is inside the try: the job that ran well goes to fail.
CompleteFault(t) ==
    /\ tick[t].pc = "complete"
    /\ Fault
    /\ Become(t, "fail")
    /\ UNCHANGED <<redisVars, up, runs, errors>>

\* Mutant: one attempt too many.
Spent(attempts) == attempts > MaxAttempts

Exhausted(attempts) == attempts >= MaxAttempts

\* Mutant: the job that will be retried is saved, not delayed.
FailUndelayed(t) ==
    LET attempts == data[Job(t)].attempts + 1
    IN  /\ tick[t].pc = "fail"
        /\ data' = [data EXCEPT ![Job(t)].attempts = attempts,
               ![Job(t)].status = IF Exhausted(attempts) THEN "failed" ELSE "retrying"]
        /\ dead' = IF Exhausted(attempts) THEN dead \cup {Job(t)} ELSE dead
        /\ Drop(t)
        /\ UNCHANGED <<pending, delayed, up, runs, errors, faults>>

\* The envelope as the tick read it, with one more attempt.
Fail(t) ==
    LET attempts == data[Job(t)].attempts + 1
    IN  /\ tick[t].pc = "fail"
        /\ IF Exhausted(attempts)
           THEN /\ data' = [data EXCEPT ![Job(t)].attempts = attempts,
                                        ![Job(t)].status = "failed"]
                /\ dead' = dead \cup {Job(t)}
                /\ UNCHANGED delayed
           ELSE /\ data' = [data EXCEPT ![Job(t)].attempts = attempts,
                                        ![Job(t)].status = "retrying"]
                /\ delayed' = Delay(Job(t))
                /\ UNCHANGED dead
        /\ Drop(t)
        /\ UNCHANGED <<pending, up, runs, errors, faults>>

---------------------------------------------------------------------------
(* A command between two steps fails: the tick rejects, what it held in    *)
(* memory is gone (after LPOP or ZREM, or before the ZADD of fail).        *)

Reject(t) ==
    /\ tick[t].pc \in {"promote", "requeue", "run", "fail"}
    /\ Fault
    /\ Drop(t)
    /\ UNCHANGED <<redisVars, up, runs, errors>>

---------------------------------------------------------------------------
Init ==
    /\ data = [j \in Jobs |-> NoEnvelope]
    /\ pending = <<>>
    /\ delayed = <<>>
    /\ dead = {}
    /\ tick = [t \in Ticks |-> IdleTick]
    /\ up = FALSE
    /\ runs = [j \in Jobs |-> 0]
    /\ errors = 0
    /\ faults = 0

Advance(t) ==
    \/ Begin(t)
    \/ \E j \in Jobs : Promote(t, j)
    \/ Requeue(t) \/ Pop(t)
    \/ RunEvent(t) \/ RunScan(t)
    \/ Complete(t) \/ Fail(t)

Next ==
    \/ Publish \/ Boot \/ Crash
    \/ \E j \in Jobs : Elapse(j)
    \/ \E t \in Ticks : Advance(t) \/ RunScanFault(t) \/ CompleteFault(t) \/ Reject(t)

Spec == Init /\ [][Next]_vars

\* The interval keeps firing, a tick under way goes on, a delay elapses.
FairSpec ==
    /\ Spec
    /\ \A t \in Ticks : WF_vars(Advance(t))
    /\ \A j \in Jobs : WF_vars(Elapse(j))

---------------------------------------------------------------------------
TypeOK ==
    /\ data \in [Jobs -> Envelope]
    /\ pending \in Seq(Jobs)
    /\ DOMAIN delayed \subseteq Jobs
    /\ \A j \in DOMAIN delayed : delayed[j] \in {"waiting", "due"}
    /\ dead \subseteq Jobs
    /\ tick \in [Ticks -> Tick]
    /\ up \in BOOLEAN
    /\ runs \in [Jobs -> Nat]
    /\ errors \in 0 .. MaxErrors /\ faults \in 0 .. MaxFaults

\* A job is in one hand: once in one of the lists or with one tick.  So two
\* ticks that overlap never run the same job at the same time, although
\* they list the same due jobs (ZREM decides).
OneHolder ==
    /\ \A i, k \in 1 .. Len(pending) : pending[i] = pending[k] => i = k
    /\ \A t, u \in Ticks : Job(t) = Job(u) /\ Job(t) # NoJob => t = u
    /\ Listed \cap (DOMAIN delayed \cup Held) = {}
    /\ DOMAIN delayed \cap Held = {}
    /\ dead \cap Live = {}

\* The handler of a job is called maxAttempts times at most, whatever
\* commands fail, and even when the job that ran well could not be deleted.
RunsBounded == \A j \in Jobs : runs[j] <= MaxAttempts

\* A stored job is done or in the dead letters in the end, whatever fails in
\* its handler (no faults: a job the worker loses is stored forever).
JobsEnd ==
    \A j \in Jobs : data[j].status \in Unfinished ~> data[j].status \notin Unfinished

\* While the process is up there is a scan to come: what the comment of
\* the recurring handlers says of their "finally".  It holds when only the
\* scans fail; one lost command is enough to end the recurrence.
RecurrenceAlive == up => ScanJobs \cap Live # {}
=============================================================================
