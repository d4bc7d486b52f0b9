--------------------------- MODULE JobQueueProofs ---------------------------
(***************************************************************************)
(* Machine-checked theorems about JobQueue, for any number of jobs, ticks, *)
(* attempts, errors and faults.                                            *)
(***************************************************************************)
EXTENDS JobQueue, TLAPS

---------------------------------------------------------------------------
(* The invariant.                                                          *)

\* OneHolder, part by part: the list, the ticks, and no job in two of the places.
NoDuplicates == \A i, k \in 1 .. Len(pending) : pending[i] = pending[k] => i = k

OneTick == \A t, u \in Ticks : Job(t) = Job(u) /\ Job(t) # NoJob => t = u

Apart ==
    /\ Listed \cap DOMAIN delayed = {} /\ Listed \cap Held = {}
    /\ DOMAIN delayed \cap Held = {} /\ dead \cap Live = {}

\* A tick has a job in hand at the steps that are about one.
TickHolds == \A t \in Ticks : tick[t].pc \in {"idle", "promote"} <=> Job(t) = NoJob

\* A job at hand is stored, and its handler has been called as often as its
\* envelope says, once more between the call and the end.
CallsCounted ==
    /\ \A j \in Live : data[j].status \in Unfinished
    /\ \A j \in Listed \cup DOMAIN delayed : runs[j] = data[j].attempts
    /\ \A t \in Ticks : Job(t) # NoJob =>
           runs[Job(t)] = IF tick[t].pc \in {"complete", "fail"}
                          THEN data[Job(t)].attempts + 1 ELSE data[Job(t)].attempts

JobInv ==
    /\ TypeOK /\ NoDuplicates /\ OneTick /\ Apart
    /\ TickHolds /\ CallsCounted /\ RunsBounded

---------------------------------------------------------------------------
(* The list.                                                               *)

\* RPUSH of an id that is not listed.
LEMMA PushBack ==
    ASSUME pending \in Seq(Jobs), NoDuplicates, NEW j \in Jobs, j \notin Listed,
           pending' = Append(pending, j)
    PROVE  pending' \in Seq(Jobs) /\ NoDuplicates' /\ Listed' = Listed \cup {j}
<1>1. /\ pending' \in Seq(Jobs) /\ Len(pending) \in Nat /\ Len(pending') = Len(pending) + 1
      /\ \A i \in 1 .. Len(pending) : pending'[i] = pending[i]
      /\ pending'[Len(pending) + 1] = j
  OBVIOUS
<1>2. NoDuplicates'
  BY <1>1 DEF NoDuplicates, Listed
<1>3. Listed' = Listed \cup {j}
  <2>1. \A i \in 1 .. Len(pending') : i \in 1 .. Len(pending) \/ i = Len(pending) + 1
    BY <1>1
  <2>2. Listed' \subseteq Listed \cup {j}
    BY <1>1, <2>1 DEF Listed
  <2>3. Listed \subseteq Listed' /\ j \in Listed'
    BY <1>1 DEF Listed
  <2> QED
    BY <2>2, <2>3
<1> QED
  BY <1>1, <1>2, <1>3

\* LPOP.
LEMMA PopFront ==
    ASSUME pending \in Seq(Jobs), NoDuplicates, pending # <<>>, pending' = Tail(pending)
    PROVE  /\ pending' \in Seq(Jobs) /\ NoDuplicates'
           /\ Head(pending) \in Listed /\ Head(pending) \in Jobs
           /\ Listed' = Listed \ {Head(pending)}
<1>1. /\ pending' \in Seq(Jobs) /\ Len(pending) \in Nat \ {0} /\ Len(pending') = Len(pending) - 1
      /\ \A i \in 1 .. Len(pending') : pending'[i] = pending[i + 1]
      /\ Head(pending) = pending[1] /\ pending[1] \in Jobs
  OBVIOUS
<1>2. NoDuplicates'
  BY <1>1 DEF NoDuplicates
<1>3. Listed' \subseteq Listed \ {Head(pending)}
  <2> SUFFICES ASSUME NEW i \in 1 .. Len(pending')
               PROVE  pending'[i] \in Listed /\ pending'[i] # Head(pending)
    BY DEF Listed
  <2>1. i + 1 \in 1 .. Len(pending) /\ 1 \in 1 .. Len(pending) /\ i + 1 # 1
    BY <1>1
  <2> QED
    BY <1>1, <2>1 DEF Listed, NoDuplicates
<1>4. Listed \ {Head(pending)} \subseteq Listed'
  <2> SUFFICES ASSUME NEW i \in 1 .. Len(pending), pending[i] # Head(pending)
               PROVE  pending[i] \in Listed'
    BY DEF Listed
  <2>1. i # 1
    BY <1>1
  <2>2. i - 1 \in 1 .. Len(pending')
    BY <1>1, <2>1
  <2>3. pending'[i - 1] = pending[(i - 1) + 1] /\ (i - 1) + 1 = i
    BY <1>1, <2>2
  <2> QED
    BY <2>2, <2>3 DEF Listed
<1>5. Head(pending) \in Listed
  BY <1>1 DEF Listed
<1> QED
  BY <1>1, <1>2, <1>3, <1>4, <1>5

---------------------------------------------------------------------------
(* Facts about the state.                                                  *)

\* What the invariant says of a job, wherever it is.
LEMMA JobFacts ==
    ASSUME JobInv, NEW j \in Jobs
    PROVE  /\ data[j] \in Envelope /\ runs[j] \in Nat /\ runs[j] <= MaxAttempts
           /\ data[j].attempts \in Nat
           /\ data[j].status \in Unfinished => data[j].attempts < MaxAttempts
           /\ MaxAttempts \in Nat /\ MaxAttempts > 0
<1>1. data[j] \in Envelope /\ runs[j] \in Nat /\ runs[j] <= MaxAttempts
  BY DEF JobInv, TypeOK, RunsBounded
<1>2. MaxAttempts \in Nat /\ MaxAttempts > 0
  BY AttemptsAssumption
<1>3. CASE data[j] \in [attempts : 0 .. MaxAttempts - 1, status : Unfinished \cup {"none"}]
  BY <1>1, <1>2, <1>3
<1>4. CASE data[j] \in [attempts : {MaxAttempts}, status : {"failed"}]
  BY <1>1, <1>2, <1>4 DEF Unfinished
<1> QED
  BY <1>1, <1>2, <1>3, <1>4 DEF Envelope

\* The envelopes that are written.
LEMMA EnvelopeType ==
    /\ NoEnvelope \in Envelope
    /\ \A n \in Nat, s \in Unfinished :
           n < MaxAttempts => [attempts |-> n, status |-> s] \in Envelope
    /\ \A s \in Unfinished : [attempts |-> 0, status |-> s] \in Envelope
    /\ [attempts |-> MaxAttempts, status |-> "failed"] \in Envelope
<1>1. MaxAttempts \in Nat /\ MaxAttempts > 0
  BY AttemptsAssumption
<1>2. ASSUME NEW n \in Nat, NEW s \in Unfinished \cup {"none"}, n < MaxAttempts
      PROVE  [attempts |-> n, status |-> s] \in Envelope
  <2>1. n \in 0 .. MaxAttempts - 1
    BY <1>1, <1>2
  <2> QED
    BY <2>1 DEF Envelope
<1>3. NoEnvelope \in Envelope
  BY <1>1, <1>2 DEF NoEnvelope
<1>4. [attempts |-> MaxAttempts, status |-> "failed"] \in Envelope
  BY DEF Envelope
<1>5. \A s \in Unfinished : [attempts |-> 0, status |-> s] \in Envelope
  <2>1. 0 \in Nat /\ 0 < MaxAttempts
    BY <1>1
  <2> QED
    BY <1>2, <2>1
<1> QED
  BY <1>2, <1>3, <1>4, <1>5

\* The fields of a tick.
LEMMA TickFields ==
    ASSUME NEW r \in Tick, NEW p, NEW d
    PROVE  /\ [r EXCEPT !.pc = p] = [pc |-> p, due |-> r.due, job |-> r.job]
           /\ [r EXCEPT !.due = d] = [pc |-> r.pc, due |-> d, job |-> r.job]
           /\ [r EXCEPT !.pc = p, !.due = d] = [pc |-> p, due |-> d, job |-> r.job]
<1>1. /\ [r EXCEPT !.pc = p] = [pc |-> p, due |-> r.due, job |-> r.job]
      /\ [r EXCEPT !.due = d] = [pc |-> r.pc, due |-> d, job |-> r.job]
  BY DEF Tick
<1>2. ASSUME NEW q, q = [pc |-> p, due |-> r.due, job |-> r.job]
      PROVE  [q EXCEPT !.due = d] = [pc |-> p, due |-> d, job |-> r.job]
  BY <1>2
<1> QED
  BY <1>1, <1>2

LEMMA TickTaken ==
    ASSUME NEW r \in Tick, NEW p, NEW j
    PROVE  [r EXCEPT !.pc = p, !.due = @ \ {j}, !.job = j]
              = [pc |-> p, due |-> r.due \ {j}, job |-> j]
<1>1. ASSUME NEW d
      PROVE  [r EXCEPT !.pc = p, !.due = d] = [pc |-> p, due |-> d, job |-> r.job]
  BY TickFields
<1>2. ASSUME NEW q, NEW d, q = [pc |-> p, due |-> d, job |-> r.job]
      PROVE  [q EXCEPT !.job = j] = [pc |-> p, due |-> d, job |-> j]
  BY <1>2
<1>3. ASSUME NEW d
      PROVE  [r EXCEPT !.pc = p, !.due = d, !.job = j] = [pc |-> p, due |-> d, job |-> j]
  BY <1>1, <1>2
<1> QED
  BY <1>3 DEF Tick

LEMMA TickJob ==
    ASSUME NEW r \in Tick, NEW p, NEW j
    PROVE  [r EXCEPT !.pc = p, !.job = j] = [pc |-> p, due |-> r.due, job |-> j]
<1>1. [r EXCEPT !.pc = p] = [pc |-> p, due |-> r.due, job |-> r.job]
  BY TickFields
<1>2. ASSUME NEW q, q = [pc |-> p, due |-> r.due, job |-> r.job]
      PROVE  [q EXCEPT !.job = j] = [pc |-> p, due |-> r.due, job |-> j]
  BY <1>2
<1> QED
  BY <1>1, <1>2

LEMMA TickType ==
    ASSUME NEW d \in SUBSET Jobs, NEW j \in Jobs \cup {NoJob},
           NEW p \in {"idle", "promote", "requeue", "run", "complete", "fail"}
    PROVE  [pc |-> p, due |-> d, job |-> j] \in Tick
BY DEF Tick

\* A tick that is about nothing.
LEMMA IdleTickType ==
    /\ IdleTick \in Tick /\ IdleTick.pc = "idle" /\ IdleTick.job = NoJob
    /\ [t \in Ticks |-> IdleTick] \in [Ticks -> Tick]
<1>1. IdleTick \in Tick /\ IdleTick.pc = "idle" /\ IdleTick.job = NoJob
  BY DEF IdleTick, Tick
<1> QED
  BY <1>1

\* A job in the hand of a tick is in no other place.
LEMMA HeldJob ==
    ASSUME JobInv, NEW t \in Ticks, tick[t].pc \notin {"idle", "promote"}
    PROVE  /\ Job(t) \in Jobs /\ Job(t) # NoJob /\ Job(t) \in Held /\ Job(t) \in Live
           /\ Job(t) \notin Listed /\ Job(t) \notin DOMAIN delayed /\ Job(t) \notin dead
           /\ \A u \in Ticks : u # t => Job(u) # Job(t)
           /\ data[Job(t)].status \in Unfinished
<1>1. tick[t] \in Tick
  BY DEF JobInv, TypeOK
<1>2. Job(t) # NoJob /\ Job(t) \in Jobs
  BY <1>1 DEF JobInv, TickHolds, Job, Tick
<1>3. Job(t) \in Held
  BY <1>2 DEF Held, Job
<1>4. Job(t) \in Live
  BY <1>3 DEF Live
<1> QED
  BY <1>2, <1>3, <1>4 DEF JobInv, Apart, OneTick, CallsCounted

\* A fresh id is in none.
LEMMA FreshJob ==
    ASSUME NEW ids \in SUBSET Jobs, NEW j \in Fresh(ids)
    PROVE  /\ j \in ids /\ j \in Jobs /\ j \notin Live /\ j \notin dead
           /\ j \notin Listed /\ j \notin DOMAIN delayed /\ j \notin Held
BY DEF Fresh, Live

\* One tick changes what it is about: it keeps its job, drops it, or takes one
\* that no tick has.
LEMMA TickEdit ==
    ASSUME JobInv, NEW t \in Ticks, NEW w \in Tick, tick' = [tick EXCEPT ![t] = w],
           w.pc \in {"idle", "promote"} <=> w.job = NoJob,
           w.job \in {NoJob, Job(t)} \/ w.job \notin Held
    PROVE  /\ tick' \in [Ticks -> Tick] /\ TickHolds' /\ OneTick'
           /\ tick'[t] = w /\ \A u \in Ticks : u # t => tick'[u] = tick[u]
           /\ Held' \subseteq (Held \ {Job(t)}) \cup ({w.job} \ {NoJob})
<1>1. tick \in [Ticks -> Tick]
  BY DEF JobInv, TypeOK
<1>2. tick' \in [Ticks -> Tick] /\ tick'[t] = w /\ \A u \in Ticks : u # t => tick'[u] = tick[u]
  BY <1>1
<1>3. TickHolds'
  BY <1>2 DEF JobInv, TickHolds, Job
<1>4. OneTick'
  BY <1>2 DEF JobInv, OneTick, Job, Held
<1>5. Held' \subseteq (Held \ {Job(t)}) \cup ({w.job} \ {NoJob})
  <2> SUFFICES ASSUME NEW u \in Ticks, tick'[u].job # NoJob, tick'[u].job # w.job
               PROVE  tick'[u].job \in Held \ {Job(t)}
    BY DEF Held
  <2>1. u # t /\ tick'[u] = tick[u]
    BY <1>2
  <2> QED
    BY <2>1 DEF JobInv, OneTick, Job, Held
<1> QED
  BY <1>2, <1>3, <1>4, <1>5

---------------------------------------------------------------------------
(* The invariant holds of each kind of step.                               *)

\* Nothing is there before the first boot.
LEMMA FirstState == Init => JobInv
<1> SUFFICES ASSUME Init PROVE JobInv
  OBVIOUS
<1>1. Listed = {} /\ DOMAIN delayed = {} /\ Held = {} /\ dead = {}
  BY DEF Init, Listed, Held, IdleTick
<1>2. TypeOK
  <2>1. data \in [Jobs -> Envelope]
    BY EnvelopeType DEF Init
  <2>2. tick \in [Ticks -> Tick]
    BY IdleTickType DEF Init
  <2>3. runs \in [Jobs -> Nat] /\ errors \in 0 .. MaxErrors /\ faults \in 0 .. MaxFaults
    BY BoundsAssumption DEF Init
  <2>4. pending \in Seq(Jobs) /\ dead \subseteq Jobs /\ up \in BOOLEAN
    <3>1. pending \in Seq(Jobs)
      BY DEF Init
    <3>2. dead \subseteq Jobs
      BY DEF Init
    <3>3. up \in BOOLEAN
      BY DEF Init
    <3> QED
      BY <3>1, <3>2, <3>3
  <2>5. DOMAIN delayed \subseteq Jobs /\ \A j \in DOMAIN delayed : delayed[j] \in {"waiting", "due"}
    BY <1>1
  <2> QED
    BY <2>1, <2>2, <2>3, <2>4, <2>5 DEF TypeOK
<1>3. NoDuplicates /\ OneTick /\ TickHolds /\ RunsBounded
  BY AttemptsAssumption DEF Init, NoDuplicates, OneTick, TickHolds, Job, IdleTick, RunsBounded
<1>4. Apart /\ CallsCounted
  BY <1>1 DEF Init, Apart, CallsCounted, Live, Job, IdleTick
<1> QED
  BY <1>2, <1>3, <1>4 DEF JobInv

\* The step of the event: stored and at the end of the list.
LEMMA PublishStep ==
    ASSUME JobInv, Publish
    PROVE  JobInv'
<1> DEFINE j == NewEvent
<1>1. /\ j \in Fresh(EventJobs) /\ data' = [data EXCEPT ![j] = [attempts |-> 0, status |-> "queued"]]
      /\ pending' = Append(pending, j) /\ runs' = [runs EXCEPT ![j] = 0]
      /\ UNCHANGED <<delayed, dead, tick, up, errors, faults>>
  BY DEF Publish, Saved, NewEvent
<1> HIDE DEF j
<1>2. /\ j \in Jobs /\ j \notin Live /\ j \notin dead
      /\ j \notin Listed /\ j \notin DOMAIN delayed /\ j \notin Held
  BY <1>1, FreshJob DEF Jobs
<1>3. pending' \in Seq(Jobs) /\ NoDuplicates' /\ Listed' = Listed \cup {j}
  BY <1>1, <1>2, PushBack DEF JobInv, TypeOK
<1>4. [attempts |-> 0, status |-> "queued"] \in Envelope
  <2>1. "queued" \in Unfinished
    BY DEF Unfinished
  <2> QED
    BY <2>1, EnvelopeType
<1>5. data \in [Jobs -> Envelope] /\ runs \in [Jobs -> Nat]
  BY DEF JobInv, TypeOK
<1>6. TypeOK'
  BY <1>1, <1>3, <1>4, <1>5 DEF JobInv, TypeOK
<1>7. OneTick' /\ TickHolds' /\ Held' = Held
  BY <1>1 DEF JobInv, OneTick, TickHolds, Job, Held
<1>8. Apart'
  BY <1>1, <1>2, <1>3, <1>7 DEF JobInv, Apart, Live
<1>9. RunsBounded'
  BY <1>1, <1>5, AttemptsAssumption DEF JobInv, RunsBounded
<1>10. CallsCounted'
  <2>1. \A i \in Live' : data'[i].status \in Unfinished
    BY <1>1, <1>2, <1>3, <1>5, <1>7 DEF JobInv, CallsCounted, Live, Unfinished, TypeOK
  <2>2. \A i \in Listed' \cup DOMAIN delayed' : runs'[i] = data'[i].attempts
    BY <1>1, <1>2, <1>3, <1>5 DEF JobInv, CallsCounted, TypeOK
  <2>3. \A t \in Ticks : Job(t) # NoJob => Job(t) # j /\ Job(t) \in Jobs
    BY <1>2 DEF Held, Job, JobInv, TypeOK, Tick
  <2>4. \A t \in Ticks : Job(t)' # NoJob =>
           runs'[Job(t)'] = IF tick'[t].pc \in {"complete", "fail"}
                            THEN data'[Job(t)'].attempts + 1 ELSE data'[Job(t)'].attempts
    BY <1>1, <1>2, <1>5, <2>3 DEF JobInv, CallsCounted, Job
  <2> QED
    BY <2>1, <2>2, <2>4 DEF CallsCounted
<1> QED
  BY <1>3, <1>6, <1>7, <1>8, <1>9, <1>10 DEF JobInv

\* The successor of a scan, or the first scan of a boot: stored and delayed.
LEMMA Scheduled ==
    ASSUME JobInv, EnqueueScan
    PROVE  /\ NewScan \in ScanJobs /\ NewScan \in Jobs /\ NewScan \notin Live
           /\ NewScan \notin dead /\ NewScan \notin Held
           /\ data' \in [Jobs -> Envelope]
           /\ data'[NewScan].attempts = 0 /\ data'[NewScan].status = "retrying"
           /\ \A k \in Jobs : k # NewScan => data'[k] = data[k]
           /\ DOMAIN delayed' = DOMAIN delayed \cup {NewScan}
           /\ \A k \in DOMAIN delayed' : delayed'[k] \in {"waiting", "due"}
           /\ UNCHANGED <<pending, dead>> /\ Listed' = Listed
<1> DEFINE j == NewScan
<1>1. /\ j \in Fresh(ScanJobs) /\ data' = [data EXCEPT ![j] = [attempts |-> 0, status |-> "retrying"]]
      /\ delayed' = Delay(j) /\ UNCHANGED <<pending, dead>>
  BY DEF EnqueueScan, Saved, NewScan
<1> HIDE DEF j
<1>2. /\ j \in ScanJobs /\ j \in Jobs /\ j \notin Live /\ j \notin dead /\ j \notin Held
  BY <1>1, FreshJob DEF Jobs
<1>3. [attempts |-> 0, status |-> "retrying"] \in Envelope
  <2>1. "retrying" \in Unfinished
    BY DEF Unfinished
  <2> QED
    BY <2>1, EnvelopeType
<1>4. data \in [Jobs -> Envelope] /\ \A k \in DOMAIN delayed : delayed[k] \in {"waiting", "due"}
  BY DEF JobInv, TypeOK
<1>5. /\ data' \in [Jobs -> Envelope]
      /\ data'[j].attempts = 0 /\ data'[j].status = "retrying"
      /\ \A k \in Jobs : k # j => data'[k] = data[k]
  BY <1>1, <1>2, <1>3, <1>4
<1>6. /\ DOMAIN delayed' = DOMAIN delayed \cup {j}
      /\ \A k \in DOMAIN delayed' : delayed'[k] \in {"waiting", "due"}
  BY <1>1, <1>4 DEF Delay
<1>7. Listed' = Listed
  BY <1>1 DEF Listed
<1> QED
  BY <1>1, <1>2, <1>5, <1>6, <1>7 DEF j

\* The first scan of a boot.
LEMMA BootStep ==
    ASSUME JobInv, Boot
    PROVE  JobInv'
<1> DEFINE j == NewScan
<1>1. /\ EnqueueScan /\ up' = TRUE /\ runs' = [runs EXCEPT ![j] = 0]
      /\ UNCHANGED <<tick, errors, faults>>
  BY DEF Boot
<1>2. /\ j \in Jobs /\ j \notin Live /\ j \notin dead /\ j \notin Held
      /\ data' \in [Jobs -> Envelope]
      /\ data'[j].attempts = 0 /\ data'[j].status = "retrying"
      /\ \A k \in Jobs : k # j => data'[k] = data[k]
      /\ DOMAIN delayed' = DOMAIN delayed \cup {j}
      /\ \A k \in DOMAIN delayed' : delayed'[k] \in {"waiting", "due"}
      /\ UNCHANGED <<pending, dead>> /\ Listed' = Listed
  BY <1>1, Scheduled
<1> HIDE DEF j
<1>3. runs \in [Jobs -> Nat] /\ Listed \subseteq Jobs /\ DOMAIN delayed \subseteq Jobs
  BY DEF JobInv, TypeOK, Listed
<1>4. TypeOK'
  BY <1>1, <1>2, <1>3 DEF JobInv, TypeOK
<1>5. NoDuplicates' /\ OneTick' /\ TickHolds' /\ Held' = Held
  BY <1>1, <1>2 DEF JobInv, NoDuplicates, OneTick, TickHolds, Job, Held
<1>6. Apart'
  BY <1>2, <1>5 DEF JobInv, Apart, Live
<1>7. RunsBounded'
  BY <1>1, <1>3, AttemptsAssumption DEF JobInv, RunsBounded
<1>8. CallsCounted'
  <2>1. \A t \in Ticks : Job(t) # NoJob => Job(t) # j /\ Job(t) \in Jobs
    BY <1>2 DEF Held, Job, JobInv, TypeOK, Tick
  <2>2. Held \subseteq Jobs /\ Live \subseteq Jobs
    BY <1>3, <2>1 DEF Held, Job, Live
  <2>3. \A i \in Live' : data'[i].status \in Unfinished
    BY <1>2, <1>5, <2>2 DEF JobInv, CallsCounted, Live, Unfinished
  <2>4. \A i \in Listed' \cup DOMAIN delayed' : runs'[i] = data'[i].attempts
    BY <1>1, <1>2, <1>3 DEF JobInv, CallsCounted, Live
  <2>5. \A t \in Ticks : Job(t)' # NoJob =>
           runs'[Job(t)'] = IF tick'[t].pc \in {"complete", "fail"}
                            THEN data'[Job(t)'].attempts + 1 ELSE data'[Job(t)'].attempts
    BY <1>1, <1>2, <1>3, <2>1 DEF JobInv, CallsCounted, Job
  <2> QED
    BY <2>3, <2>4, <2>5 DEF CallsCounted
<1> QED
  BY <1>4, <1>5, <1>6, <1>7, <1>8 DEF JobInv

\* A crash, and a delay that elapses.
LEMMA CrashStep ==
    ASSUME JobInv, Crash \/ \E j \in Jobs : Elapse(j)
    PROVE  JobInv'
<1>1. CASE Crash
  <2>1. /\ tick' = [t \in Ticks |-> IdleTick] /\ up' = FALSE
        /\ faults < MaxFaults /\ faults' = faults + 1
        /\ UNCHANGED <<data, pending, delayed, dead, runs, errors>>
    BY <1>1 DEF Crash, Fault, redisVars
  <2>2. Held' = {} /\ Listed' = Listed
    BY <2>1 DEF Held, IdleTick, Listed
  <2>3. TypeOK'
    <3>1. faults' \in 0 .. MaxFaults
      BY <2>1, BoundsAssumption DEF JobInv, TypeOK
    <3> QED
      BY <2>1, <3>1, IdleTickType DEF JobInv, TypeOK
  <2>4. NoDuplicates' /\ OneTick' /\ TickHolds' /\ RunsBounded'
    BY <2>1 DEF JobInv, NoDuplicates, OneTick, TickHolds, Job, IdleTick, RunsBounded
  <2>5. Apart' /\ CallsCounted'
    BY <2>1, <2>2 DEF JobInv, Apart, CallsCounted, Live, Job, IdleTick
  <2> QED
    BY <2>3, <2>4, <2>5 DEF JobInv
<1>2. ASSUME NEW j \in Jobs, Elapse(j) PROVE JobInv'
  <2>1. /\ delayed' = [delayed EXCEPT ![j] = "due"]
        /\ UNCHANGED <<data, pending, dead, tick, up, runs, errors, faults>>
    BY <1>2 DEF Elapse
  <2>2. DOMAIN delayed' = DOMAIN delayed /\ Listed' = Listed /\ Held' = Held /\ Live' = Live
    BY <2>1 DEF Listed, Held, Live
  <2>3. TypeOK'
    BY <2>1 DEF JobInv, TypeOK
  <2>4. NoDuplicates' /\ OneTick' /\ TickHolds' /\ RunsBounded'
    BY <2>1 DEF JobInv, NoDuplicates, OneTick, TickHolds, Job, RunsBounded
  <2>5. Apart' /\ CallsCounted'
    BY <2>1, <2>2 DEF JobInv, Apart, CallsCounted, Job
  <2> QED
    BY <2>3, <2>4, <2>5 DEF JobInv
<1> QED
  BY <1>1, <1>2

---------------------------------------------------------------------------
(* The steps of a tick.  Tick t becomes w; only the jobs of S are written. *)

Becomes(t, w) ==
    /\ w \in Tick /\ tick' = [tick EXCEPT ![t] = w]
    /\ w.pc \in {"idle", "promote"} <=> w.job = NoJob
    /\ w.job \in {NoJob, Job(t)} \/ w.job \notin Held

Writes(t, S) ==
    /\ S \subseteq Jobs
    /\ \A k \in Jobs \ S : data'[k] = data[k] /\ runs'[k] = runs[k]
    /\ \A k \in S : runs'[k] <= MaxAttempts
    /\ \A u \in Ticks : u # t => Job(u) \notin S

\* What is stored keeps its type.
Stores ==
    /\ data' \in [Jobs -> Envelope] /\ runs' \in [Jobs -> Nat]
    /\ pending' \in Seq(Jobs) /\ NoDuplicates'
    /\ (DOMAIN delayed)' \subseteq Jobs
    /\ \A k \in (DOMAIN delayed)' : delayed'[k] \in {"waiting", "due"}
    /\ dead' \subseteq Jobs /\ up' \in BOOLEAN
    /\ errors' \in 0 .. MaxErrors /\ faults' \in 0 .. MaxFaults

\* A job that comes into a list was in no other hand and is counted right.
Places(t, w, S) ==
    /\ \A k \in Listed' \cup (DOMAIN delayed)' :
          /\ k # w.job /\ k \notin dead'
          /\ \/ k \in (Listed \cup DOMAIN delayed) \ S
             \/ /\ k \notin Held \ {Job(t)}
                /\ data'[k].status \in Unfinished /\ runs'[k] = data'[k].attempts
    /\ Listed' \cap (DOMAIN delayed)' = {}
    /\ \A k \in dead' : k # w.job /\ (k \in dead \/ k \notin Held \ {Job(t)})
    /\ w.job # NoJob =>
          /\ data'[w.job].status \in Unfinished
          /\ runs'[w.job] = IF w.pc \in {"complete", "fail"}
                            THEN data'[w.job].attempts + 1 ELSE data'[w.job].attempts

LEMMA TickStep ==
    ASSUME JobInv, NEW t \in Ticks, NEW w, NEW S,
           Becomes(t, w), Writes(t, S), Stores, Places(t, w, S)
    PROVE  JobInv'
<1>1. /\ tick' \in [Ticks -> Tick] /\ TickHolds' /\ OneTick'
      /\ tick'[t] = w /\ \A u \in Ticks : u # t => tick'[u] = tick[u]
      /\ Held' \subseteq (Held \ {Job(t)}) \cup ({w.job} \ {NoJob})
  BY TickEdit DEF Becomes
<1>2. TypeOK' /\ NoDuplicates'
  BY <1>1 DEF Stores, TypeOK
<1>3. RunsBounded'
  BY DEF JobInv, RunsBounded, Writes
<1>4. Listed \subseteq Jobs /\ DOMAIN delayed \subseteq Jobs
  BY DEF JobInv, TypeOK, Listed
<1>5. \A u \in Ticks : Job(u) # NoJob => Job(u) \in Jobs /\ Job(u) \in Held
  BY DEF JobInv, TypeOK, Tick, Job, Held
<1>6. Held \subseteq Jobs /\ \A k \in Held \ {Job(t)} : k \notin S
  BY <1>5 DEF Held, Job, Writes
<1>7. Apart'
  <2>1. \A k \in Listed' \cup (DOMAIN delayed)' : k \notin Held'
    BY <1>1 DEF Places, JobInv, Apart
  <2>2. \A k \in dead' : k \notin Held'
    BY <1>1 DEF Places, JobInv, Apart, Live
  <2> QED
    BY <2>1, <2>2 DEF Apart, Live, Places
<1>8. \A k \in Listed' \cup (DOMAIN delayed)' :
         data'[k].status \in Unfinished /\ runs'[k] = data'[k].attempts
  BY <1>4 DEF Places, Writes, JobInv, CallsCounted, Live
<1>9. \A k \in Held' : data'[k].status \in Unfinished
  <2>1. \A k \in Held \ {Job(t)} : data'[k] = data[k] /\ data[k].status \in Unfinished
    BY <1>6 DEF Writes, JobInv, CallsCounted, Live
  <2> QED
    BY <1>1, <2>1 DEF Places
<1>10. ASSUME NEW u \in Ticks, Job(u)' # NoJob
       PROVE  runs'[Job(u)'] = IF tick'[u].pc \in {"complete", "fail"}
                               THEN data'[Job(u)'].attempts + 1 ELSE data'[Job(u)'].attempts
  <2>1. CASE u = t
    BY <1>1, <1>10, <2>1 DEF Places, Job
  <2>2. CASE u # t
    <3>1. tick'[u] = tick[u] /\ Job(u)' = Job(u)
      BY <1>1, <2>2 DEF Job
    <3>2. data'[Job(u)] = data[Job(u)] /\ runs'[Job(u)] = runs[Job(u)]
      BY <1>5, <1>10, <2>2, <3>1 DEF Writes
    <3> QED
      BY <1>10, <3>1, <3>2 DEF JobInv, CallsCounted
  <2> QED
    BY <2>1, <2>2
<1>11. CallsCounted'
  BY <1>8, <1>9, <1>10 DEF CallsCounted, Live
<1> QED
  BY <1>1, <1>2, <1>3, <1>7, <1>11 DEF JobInv

\* Nothing that is stored is written.
LEMMA Untouched ==
    ASSUME JobInv, NEW t \in Ticks, UNCHANGED redisVars, UNCHANGED runs,
           up' \in BOOLEAN, errors' \in 0 .. MaxErrors, faults' \in 0 .. MaxFaults
    PROVE  /\ Stores /\ Writes(t, {}) /\ Listed' = Listed /\ (DOMAIN delayed)' = DOMAIN delayed
           /\ UNCHANGED <<data, dead, runs>>
<1>1. UNCHANGED <<data, pending, delayed, dead, runs>>
  BY DEF redisVars
<1>2. Stores
  BY <1>1 DEF Stores, JobInv, TypeOK, NoDuplicates
<1>3. Writes(t, {})
  BY <1>1 DEF Writes
<1> QED
  BY <1>1, <1>2, <1>3 DEF Listed

\* The interval fires.
LEMMA BeginStep ==
    ASSUME JobInv, NEW t \in Ticks, Begin(t)
    PROVE  JobInv'
<1> DEFINE due == {j \in DOMAIN delayed : delayed[j] = "due"}
           w == [pc |-> "promote", due |-> due, job |-> tick[t].job]
<1>1. /\ tick[t].pc = "idle" /\ UNCHANGED redisVars /\ UNCHANGED runs
      /\ up' = up /\ errors' = errors /\ faults' = faults
      /\ tick' = [tick EXCEPT ![t].pc = "promote", ![t].due = due]
  BY DEF Begin
<1>2. tick \in [Ticks -> Tick] /\ tick[t] \in Tick /\ due \subseteq Jobs
  BY DEF JobInv, TypeOK
<1>3. tick[t].job = NoJob
  BY <1>1 DEF JobInv, TickHolds, Job
<1>4. w \in Tick /\ tick' = [tick EXCEPT ![t] = w]
  <2>1. w \in Tick
    BY <1>2, <1>3, TickType
  <2> HIDE DEF due
  <2>2. tick' = [tick EXCEPT ![t] = [tick[t] EXCEPT !.pc = "promote", !.due = due]]
    BY <1>1, <1>2
  <2>3. [tick[t] EXCEPT !.pc = "promote", !.due = due] = w
    BY <1>2, TickFields
  <2> QED
    BY <2>1, <2>2, <2>3
<1>5. Becomes(t, w)
  BY <1>3, <1>4 DEF Becomes
<1> HIDE DEF w
<1>6. /\ Stores /\ Writes(t, {}) /\ Listed' = Listed /\ (DOMAIN delayed)' = DOMAIN delayed
      /\ UNCHANGED <<data, dead, runs>>
  BY <1>1, Untouched DEF JobInv, TypeOK
<1>7. w.job = NoJob /\ NoJob \notin Listed \cup DOMAIN delayed \cup dead
  BY <1>3, JobsAssumption DEF w, JobInv, TypeOK, Listed
<1>8. Places(t, w, {})
  BY <1>6, <1>7 DEF Places, JobInv, Apart, CallsCounted, Live
<1> QED
  BY <1>5, <1>6, <1>8, TickStep

\* A tick gives its job up, or never had one.
LEMMA DropStep ==
    ASSUME JobInv, NEW t \in Ticks, Drop(t), UNCHANGED redisVars, UNCHANGED runs,
           up' \in BOOLEAN, errors' \in 0 .. MaxErrors, faults' \in 0 .. MaxFaults
    PROVE  JobInv'
<1>1. /\ Stores /\ Writes(t, {}) /\ Listed' = Listed /\ (DOMAIN delayed)' = DOMAIN delayed
      /\ UNCHANGED <<data, dead, runs>>
  BY Untouched
<1>2. Becomes(t, IdleTick)
  BY IdleTickType DEF Becomes, Drop
<1>3. NoJob \notin Listed \cup DOMAIN delayed \cup dead
  BY JobsAssumption DEF JobInv, TypeOK, Listed
<1>4. Places(t, IdleTick, {})
  BY <1>1, <1>3, IdleTickType DEF Places, JobInv, Apart, CallsCounted, Live
<1> QED
  BY <1>1, <1>2, <1>4, TickStep

\* A job is taken out of the sorted set, or another tick was first.
LEMMA PromoteStep ==
    ASSUME JobInv, NEW t \in Ticks, NEW j \in Jobs, Promote(t, j)
    PROVE  JobInv'
<1> DEFINE due == tick[t].due \ {j}
           w == [pc |-> "requeue", due |-> due, job |-> j]
           v == [pc |-> "promote", due |-> due, job |-> tick[t].job]
<1>1. /\ tick[t].pc = "promote" /\ UNCHANGED <<data, pending, dead, up, runs, errors, faults>>
  BY DEF Promote
<1>2. tick \in [Ticks -> Tick] /\ tick[t] \in Tick /\ due \subseteq Jobs
  BY DEF JobInv, TypeOK, Tick
<1>3. tick[t].job = NoJob
  BY <1>1 DEF JobInv, TickHolds, Job
<1>4. NoJob \notin Listed \cup DOMAIN delayed \cup dead /\ j # NoJob
  BY JobsAssumption DEF JobInv, TypeOK, Listed
<1>5. CASE j \in DOMAIN delayed
  <2>1. /\ delayed' = Undelay(j)
        /\ tick' = [tick EXCEPT ![t].pc = "requeue", ![t].due = @ \ {j}, ![t].job = j]
    BY <1>5 DEF Promote
  <2>2. w \in Tick /\ tick' = [tick EXCEPT ![t] = w]
    <3>1. w \in Tick
      BY <1>2, TickType
    <3>2. tick' = [tick EXCEPT ![t] = [tick[t] EXCEPT !.pc = "requeue", !.due = @ \ {j}, !.job = j]]
      BY <1>2, <2>1
    <3>3. [tick[t] EXCEPT !.pc = "requeue", !.due = @ \ {j}, !.job = j] = w
      BY <1>2, TickTaken
    <3> QED
      BY <3>1, <3>2, <3>3
  <2>3. j \notin Held /\ j \notin Listed /\ j \notin dead
    BY <1>5 DEF JobInv, Apart, Live
  <2>4. w.pc = "requeue" /\ w.job = j
    OBVIOUS
  <2> HIDE DEF w
  <2>5. Becomes(t, w)
    BY <1>4, <2>2, <2>3, <2>4 DEF Becomes
  <2>6. /\ (DOMAIN delayed)' = DOMAIN delayed \ {j} /\ Listed' = Listed
        /\ \A k \in (DOMAIN delayed)' : delayed'[k] \in {"waiting", "due"}
    BY <1>1, <2>1 DEF Undelay, JobInv, TypeOK, Listed
  <2>7. Stores
    BY <1>1, <2>6 DEF Stores, JobInv, TypeOK, NoDuplicates
  <2>8. Writes(t, {})
    BY <1>1 DEF Writes
  <2>9. data[j].status \in Unfinished /\ runs[j] = data[j].attempts
    BY <1>5 DEF JobInv, CallsCounted, Live
  <2>10. Places(t, w, {})
    BY <1>1, <2>3, <2>4, <2>6, <2>9 DEF Places, JobInv, Apart, CallsCounted, Live
  <2> QED
    BY <2>5, <2>7, <2>8, <2>10, TickStep
<1>6. CASE j \notin DOMAIN delayed
  <2>1. tick' = [tick EXCEPT ![t].due = @ \ {j}] /\ UNCHANGED delayed
    BY <1>6 DEF Promote
  <2>2. v \in Tick /\ tick' = [tick EXCEPT ![t] = v]
    <3>1. v \in Tick
      BY <1>2, <1>3, TickType
    <3>2. [tick[t] EXCEPT !.due = due] = v
      BY <1>1, <1>2, TickFields
    <3>3. tick' = [tick EXCEPT ![t] = [tick[t] EXCEPT !.due = due]]
      BY <1>2, <2>1
    <3> QED
      BY <3>1, <3>2, <3>3
  <2>3. Becomes(t, v)
    BY <1>3, <2>2 DEF Becomes
  <2>4. v.job = NoJob
    BY <1>3
  <2> HIDE DEF v
  <2>5. /\ Stores /\ Writes(t, {}) /\ Listed' = Listed /\ (DOMAIN delayed)' = DOMAIN delayed
        /\ UNCHANGED <<data, dead, runs>>
    BY <1>1, <2>1, Untouched DEF JobInv, TypeOK, redisVars
  <2>6. Places(t, v, {})
    BY <1>4, <2>4, <2>5 DEF Places, JobInv, Apart, CallsCounted, Live
  <2> QED
    BY <2>3, <2>5, <2>6, TickStep
<1> QED
  BY <1>5, <1>6

\* The status of an envelope changes, its attempts stay.
LEMMA StatusChange ==
    ASSUME JobInv, NEW j \in Jobs, NEW s \in Unfinished, data[j].status \in Unfinished,
           data' = [data EXCEPT ![j].status = s]
    PROVE  /\ data' \in [Jobs -> Envelope]
           /\ data'[j].status = s /\ data'[j].attempts = data[j].attempts
           /\ \A k \in Jobs : k # j => data'[k] = data[k]
<1>1. data \in [Jobs -> Envelope] /\ data[j].attempts \in Nat /\ data[j].attempts < MaxAttempts
  BY JobFacts DEF JobInv, TypeOK
<1>2. data[j] \in [attempts : 0 .. MaxAttempts, status : Unfinished \cup {"none", "failed"}]
  BY <1>1, AttemptsAssumption DEF Envelope
<1>3. [data[j] EXCEPT !.status = s] = [attempts |-> data[j].attempts, status |-> s]
  BY <1>2
<1>4. [attempts |-> data[j].attempts, status |-> s] \in Envelope
  BY <1>1, EnvelopeType
<1>5. data' = [data EXCEPT ![j] = [attempts |-> data[j].attempts, status |-> s]]
  BY <1>1, <1>3
<1> QED
  BY <1>1, <1>4, <1>5

\* The due job goes to the end of the list.
LEMMA RequeueStep ==
    ASSUME JobInv, NEW t \in Ticks, Requeue(t)
    PROVE  JobInv'
<1> DEFINE j == Job(t)
           w == [pc |-> "promote", due |-> tick[t].due, job |-> NoJob]
<1>1. tick[t].pc = "requeue" /\ UNCHANGED <<delayed, dead, up, runs, errors, faults>>
  BY DEF Requeue
<1>2. /\ j \in Jobs /\ j # NoJob /\ j \in Held /\ j \in Live
      /\ j \notin Listed /\ j \notin DOMAIN delayed /\ j \notin dead
      /\ \A u \in Ticks : u # t => Job(u) # j
      /\ data[j].status \in Unfinished
  BY <1>1, HeldJob
<1>3. /\ data' = [data EXCEPT ![j].status = "queued"] /\ pending' = Append(pending, j)
      /\ tick' = [tick EXCEPT ![t].pc = "promote", ![t].job = NoJob]
  BY <1>2 DEF Requeue, Unfinished
<1>4. runs[j] = data[j].attempts
  BY <1>1, <1>2 DEF JobInv, CallsCounted
<1> HIDE DEF j
<1>5. tick \in [Ticks -> Tick] /\ tick[t] \in Tick
  BY DEF JobInv, TypeOK
<1>6. w \in Tick /\ tick' = [tick EXCEPT ![t] = w]
  <2>1. w \in Tick
    <3>1. tick[t].due \in SUBSET Jobs
      BY <1>5 DEF Tick
    <3> QED
      BY <3>1, TickType
  <2>2. [tick[t] EXCEPT !.pc = "promote", !.job = NoJob] = w
    BY <1>5, TickJob
  <2>3. tick' = [tick EXCEPT ![t] = [tick[t] EXCEPT !.pc = "promote", !.job = NoJob]]
    BY <1>3, <1>5
  <2> QED
    BY <2>1, <2>2, <2>3
<1>7. Becomes(t, w)
  BY <1>6 DEF Becomes
<1>8. w.job = NoJob
  OBVIOUS
<1> HIDE DEF w
<1>9. /\ data' \in [Jobs -> Envelope] /\ data'[j].status = "queued"
      /\ data'[j].attempts = data[j].attempts
      /\ \A k \in Jobs : k # j => data'[k] = data[k]
  BY <1>2, <1>3, StatusChange DEF Unfinished
<1>10. pending' \in Seq(Jobs) /\ NoDuplicates' /\ Listed' = Listed \cup {j}
  BY <1>2, <1>3, PushBack DEF JobInv, TypeOK
<1>11. Stores
  BY <1>1, <1>9, <1>10 DEF Stores, JobInv, TypeOK
<1>12. Writes(t, {j})
  BY <1>1, <1>2, <1>9 DEF Writes, JobInv, RunsBounded
<1>13. NoJob \notin Listed \cup DOMAIN delayed \cup dead
  BY JobsAssumption DEF JobInv, TypeOK, Listed
<1>14. j \notin Held \ {Job(t)} /\ data'[j].status \in Unfinished /\ runs'[j] = data'[j].attempts
  BY <1>1, <1>4, <1>9 DEF j, Unfinished
<1>15. Places(t, w, {j})
  BY <1>1, <1>2, <1>8, <1>10, <1>13, <1>14 DEF Places, JobInv, Apart, Live
<1> QED
  BY <1>7, <1>11, <1>12, <1>15, TickStep

\* The head of the list.
LEMMA PopStep ==
    ASSUME JobInv, NEW t \in Ticks, Pop(t)
    PROVE  JobInv'
<1> DEFINE j == Head(pending)
           w == [pc |-> "run", due |-> tick[t].due, job |-> j]
<1>1. tick[t].pc = "promote" /\ UNCHANGED <<delayed, dead, up, runs, errors, faults>>
  BY DEF Pop
<1>2. CASE pending = <<>>
  <2>1. Drop(t) /\ UNCHANGED redisVars
    BY <1>1, <1>2 DEF Pop, redisVars
  <2> QED
    BY <1>1, <2>1, DropStep DEF JobInv, TypeOK
<1>3. CASE pending # <<>>
  <2>1. pending' = Tail(pending)
    BY <1>3 DEF Pop
  <2>2. /\ pending' \in Seq(Jobs) /\ NoDuplicates'
        /\ j \in Listed /\ j \in Jobs /\ Listed' = Listed \ {j}
    BY <1>3, <2>1, PopFront DEF JobInv, TypeOK
  <2>3. data[j].status \in Unfinished /\ runs[j] = data[j].attempts
    BY <2>2 DEF JobInv, CallsCounted, Live
  <2>4. /\ data' = [data EXCEPT ![j].status = "processing"]
        /\ tick' = [tick EXCEPT ![t].pc = "run", ![t].job = j]
    BY <1>3, <2>3 DEF Pop, Unfinished
  <2>5. j \notin Held /\ j \notin DOMAIN delayed /\ j \notin dead /\ j # NoJob
    BY <2>2, JobsAssumption DEF JobInv, Apart, Live
  <2> HIDE DEF j
  <2>6. tick \in [Ticks -> Tick] /\ tick[t] \in Tick
    BY DEF JobInv, TypeOK
  <2>7. w \in Tick /\ tick' = [tick EXCEPT ![t] = w]
    <3>1. w \in Tick
      <4>1. tick[t].due \in SUBSET Jobs
        BY <2>6 DEF Tick
      <4> QED
        BY <2>2, <4>1, TickType
    <3>2. [tick[t] EXCEPT !.pc = "run", !.job = j] = w
      BY <2>6, TickJob
    <3>3. tick' = [tick EXCEPT ![t] = [tick[t] EXCEPT !.pc = "run", !.job = j]]
      BY <2>4, <2>6
    <3> QED
      BY <3>1, <3>2, <3>3
  <2>8. w.job = j /\ w.pc = "run"
    OBVIOUS
  <2> HIDE DEF w
  <2>9. Becomes(t, w)
    BY <2>5, <2>7, <2>8 DEF Becomes
  <2>10. /\ data' \in [Jobs -> Envelope] /\ data'[j].status = "processing"
         /\ data'[j].attempts = data[j].attempts
         /\ \A k \in Jobs : k # j => data'[k] = data[k]
    BY <2>2, <2>3, <2>4, StatusChange DEF Unfinished
  <2>11. Stores
    BY <1>1, <2>2, <2>10 DEF Stores, JobInv, TypeOK
  <2>12. \A u \in Ticks : Job(u) # j
    BY <2>5 DEF Held, Job
  <2>13. Writes(t, {j})
    BY <1>1, <2>2, <2>10, <2>12 DEF Writes, JobInv, RunsBounded
  <2>14. Places(t, w, {j})
    BY <1>1, <2>2, <2>3, <2>5, <2>8, <2>10 DEF Places, JobInv, Apart, Live, Unfinished
  <2> QED
    BY <2>9, <2>11, <2>13, <2>14, TickStep
<1> QED
  BY <1>2, <1>3

\* The handler has been called: the tick goes on to complete or fail.
LEMMA HandlerEnds ==
    ASSUME JobInv, NEW t \in Ticks, tick[t].pc = "run",
           NEW p \in {"complete", "fail"}, tick' = [tick EXCEPT ![t].pc = p]
    PROVE  \E w : /\ Becomes(t, w) /\ w.job = Job(t) /\ w.pc = p
<1> DEFINE w == [pc |-> p, due |-> tick[t].due, job |-> tick[t].job]
<1>1. tick \in [Ticks -> Tick] /\ tick[t] \in Tick
  BY DEF JobInv, TypeOK
<1>2. tick[t].due \in SUBSET Jobs /\ tick[t].job \in Jobs \cup {NoJob} /\ tick[t].job # NoJob
  BY <1>1, HeldJob DEF Tick, Job
<1>3. w \in Tick
  BY <1>2, TickType
<1>4. tick' = [tick EXCEPT ![t] = w]
  <2>1. [tick[t] EXCEPT !.pc = p] = w
    BY <1>1, TickFields
  <2>2. tick' = [tick EXCEPT ![t] = [tick[t] EXCEPT !.pc = p]]
    BY <1>1
  <2> QED
    BY <2>1, <2>2
<1>5. w.job = Job(t) /\ w.pc = p
  BY DEF Job
<1> HIDE DEF w
<1>6. Becomes(t, w)
  BY <1>2, <1>3, <1>4, <1>5 DEF Becomes, Job
<1> QED
  BY <1>5, <1>6

\* What is the same in every call of a handler: one call more of the job,
\* one error more if it throws.
LEMMA HandlerCalled ==
    ASSUME JobInv, NEW t \in Ticks, tick[t].pc = "run", NEW j, j = Job(t)
    PROVE  /\ j \in Jobs /\ j # NoJob /\ j \in Held /\ j \in Live
           /\ j \notin Listed /\ j \notin DOMAIN delayed /\ j \notin dead
           /\ \A u \in Ticks : u # t => Job(u) # j
           /\ data[j].status \in Unfinished
           /\ runs[j] = data[j].attempts /\ runs[j] + 1 \in Nat /\ runs[j] + 1 <= MaxAttempts
<1>1. /\ j \in Jobs /\ j # NoJob /\ j \in Held /\ j \in Live
      /\ j \notin Listed /\ j \notin DOMAIN delayed /\ j \notin dead
      /\ \A u \in Ticks : u # t => Job(u) # j
      /\ data[j].status \in Unfinished
  BY HeldJob
<1>2. runs[j] = data[j].attempts
  BY <1>1 DEF JobInv, CallsCounted
<1>3. runs[j] + 1 \in Nat /\ runs[j] + 1 <= MaxAttempts
  BY <1>1, <1>2, JobFacts
<1> QED
  BY <1>1, <1>2, <1>3

\* The handler of an event, and the scan that cannot enqueue its successor.
LEMMA RunStep ==
    ASSUME JobInv, NEW t \in Ticks, RunEvent(t) \/ RunScanFault(t)
    PROVE  JobInv'
<1> DEFINE j == Job(t)
<1>1. /\ tick[t].pc = "run" /\ UNCHANGED <<data, pending, delayed, dead, up>>
      /\ runs' = [runs EXCEPT ![j] = @ + 1]
  BY DEF RunEvent, RunScanFault, redisVars
<1>2. errors' \in 0 .. MaxErrors /\ faults' \in 0 .. MaxFaults
  BY BoundsAssumption DEF RunEvent, RunScanFault, Ends, Fault, JobInv, TypeOK
<1>3. \E p \in {"complete", "fail"} : tick' = [tick EXCEPT ![t].pc = p]
  BY DEF RunEvent, RunScanFault, Ends, Become
<1>4. PICK w : Becomes(t, w) /\ w.job = j /\ w.pc \in {"complete", "fail"}
  BY <1>1, <1>3, HandlerEnds
<1>5. /\ j \in Jobs /\ j # NoJob /\ j \in Held /\ j \in Live
      /\ j \notin Listed /\ j \notin DOMAIN delayed /\ j \notin dead
      /\ \A u \in Ticks : u # t => Job(u) # j
      /\ data[j].status \in Unfinished
      /\ runs[j] = data[j].attempts /\ runs[j] + 1 \in Nat /\ runs[j] + 1 <= MaxAttempts
  BY <1>1, HandlerCalled
<1> HIDE DEF j
<1>6. /\ runs' \in [Jobs -> Nat] /\ runs'[j] = runs[j] + 1
      /\ \A k \in Jobs : k # j => runs'[k] = runs[k]
  BY <1>1, <1>5 DEF JobInv, TypeOK
<1>7. Stores
  BY <1>1, <1>2, <1>6 DEF Stores, JobInv, TypeOK, NoDuplicates
<1>8. Writes(t, {j})
  BY <1>1, <1>5, <1>6 DEF Writes
<1>9. Listed' = Listed /\ (DOMAIN delayed)' = DOMAIN delayed
  BY <1>1 DEF Listed
<1>10. Places(t, w, {j})
  BY <1>1, <1>4, <1>5, <1>6, <1>9 DEF Places, JobInv, Apart, Live
<1> QED
  BY <1>4, <1>7, <1>8, <1>10, TickStep

\* The scan: it is called and its successor waits in the sorted set.
LEMMA RunScanStep ==
    ASSUME JobInv, NEW t \in Ticks, RunScan(t)
    PROVE  JobInv'
<1> DEFINE j == Job(t)
           n == NewScan
<1>1. /\ tick[t].pc = "run" /\ EnqueueScan /\ UNCHANGED <<up, faults>>
      /\ runs' = [runs EXCEPT ![j] = @ + 1, ![n] = 0]
  BY DEF RunScan
<1>2. errors' \in 0 .. MaxErrors
  BY BoundsAssumption DEF RunScan, Ends, JobInv, TypeOK
<1>3. \E p \in {"complete", "fail"} : tick' = [tick EXCEPT ![t].pc = p]
  BY DEF RunScan, Ends, Become
<1>4. PICK w : Becomes(t, w) /\ w.job = j /\ w.pc \in {"complete", "fail"}
  BY <1>1, <1>3, HandlerEnds
<1>5. /\ j \in Jobs /\ j # NoJob /\ j \in Held /\ j \in Live
      /\ j \notin Listed /\ j \notin DOMAIN delayed /\ j \notin dead
      /\ \A u \in Ticks : u # t => Job(u) # j
      /\ data[j].status \in Unfinished
      /\ runs[j] = data[j].attempts /\ runs[j] + 1 \in Nat /\ runs[j] + 1 <= MaxAttempts
  BY <1>1, HandlerCalled
<1>6. /\ n \in Jobs /\ n \notin Live /\ n \notin dead /\ n \notin Held
      /\ data' \in [Jobs -> Envelope]
      /\ data'[n].attempts = 0 /\ data'[n].status = "retrying"
      /\ \A k \in Jobs : k # n => data'[k] = data[k]
      /\ DOMAIN delayed' = DOMAIN delayed \cup {n}
      /\ \A k \in DOMAIN delayed' : delayed'[k] \in {"waiting", "due"}
      /\ UNCHANGED <<pending, dead>> /\ Listed' = Listed
  BY <1>1, Scheduled
<1>7. n \notin Listed /\ n \notin DOMAIN delayed /\ n # j
  BY <1>5, <1>6 DEF Live
<1>8. \A u \in Ticks : Job(u) # n
  BY <1>6, JobsAssumption DEF Held, Job
<1> HIDE DEF j, n
<1>9. /\ runs' \in [Jobs -> Nat] /\ runs'[j] = runs[j] + 1 /\ runs'[n] = 0
      /\ \A k \in Jobs : k \notin {j, n} => runs'[k] = runs[k]
  BY <1>1, <1>5, <1>6, <1>7 DEF JobInv, TypeOK
<1>10. Stores
  BY SMTT(30), <1>1, <1>2, <1>6, <1>9 DEF Stores, JobInv, TypeOK, NoDuplicates
<1>11. Writes(t, {j, n})
  BY <1>5, <1>6, <1>8, <1>9, AttemptsAssumption DEF Writes
<1>12. data'[j] = data[j] /\ data'[n].status \in Unfinished
  BY <1>5, <1>6, <1>7 DEF Unfinished
<1>13. Places(t, w, {j, n})
  <2>1. Listed' \cap (DOMAIN delayed)' = {} /\ \A k \in dead' : k \in dead /\ k # w.job
    BY <1>4, <1>5, <1>6, <1>7 DEF JobInv, Apart
  <2>2. \A k \in Listed' \cup (DOMAIN delayed)' : k # w.job /\ k \notin dead'
    BY <1>4, <1>5, <1>6, <1>7 DEF JobInv, Apart, Live
  <2>3. \A k \in Listed' \cup (DOMAIN delayed)' :
           \/ k \in (Listed \cup DOMAIN delayed) \ {j, n}
           \/ k = n /\ n \notin Held /\ data'[n].status \in Unfinished /\ runs'[n] = data'[n].attempts
    BY <1>5, <1>6, <1>7, <1>9, <1>12
  <2>4. w.job # NoJob =>
          /\ data'[w.job].status \in Unfinished
          /\ runs'[w.job] = IF w.pc \in {"complete", "fail"}
                            THEN data'[w.job].attempts + 1 ELSE data'[w.job].attempts
    BY <1>4, <1>5, <1>9, <1>12
  <2> QED
    BY <2>1, <2>2, <2>3, <2>4 DEF Places
<1> QED
  BY <1>4, <1>10, <1>11, <1>13, TickStep

\* The envelope is deleted.
LEMMA CompleteStep ==
    ASSUME JobInv, NEW t \in Ticks, Complete(t)
    PROVE  JobInv'
<1> DEFINE j == Job(t)
<1>1. /\ tick[t].pc = "complete" /\ Drop(t)
      /\ data' = [data EXCEPT ![j] = NoEnvelope] /\ runs' = [runs EXCEPT ![j] = 0]
      /\ UNCHANGED <<pending, delayed, dead, up, errors, faults>>
  BY DEF Complete
<1>2. /\ j \in Jobs /\ j \notin Listed /\ j \notin DOMAIN delayed
      /\ \A u \in Ticks : u # t => Job(u) # j
  BY <1>1, HeldJob
<1> HIDE DEF j
<1>3. /\ data' \in [Jobs -> Envelope] /\ runs' \in [Jobs -> Nat] /\ runs'[j] = 0
      /\ \A k \in Jobs : k # j => data'[k] = data[k] /\ runs'[k] = runs[k]
  BY <1>1, <1>2, EnvelopeType DEF JobInv, TypeOK
<1>4. Becomes(t, IdleTick)
  BY <1>1, IdleTickType DEF Becomes, Drop
<1>5. Stores
  BY <1>1, <1>3 DEF Stores, JobInv, TypeOK, NoDuplicates
<1>6. Writes(t, {j})
  BY <1>2, <1>3, AttemptsAssumption DEF Writes
<1>7. Listed' = Listed /\ (DOMAIN delayed)' = DOMAIN delayed
  BY <1>1 DEF Listed
<1>8. NoJob \notin Listed \cup DOMAIN delayed \cup dead
  BY JobsAssumption DEF JobInv, TypeOK, Listed
<1>9. Places(t, IdleTick, {j})
  BY <1>1, <1>2, <1>7, <1>8, IdleTickType DEF Places, JobInv, Apart, Live
<1> QED
  BY <1>4, <1>5, <1>6, <1>9, TickStep

\* One attempt more.
LEMMA Attempt ==
    ASSUME JobInv, NEW j \in Jobs, data[j].status \in Unfinished, NEW s, NEW n,
           n = data[j].attempts + 1,
           \/ n >= MaxAttempts /\ s = "failed"
           \/ ~(n >= MaxAttempts) /\ s \in Unfinished,
           data' = [data EXCEPT ![j].attempts = n, ![j].status = s]
    PROVE  /\ data' \in [Jobs -> Envelope]
           /\ data'[j].status = s /\ data'[j].attempts = n
           /\ \A k \in Jobs : k # j => data'[k] = data[k]
<1> DEFINE e == [attempts |-> n, status |-> s]
<1>1. data \in [Jobs -> Envelope] /\ data[j].attempts \in Nat /\ data[j].attempts < MaxAttempts
  BY JobFacts DEF JobInv, TypeOK
<1>2. n \in Nat /\ n <= MaxAttempts /\ MaxAttempts \in Nat
  BY <1>1, AttemptsAssumption
<1>3. e \in Envelope
  <2>1. CASE n >= MaxAttempts /\ s = "failed"
    <3>1. n = MaxAttempts
      BY <1>2, <2>1
    <3> QED
      BY <2>1, <3>1, EnvelopeType
  <2>2. CASE ~(n >= MaxAttempts) /\ s \in Unfinished
    <3>1. n < MaxAttempts
      BY <1>2, <2>2
    <3> QED
      BY <1>2, <2>2, <3>1, EnvelopeType
  <2> QED
    BY <2>1, <2>2
<1>4. data[j] \in [attempts : 0 .. MaxAttempts, status : Unfinished \cup {"none", "failed"}]
  BY <1>1, AttemptsAssumption DEF Envelope
<1>5. [data[j] EXCEPT !.attempts = n, !.status = s] = e
  <2>1. [data[j] EXCEPT !.attempts = n] = [attempts |-> n, status |-> data[j].status]
    BY <1>4
  <2>2. ASSUME NEW q, q = [attempts |-> n, status |-> data[j].status]
        PROVE  [q EXCEPT !.status = s] = e
    BY <2>2
  <2> QED
    BY <2>1, <2>2
<1>6. e.status = s /\ e.attempts = n
  OBVIOUS
<1> HIDE DEF e
<1>7. data' = [data EXCEPT ![j] = e]
  <2>1. data' = [data EXCEPT ![j] = [data[j] EXCEPT !.attempts = n, !.status = s]]
    BY <1>1
  <2> QED
    BY <1>5, <2>1
<1> QED
  BY <1>1, <1>3, <1>6, <1>7

\* The job waits for its next attempt, or its last one is spent.
LEMMA FailStep ==
    ASSUME JobInv, NEW t \in Ticks, Fail(t)
    PROVE  JobInv'
<1> DEFINE j == Job(t)
           n == data[j].attempts + 1
<1>1. tick[t].pc = "fail" /\ Drop(t) /\ UNCHANGED <<pending, up, runs, errors, faults>>
  BY DEF Fail
<1>2. /\ j \in Jobs /\ j # NoJob /\ j \in Held /\ j \in Live
      /\ j \notin Listed /\ j \notin DOMAIN delayed /\ j \notin dead
      /\ \A u \in Ticks : u # t => Job(u) # j
      /\ data[j].status \in Unfinished
  BY <1>1, HeldJob
<1>3. runs[j] = n
  BY <1>1, <1>2 DEF JobInv, CallsCounted
<1>4. \/ /\ n >= MaxAttempts
         /\ data' = [data EXCEPT ![j].attempts = n, ![j].status = "failed"]
         /\ dead' = dead \cup {j} /\ UNCHANGED delayed
      \/ /\ ~(n >= MaxAttempts)
         /\ data' = [data EXCEPT ![j].attempts = n, ![j].status = "retrying"]
         /\ delayed' = Delay(j) /\ UNCHANGED dead
  BY DEF Fail, Exhausted
<1>5. j = Job(t)
  OBVIOUS
<1> HIDE DEF j
<1>6. Becomes(t, IdleTick)
  BY <1>1, IdleTickType DEF Becomes, Drop
<1>7. NoJob \notin Listed \cup DOMAIN delayed \cup dead
  BY JobsAssumption DEF JobInv, TypeOK, Listed
<1>8. Listed' = Listed
  BY <1>1 DEF Listed
<1>9. CASE n >= MaxAttempts
  <2>1. /\ data' = [data EXCEPT ![j].attempts = n, ![j].status = "failed"]
        /\ dead' = dead \cup {j} /\ UNCHANGED delayed
    BY <1>4, <1>9
  <2>2. data' \in [Jobs -> Envelope] /\ \A k \in Jobs : k # j => data'[k] = data[k]
    BY <1>2, <1>9, <2>1, Attempt
  <2>3. Stores
    BY <1>1, <1>2, <2>1, <2>2 DEF Stores, JobInv, TypeOK, NoDuplicates
  <2>4. Writes(t, {j})
    BY <1>1, <1>2, <2>2 DEF Writes, JobInv, RunsBounded
  <2>5. (DOMAIN delayed)' = DOMAIN delayed
    BY <2>1
  <2>6. Places(t, IdleTick, {j})
    BY <1>2, <1>5, <1>7, <1>8, <2>1, <2>5, IdleTickType DEF Places, JobInv, Apart, Live
  <2> QED
    BY <1>6, <2>3, <2>4, <2>6, TickStep
<1>10. CASE ~(n >= MaxAttempts)
  <2>1. /\ data' = [data EXCEPT ![j].attempts = n, ![j].status = "retrying"]
        /\ delayed' = Delay(j) /\ UNCHANGED dead
    BY <1>4, <1>10
  <2>2. /\ data' \in [Jobs -> Envelope] /\ data'[j].status = "retrying" /\ data'[j].attempts = n
        /\ \A k \in Jobs : k # j => data'[k] = data[k]
    BY <1>2, <1>10, <2>1, Attempt DEF Unfinished
  <2>3. /\ (DOMAIN delayed)' = DOMAIN delayed \cup {j}
        /\ \A k \in (DOMAIN delayed)' : delayed'[k] \in {"waiting", "due"}
    BY <2>1 DEF Delay, JobInv, TypeOK
  <2>4. Stores
    BY <1>1, <1>2, <2>1, <2>2, <2>3 DEF Stores, JobInv, TypeOK, NoDuplicates
  <2>5. Writes(t, {j})
    BY <1>1, <1>2, <2>2 DEF Writes, JobInv, RunsBounded
  <2>6. data'[j].status \in Unfinished /\ runs'[j] = data'[j].attempts
    BY <1>1, <1>3, <2>2 DEF Unfinished
  <2>7. Places(t, IdleTick, {j})
    <3>1. Listed' \cap (DOMAIN delayed)' = {} /\ \A k \in dead' : k \in dead /\ k # IdleTick.job
      BY <1>2, <1>7, <1>8, <2>1, <2>3, IdleTickType DEF JobInv, Apart
    <3>2. \A k \in Listed' \cup (DOMAIN delayed)' : k # IdleTick.job /\ k \notin dead'
      BY <1>2, <1>7, <1>8, <2>1, <2>3, IdleTickType DEF JobInv, Apart, Live
    <3>3. \A k \in Listed' \cup (DOMAIN delayed)' :
             \/ k \in (Listed \cup DOMAIN delayed) \ {j}
             \/ k = j /\ j \notin Held \ {Job(t)}
      BY <1>2, <1>5, <1>8, <2>3
    <3> QED
      BY <2>6, <3>1, <3>2, <3>3, IdleTickType DEF Places
  <2> QED
    BY <1>6, <2>4, <2>5, <2>7, TickStep
<1> QED
  BY <1>9, <1>10

\* The envelope could not be deleted: the job that ran well fails.
LEMMA CompleteFaultStep ==
    ASSUME JobInv, NEW t \in Ticks, CompleteFault(t)
    PROVE  JobInv'
<1> DEFINE w == [pc |-> "fail", due |-> tick[t].due, job |-> tick[t].job]
<1>1. /\ tick[t].pc = "complete" /\ tick' = [tick EXCEPT ![t].pc = "fail"]
      /\ UNCHANGED redisVars /\ UNCHANGED runs /\ up' = up /\ errors' = errors
      /\ faults < MaxFaults /\ faults' = faults + 1
  BY DEF CompleteFault, Become, Fault
<1>2. tick \in [Ticks -> Tick] /\ tick[t] \in Tick
  BY DEF JobInv, TypeOK
<1>3. /\ Job(t) \in Jobs /\ Job(t) # NoJob /\ Job(t) \notin Listed /\ Job(t) \notin DOMAIN delayed
      /\ Job(t) \notin dead /\ data[Job(t)].status \in Unfinished
  BY <1>1, HeldJob
<1>4. runs[Job(t)] = data[Job(t)].attempts + 1
  BY <1>1, <1>3 DEF JobInv, CallsCounted
<1>5. w \in Tick
  BY <1>2, TickType DEF Tick
<1>6. tick' = [tick EXCEPT ![t] = w]
  <2>1. [tick[t] EXCEPT !.pc = "fail"] = w
    BY <1>2, TickFields
  <2>2. tick' = [tick EXCEPT ![t] = [tick[t] EXCEPT !.pc = "fail"]]
    BY <1>1, <1>2
  <2> QED
    BY <2>1, <2>2
<1>7. w.job = Job(t) /\ w.pc = "fail"
  BY DEF Job
<1> HIDE DEF w
<1>8. Becomes(t, w)
  BY <1>3, <1>5, <1>6, <1>7 DEF Becomes
<1>9. faults' \in 0 .. MaxFaults
  BY <1>1, BoundsAssumption DEF JobInv, TypeOK
<1>10. /\ Stores /\ Writes(t, {}) /\ Listed' = Listed /\ (DOMAIN delayed)' = DOMAIN delayed
       /\ UNCHANGED <<data, dead, runs>>
  BY <1>1, <1>9, Untouched DEF JobInv, TypeOK
<1>11. Places(t, w, {})
  BY <1>3, <1>4, <1>7, <1>10 DEF Places, JobInv, Apart, CallsCounted, Live
<1> QED
  BY <1>8, <1>10, <1>11, TickStep

\* A command fails and what the tick held is gone.
LEMMA RejectStep ==
    ASSUME JobInv, NEW t \in Ticks, Reject(t)
    PROVE  JobInv'
<1>1. /\ Drop(t) /\ UNCHANGED redisVars /\ UNCHANGED runs /\ up' = up /\ errors' = errors
      /\ faults < MaxFaults /\ faults' = faults + 1
  BY DEF Reject, Fault
<1>2. faults' \in 0 .. MaxFaults
  BY <1>1, BoundsAssumption DEF JobInv, TypeOK
<1> QED
  BY <1>1, <1>2, DropStep DEF JobInv, TypeOK

---------------------------------------------------------------------------
(* The theorems.                                                           *)

LEMMA JobInvIsInductive == JobInv /\ [Next]_vars => JobInv'
<1> SUFFICES ASSUME JobInv, [Next]_vars PROVE JobInv'
  OBVIOUS
<1>1. CASE Publish
  BY <1>1, PublishStep
<1>2. CASE Boot
  BY <1>2, BootStep
<1>3. CASE Crash \/ \E j \in Jobs : Elapse(j)
  BY <1>3, CrashStep
<1>4. ASSUME NEW t \in Ticks, Advance(t) PROVE JobInv'
  BY <1>4, BeginStep, PromoteStep, RequeueStep, PopStep, RunStep, RunScanStep,
     CompleteStep, FailStep DEF Advance
<1>5. ASSUME NEW t \in Ticks, RunScanFault(t) \/ CompleteFault(t) \/ Reject(t) PROVE JobInv'
  BY <1>5, RunStep, CompleteFaultStep, RejectStep
<1>6. CASE UNCHANGED vars
  <2>1. UNCHANGED <<data, pending, delayed, dead, tick, up, runs, errors, faults>>
    BY <1>6 DEF vars, redisVars
  <2>2. Listed' = Listed /\ Held' = Held /\ Live' = Live /\ (DOMAIN delayed)' = DOMAIN delayed
    BY <2>1 DEF Listed, Held, Live
  <2>3. TypeOK' /\ NoDuplicates' /\ RunsBounded'
    BY <2>1 DEF JobInv, TypeOK, NoDuplicates, RunsBounded
  <2>4. OneTick' /\ TickHolds' /\ Apart' /\ CallsCounted'
    BY <2>1, <2>2 DEF JobInv, OneTick, TickHolds, Apart, CallsCounted, Job
  <2> QED
    BY <2>3, <2>4 DEF JobInv
<1> QED
  BY <1>1, <1>2, <1>3, <1>4, <1>5, <1>6 DEF Next

\* Wherever ticks, boots and faults have led: each job is in one hand and its
\* handler has been called as often as its envelope says.
THEOREM JobInvariant == Spec => []JobInv
<1>1. Init => JobInv
  BY FirstState
<1>2. JobInv /\ [Next]_vars => JobInv'
  BY JobInvIsInductive
<1> QED
  BY <1>1, <1>2, PTL DEF Spec

\* The variables of the queue and its ticks keep their types.
THEOREM QueueTypeCorrect == Spec => []TypeOK
<1>1. JobInv => TypeOK
  BY DEF JobInv
<1> QED
  BY <1>1, JobInvariant, PTL

\* Ticks that overlap, retry or are cut short never hold one job twice: ZREM
\* and LPOP give it to one of them.
THEOREM OneHand == Spec => []OneHolder
<1>1. JobInv => OneHolder
  BY DEF JobInv, OneHolder, NoDuplicates, OneTick, Apart
<1> QED
  BY <1>1, JobInvariant, PTL

\* A job is never run more often than its envelope allows, whatever commands
\* fail: an attempt is counted before the job can be taken again.
THEOREM CallsBounded == Spec => []RunsBounded
<1>1. JobInv => RunsBounded
  BY DEF JobInv
<1> QED
  BY <1>1, JobInvariant, PTL

---------------------------------------------------------------------------
(* The recurrence.                                                         *)

\* The jobs the worker has yet to call or is calling: RecurrenceAlive counts
\* every live scan, but the next one is among these before it runs, and in the
\* sorted set before the one that runs is over.
Calling == {u \in Ticks : tick[u].pc \in {"requeue", "run"}}

Coming == Listed \cup DOMAIN delayed \cup {Job(u) : u \in Calling}

RecurrenceInv == faults = 0 /\ up => ScanJobs \cap Coming # {}

\* A step of one tick: what was coming still is, but what that tick disposes of.
LEMMA StillComing ==
    ASSUME JobInv, NEW t \in Ticks, NEW w \in Tick, tick' = [tick EXCEPT ![t] = w],
           NEW j \in Coming,
           j \in Listed \cup DOMAIN delayed \/ (t \in Calling /\ j = Job(t)) =>
               \/ j \in Listed' \cup (DOMAIN delayed)'
               \/ w.pc \in {"requeue", "run"} /\ w.job = j
    PROVE  j \in Coming'
<1>1. tick'[t] = w /\ \A u \in Ticks : u # t => tick'[u] = tick[u]
  BY DEF JobInv, TypeOK
<1>2. CASE j \in Listed \cup DOMAIN delayed \/ (t \in Calling /\ j = Job(t))
  <2>1. CASE j \in Listed' \cup (DOMAIN delayed)'
    BY <2>1 DEF Coming
  <2>2. CASE w.pc \in {"requeue", "run"} /\ w.job = j
    BY <1>1, <2>2 DEF Coming, Calling, Job
  <2> QED
    BY <1>2, <2>1, <2>2
<1>3. ASSUME NEW u \in Calling, u # t, j = Job(u)
      PROVE  j \in Coming'
  BY <1>1, <1>3 DEF Coming, Calling, Job
<1> QED
  BY <1>2, <1>3 DEF Coming

\* A scan that is called has a successor when the call is over; the steps that
\* lose a job are faults.
LEMMA RecurrenceIsInductive ==
    JobInv /\ RecurrenceInv /\ [Next]_vars => RecurrenceInv'
<1> SUFFICES ASSUME JobInv, RecurrenceInv, [Next]_vars, faults' = 0, up'
             PROVE  ScanJobs \cap Coming' # {}
  BY DEF RecurrenceInv
<1>1. faults \in Nat
  BY BoundsAssumption DEF JobInv, TypeOK
<1>2. ASSUME EnqueueScan
      PROVE  ScanJobs \cap Coming' # {}
  BY <1>2, Scheduled DEF Coming
<1>3. ASSUME faults = 0, up, \A j \in Coming : j \in Coming'
      PROVE  ScanJobs \cap Coming' # {}
  BY <1>3 DEF RecurrenceInv
<1>4. CASE Publish
  <2>1. /\ pending' = Append(pending, NewEvent) /\ NewEvent \in Fresh(EventJobs)
        /\ UNCHANGED <<delayed, tick, up, faults>>
    BY <1>4 DEF Publish, NewEvent
  <2>2. pending \in Seq(Jobs) /\ NoDuplicates
    BY DEF JobInv, TypeOK
  <2>3. NewEvent \in Jobs /\ NewEvent \notin Listed
    BY <2>1, FreshJob DEF Jobs
  <2>4. Listed \subseteq Listed' /\ UNCHANGED <<delayed, tick, up, faults>>
    BY <2>1, <2>2, <2>3, PushBack
  <2> QED
    BY <1>3, <2>4 DEF Coming, Calling, Job, Publish
<1>5. CASE Boot
  BY <1>2, <1>5 DEF Boot
<1>6. CASE Crash
  BY <1>1, <1>6 DEF Crash, Fault
<1>7. ASSUME NEW j \in Jobs, Elapse(j)
      PROVE  ScanJobs \cap Coming' # {}
  <2>1. UNCHANGED <<pending, tick, up, faults>> /\ DOMAIN delayed' = DOMAIN delayed
    BY <1>7 DEF Elapse
  <2> QED
    BY <1>3, <2>1 DEF Coming, Calling, Listed, Job
<1>8. ASSUME NEW t \in Ticks, RunScanFault(t) \/ CompleteFault(t) \/ Reject(t)
      PROVE  FALSE
  <2>1. faults' = faults + 1
    BY <1>8 DEF RunScanFault, CompleteFault, Reject, Fault
  <2> QED
    BY <1>1, <2>1
<1>9. ASSUME NEW t \in Ticks, Advance(t)
      PROVE  ScanJobs \cap Coming' # {}
  <2>1. tick \in [Ticks -> Tick] /\ tick[t] \in Tick /\ faults' = faults /\ up' = up
    BY <1>9 DEF Advance, Begin, Promote, Requeue, Pop, RunEvent, RunScan, Complete, Fail,
                JobInv, TypeOK
  <2>2. ASSUME NEW w \in Tick, tick' = [tick EXCEPT ![t] = w],
               \A j \in Coming : j \in ScanJobs
                     /\ (j \in Listed \cup DOMAIN delayed \/ (t \in Calling /\ j = Job(t))) =>
                   \/ j \in Listed' \cup (DOMAIN delayed)'
                   \/ w.pc \in {"requeue", "run"} /\ w.job = j
        PROVE  ScanJobs \cap Coming' # {}
    <3>1. PICK j \in ScanJobs \cap Coming : TRUE
      BY <2>1 DEF RecurrenceInv
    <3>2. j \in Coming'
      BY <2>2, <3>1, StillComing
    <3> QED
      BY <3>1, <3>2
  <2>3. CASE Begin(t)
    <3> DEFINE due == {j \in DOMAIN delayed : delayed[j] = "due"}
               w == [pc |-> "promote", due |-> due, job |-> tick[t].job]
    <3>1. /\ tick[t].pc = "idle" /\ UNCHANGED <<pending, delayed>>
          /\ tick' = [tick EXCEPT ![t].pc = "promote", ![t].due = due]
      BY <2>3 DEF Begin, redisVars
    <3>2. due \subseteq Jobs
      BY DEF JobInv, TypeOK
    <3> HIDE DEF due
    <3>3. w \in Tick
      BY <2>1, <3>2, TickType DEF Tick
    <3>4. tick' = [tick EXCEPT ![t] = w]
      BY <2>1, <3>1, TickFields
    <3>5. t \notin Calling /\ Listed' = Listed /\ (DOMAIN delayed)' = DOMAIN delayed
      BY <3>1 DEF Calling, Listed
    <3> HIDE DEF w
    <3> QED
      BY <2>2, <3>3, <3>4, <3>5
  <2>4. ASSUME NEW j \in Jobs, Promote(t, j)
        PROVE  ScanJobs \cap Coming' # {}
    <3> DEFINE due == tick[t].due \ {j}
               w == [pc |-> "requeue", due |-> due, job |-> j]
               v == [pc |-> "promote", due |-> due, job |-> tick[t].job]
    <3>1. tick[t].pc = "promote" /\ UNCHANGED pending /\ due \subseteq Jobs
      BY <2>1, <2>4 DEF Promote, Tick
    <3>2. t \notin Calling /\ Listed' = Listed
      BY <3>1 DEF Calling, Listed
    <3>3. CASE j \in DOMAIN delayed
      <4>1. /\ delayed' = Undelay(j)
            /\ tick' = [tick EXCEPT ![t].pc = "requeue", ![t].due = @ \ {j}, ![t].job = j]
        BY <2>4, <3>3 DEF Promote
      <4>2. (DOMAIN delayed)' = DOMAIN delayed \ {j}
        BY <4>1 DEF Undelay
      <4>3. w \in Tick
        BY <3>1, TickType
      <4>4. [tick[t] EXCEPT !.pc = "requeue", !.due = @ \ {j}, !.job = j] = w
        BY <2>1, TickTaken
      <4>5. tick' = [tick EXCEPT ![t] = [tick[t] EXCEPT !.pc = "requeue", !.due = @ \ {j}, !.job = j]]
        BY <2>1, <4>1
      <4>6. tick' = [tick EXCEPT ![t] = w]
        BY <4>4, <4>5
      <4>7. w.pc = "requeue" /\ w.job = j
        OBVIOUS
      <4> HIDE DEF w
      <4> QED
        BY <2>2, <3>2, <4>2, <4>3, <4>6, <4>7
    <3>4. CASE j \notin DOMAIN delayed
      <4>1. UNCHANGED delayed /\ tick' = [tick EXCEPT ![t].due = @ \ {j}]
        BY <2>4, <3>4 DEF Promote
      <4>2. v \in Tick
        BY <2>1, <3>1, TickType DEF Tick
      <4>3. tick' = [tick EXCEPT ![t] = v]
        BY <2>1, <3>1, <4>1, TickFields
      <4>4. (DOMAIN delayed)' = DOMAIN delayed
        BY <4>1
      <4> HIDE DEF v
      <4> QED
        BY <2>2, <3>2, <4>2, <4>3, <4>4
    <3> QED
      BY <3>3, <3>4
  <2>5. CASE Requeue(t)
    <3> DEFINE w == [pc |-> "promote", due |-> tick[t].due, job |-> NoJob]
    <3>1. /\ tick[t].pc = "requeue" /\ UNCHANGED delayed
          /\ tick' = [tick EXCEPT ![t].pc = "promote", ![t].job = NoJob]
      BY <2>5 DEF Requeue
    <3>2. Job(t) \in Jobs /\ Job(t) \notin Listed /\ data[Job(t)].status # "none"
      BY <3>1, HeldJob DEF Unfinished
    <3>3. pending' = Append(pending, Job(t))
      BY <2>5, <3>2 DEF Requeue
    <3>4. pending \in Seq(Jobs) /\ NoDuplicates
      BY DEF JobInv, TypeOK
    <3>5. Listed' = Listed \cup {Job(t)} /\ (DOMAIN delayed)' = DOMAIN delayed
      BY <3>1, <3>2, <3>3, <3>4, PushBack
    <3>6. w \in Tick
      BY <2>1, TickType DEF Tick
    <3>7. tick' = [tick EXCEPT ![t] = w]
      <4>1. [tick[t] EXCEPT !.pc = "promote", !.job = NoJob] = w
        BY <2>1, TickJob
      <4>2. tick' = [tick EXCEPT ![t] = [tick[t] EXCEPT !.pc = "promote", !.job = NoJob]]
        BY <2>1, <3>1
      <4> QED
        BY <4>1, <4>2
    <3> HIDE DEF w
    <3> QED
      BY <2>2, <3>5, <3>6, <3>7
  <2>6. CASE Pop(t) /\ pending = <<>>
    <3>1. /\ tick[t].pc = "promote" /\ UNCHANGED <<pending, delayed>>
          /\ tick' = [tick EXCEPT ![t] = IdleTick]
      BY <2>6 DEF Pop, Drop
    <3>2. t \notin Calling /\ Listed' = Listed /\ (DOMAIN delayed)' = DOMAIN delayed
      BY <3>1 DEF Calling, Listed
    <3> QED
      BY <2>2, <3>1, <3>2, IdleTickType
  <2>7. CASE Pop(t) /\ pending # <<>>
    <3> DEFINE j == Head(pending)
               w == [pc |-> "run", due |-> tick[t].due, job |-> j]
    <3>1. tick[t].pc = "promote" /\ UNCHANGED delayed /\ pending' = Tail(pending)
      BY <2>7 DEF Pop
    <3>2. j \in Listed /\ j \in Jobs /\ Listed' = Listed \ {j}
      BY <2>7, <3>1, PopFront DEF JobInv, TypeOK
    <3>3. data[j].status # "none"
      BY <3>2 DEF JobInv, CallsCounted, Live, Unfinished
    <3>4. tick' = [tick EXCEPT ![t].pc = "run", ![t].job = j]
      BY <2>7, <3>3 DEF Pop
    <3> HIDE DEF j
    <3>5. w \in Tick
      BY <2>1, <3>2, TickType DEF Tick
    <3>6. tick' = [tick EXCEPT ![t] = w]
      <4>1. [tick[t] EXCEPT !.pc = "run", !.job = j] = w
        BY <2>1, TickJob
      <4>2. tick' = [tick EXCEPT ![t] = [tick[t] EXCEPT !.pc = "run", !.job = j]]
        BY <2>1, <3>4
      <4> QED
        BY <4>1, <4>2
    <3>7. t \notin Calling /\ (DOMAIN delayed)' = DOMAIN delayed /\ w.pc = "run" /\ w.job = j
      BY <3>1 DEF Calling
    <3> HIDE DEF w
    <3> QED
      BY <2>2, <3>2, <3>5, <3>6, <3>7
  <2>8. CASE RunEvent(t)
    <3>1. /\ tick[t].pc = "run" /\ Job(t) \in EventJobs /\ UNCHANGED <<pending, delayed>>
          /\ \E p \in {"complete", "fail"} : tick' = [tick EXCEPT ![t].pc = p]
      BY <2>8 DEF RunEvent, Ends, Become, redisVars
    <3>2. PICK w : Becomes(t, w) /\ w.job = Job(t) /\ w.pc \in {"complete", "fail"}
      BY <3>1, HandlerEnds
    <3>3. Job(t) \notin ScanJobs /\ Listed' = Listed /\ (DOMAIN delayed)' = DOMAIN delayed
      BY <3>1, JobsAssumption DEF Listed
    <3> QED
      BY <2>2, <3>2, <3>3 DEF Becomes
  <2>9. CASE RunScan(t)
    BY <1>2, <2>9 DEF RunScan
  <2>10. CASE Complete(t) \/ Fail(t)
    <3>1. /\ tick[t].pc \in {"complete", "fail"} /\ UNCHANGED pending
          /\ tick' = [tick EXCEPT ![t] = IdleTick]
      BY <2>10 DEF Complete, Fail, Drop
    <3>2. DOMAIN delayed \subseteq (DOMAIN delayed)'
      BY <2>10 DEF Complete, Fail, Delay
    <3>3. t \notin Calling /\ Listed' = Listed
      BY <3>1 DEF Calling, Listed
    <3> QED
      BY <2>2, <3>1, <3>2, <3>3, IdleTickType
  <2> QED
    BY <1>9, <2>3, <2>4, <2>5, <2>6, <2>7, <2>8, <2>9, <2>10 DEF Advance
<1>10. CASE UNCHANGED vars
  BY <1>3, <1>10 DEF vars, redisVars, Coming, Calling, Listed, Job
<1> QED
  BY <1>4, <1>5, <1>6, <1>7, <1>8, <1>9, <1>10 DEF Next

\* Handlers that throw, retries, dead letters and overlapping ticks never end
\* the recurrence: as long as no command fails and the process does not crash,
\* a worker that is up has a scan at hand.
THEOREM RecurrenceLives == Spec => [](faults = 0 => RecurrenceAlive)
<1>1. Init => RecurrenceInv
  BY DEF Init, RecurrenceInv
<1>2. JobInv /\ RecurrenceInv => (faults = 0 => RecurrenceAlive)
  <2> SUFFICES ASSUME JobInv, RecurrenceInv, faults = 0, up
               PROVE  ScanJobs \cap Live # {}
    BY DEF RecurrenceAlive
  <2>1. PICK j \in ScanJobs : j \in Coming
    BY DEF RecurrenceInv
  <2>2. ASSUME NEW u \in Calling
        PROVE  Job(u) \in Live
    BY <2>2, HeldJob DEF Calling
  <2> QED
    BY <2>1, <2>2 DEF Coming, Live
<1>3. Spec => []RecurrenceInv
  BY <1>1, JobInvariant, RecurrenceIsInductive, PTL DEF Spec
<1> QED
  BY <1>2, <1>3, JobInvariant, PTL

=============================================================================
