------------------------ MODULE YardOccupancyProofs ------------------------
(***************************************************************************)
(* Machine-checked theorems about YardOccupancy, for any clerks, spots and *)
(* vehicles.                                                               *)
(***************************************************************************)
EXTENDS YardOccupancy, WellFoundedInduction, TLAPS

---------------------------------------------------------------------------
(* The invariant.                                                          *)

\* The second half of I1.
OneSpot == \A s, u \in Spots : occupant[s] = occupant[u] /\ occupant[s] # NoProcess => s = u

\* What a transaction is about, at each of its steps.
WellFormed(t) ==
    /\ t.op = "none" <=> t.pc = "none"
    /\ t.op \notin {"none", "edit"} => t.process \in Processes
    /\ t.op \in {"assign", "vacate", "move", "edit"} \/ t.pc = "spot" =>
           t.from \in Spots /\ t.to \in Spots
    /\ t.op \in {"assign", "vacate", "edit"} => t.from = t.to
    /\ t.op = "move" => t.from # t.to
    /\ t.pc = "spot" => t.op \in Exits
    /\ t.op \in Exits \cup {"return"} /\ t.pc = "start" => t.to = NoSpot
    /\ t.pc \in {"second", "occupant"} => t.op = "move"

\* A row that a transaction has locked is as it was when it was locked, and the
\* vehicle whose index entry it has is still nowhere.
LocksHeld(c) ==
    /\ At(c, "assign", "entry") \/ At(c, "assign", "process") =>
           spotLock[tx[c].to] = c /\ spotStatus[tx[c].to] = "FREE"
    /\ At(c, "assign", "process") =>
           entryLock[tx[c].process] = c /\ Parked(tx[c].process) = {}
    /\ At(c, "vacate", "process") =>
           spotLock[tx[c].from] = c /\ spotStatus[tx[c].from] = "OCCUPIED"
    /\ At(c, "move", "second") => spotLock[Sorted(c)[1]] = c
    /\ At(c, "move", "occupant") \/ At(c, "move", "process") =>
           /\ spotLock[tx[c].from] = c /\ spotLock[tx[c].to] = c
           /\ spotStatus[tx[c].from] = "OCCUPIED" /\ spotStatus[tx[c].to] = "FREE"

\* A transaction that has not locked anything yet holds no lock; a move
\* before its second spot holds the first one.
LocksOwned(c) ==
    /\ tx[c].pc \in {"none", "start"} => \A s \in Spots : spotLock[s] # c
    /\ tx[c].pc = "second" => \A s \in Spots : spotLock[s] = c => s = Sorted(c)[1]
    /\ tx[c].pc \in {"none", "start", "second"} =>
           \A p \in Processes : entryLock[p] # c /\ processLock[p] # c

YardInv ==
    /\ TypeOK /\ StatusTellsOccupancy /\ OneSpot
    /\ \A c \in Clerks : WellFormed(tx[c]) /\ LocksHeld(c) /\ LocksOwned(c)

---------------------------------------------------------------------------
(* Facts about one transaction.                                            *)

LEMMA Nulls == NoSpot \notin Spots /\ NoClerk \notin Clerks /\ NoProcess \notin Processes
BY SpotsAssumption, NullsAssumption DEF NoSpot

LEMMA NoTransactionType ==
    /\ NoTransaction \in Transaction /\ WellFormed(NoTransaction)
    /\ NoTransaction.op = "none" /\ NoTransaction.pc = "none"
<1>1. NoTransaction \in Transaction
  BY DEF NoTransaction, Transaction
<1>2. NoTransaction.op = "none" /\ NoTransaction.pc = "none"
  BY DEF NoTransaction
<1> QED
  BY <1>1, <1>2 DEF NoTransaction, WellFormed, Exits

Steps == {"none", "start", "second", "entry", "occupant", "process", "spot", "write"}

\* A transaction goes on: only its step changes.
LEMMA NextStep ==
    ASSUME NEW t \in Transaction, NEW pc \in Steps
    PROVE  /\ [t EXCEPT !.pc = pc] \in Transaction
           /\ [t EXCEPT !.pc = pc].pc = pc /\ [t EXCEPT !.pc = pc].op = t.op
           /\ [t EXCEPT !.pc = pc].process = t.process
           /\ [t EXCEPT !.pc = pc].from = t.from /\ [t EXCEPT !.pc = pc].to = t.to
BY DEF Transaction, Steps

\* An exit has found the spot of its vehicle.
LEMMA ExitFields ==
    ASSUME NEW t \in Transaction, NEW s
    PROVE  [t EXCEPT !.pc = "spot", !.from = s, !.to = s]
              = [op |-> t.op, pc |-> "spot", process |-> t.process, from |-> s, to |-> s]
<1>1. [t EXCEPT !.pc = "spot"] = [op |-> t.op, pc |-> "spot", process |-> t.process, from |-> t.from, to |-> t.to]
  BY DEF Transaction
<1>2. ASSUME NEW q, q = [op |-> t.op, pc |-> "spot", process |-> t.process, from |-> t.from, to |-> t.to]
      PROVE  [q EXCEPT !.from = s] = [op |-> t.op, pc |-> "spot", process |-> t.process, from |-> s, to |-> t.to]
  BY <1>2
<1>3. ASSUME NEW q, q = [op |-> t.op, pc |-> "spot", process |-> t.process, from |-> s, to |-> t.to]
      PROVE  [q EXCEPT !.to = s] = [op |-> t.op, pc |-> "spot", process |-> t.process, from |-> s, to |-> s]
  BY <1>3
<1> QED
  BY <1>1, <1>2, <1>3

LEMMA Fields ==
    ASSUME NEW t \in Transaction
    PROVE  /\ t.op \in Operations \cup {"none"} /\ t.pc \in Steps
           /\ t.process \in Processes \cup {NoProcess}
           /\ t.from \in Spots \cup {NoSpot} /\ t.to \in Spots \cup {NoSpot}
BY DEF Transaction, Steps

\* The two spots of a move, in either order.
LEMMA SortedSpots ==
    ASSUME NEW c \in Clerks, tx[c].from \in Spots, tx[c].to \in Spots, tx[c].from # tx[c].to
    PROVE  /\ Sorted(c)[1] \in Spots /\ Sorted(c)[2] \in Spots
           /\ {Sorted(c)[1], Sorted(c)[2]} = {tx[c].from, tx[c].to}
           /\ Sorted(c)[1] < Sorted(c)[2] /\ Sorted(c)[1] \in Nat /\ Sorted(c)[2] \in Nat
<1>1. tx[c].from \in Nat /\ tx[c].to \in Nat
  BY SpotsAssumption
<1> QED
  BY <1>1 DEF Sorted

---------------------------------------------------------------------------
(* Two kinds of steps: a transaction takes what it waited for, or ends.    *)

\* It becomes w and locks rows that nobody had locked, or entries of vehicles
\* in a spot it has locked.
Takes(c, w) ==
    /\ w \in Transaction /\ tx' = [tx EXCEPT ![c] = w]
    /\ UNCHANGED <<spotStatus, occupant, yard, custody>>
    /\ spotLock' \in [Spots -> Clerks \cup {NoClerk}]
    /\ entryLock' \in [Processes -> Clerks \cup {NoClerk}]
    /\ processLock' \in [Processes -> Clerks \cup {NoClerk}]
    /\ \A s \in Spots : spotLock'[s] = spotLock[s] \/ (spotLock[s] = NoClerk /\ spotLock'[s] = c)
    /\ \A p \in Processes :
          /\ \/ entryLock'[p] = entryLock[p]
             \/ entryLock'[p] = c /\ (entryLock[p] = NoClerk \/ Parked(p) # {})
          /\ processLock'[p] \in {processLock[p], c}

LEMMA TakeStep ==
    ASSUME YardInv, NEW c \in Clerks, NEW w, Takes(c, w),
           WellFormed(w), LocksHeld(c)', LocksOwned(c)'
    PROVE  YardInv'
<1>1. tx \in [Clerks -> Transaction]
  BY DEF YardInv, TypeOK
<1>2. tx' \in [Clerks -> Transaction] /\ tx'[c] = w /\ \A d \in Clerks : d # c => tx'[d] = tx[d]
  BY <1>1 DEF Takes
<1>3. TypeOK' /\ StatusTellsOccupancy' /\ OneSpot'
  BY <1>2 DEF Takes, YardInv, TypeOK, StatusTellsOccupancy, OneSpot
<1>4. ASSUME NEW d \in Clerks, d # c
      PROVE  WellFormed(tx[d])' /\ LocksHeld(d)' /\ LocksOwned(d)'
  <2>1. tx'[d] = tx[d] /\ WellFormed(tx[d]) /\ LocksHeld(d) /\ LocksOwned(d) /\ tx[d] \in Transaction
    BY <1>1, <1>2, <1>4 DEF YardInv
  <2>2. /\ \A s \in Spots : spotLock[s] = d <=> spotLock'[s] = d
        /\ \A p \in Processes : entryLock'[p] = d => entryLock[p] = d
        /\ \A p \in Processes : processLock'[p] = d => processLock[p] = d
        /\ \A p \in Processes : Parked(p)' = Parked(p)
        /\ \A p \in Processes : entryLock[p] = d /\ Parked(p) = {} => entryLock'[p] = d
    BY <1>4, Nulls DEF Takes, Parked
  <2>3. Sorted(d)' = Sorted(d)
    BY <2>1 DEF Sorted
  <2>4. WellFormed(tx[d])'
    BY <2>1
  <2>5. tx[d].op = "move" => Sorted(d)[1] \in Spots
    BY <2>1, SortedSpots DEF WellFormed
  <2>6. LocksHeld(d)'
    BY <2>1, <2>2, <2>3, <2>5 DEF LocksHeld, At, Takes, WellFormed
  <2>7. LocksOwned(d)'
    BY <2>1, <2>2, <2>3 DEF LocksOwned
  <2> QED
    BY <2>4, <2>6, <2>7
<1> QED
  BY <1>2, <1>3, <1>4 DEF YardInv

\* It ends, having written the spots of W, which no other has locked; a vehicle
\* that was nowhere and now is somewhere had its entry locked.
Writes(c, W) ==
    /\ End(c)
    /\ W \subseteq Spots /\ \A s \in W : spotLock[s] \in {c, NoClerk}
    /\ \A s \in Spots \ W : occupant'[s] = occupant[s] /\ spotStatus'[s] = spotStatus[s]
    /\ \A p \in Processes : Parked(p) = {} /\ Parked(p)' # {} => entryLock[p] = c
    /\ spotStatus' \in [Spots -> {"FREE", "OCCUPIED", "BLOCKED"}]
    /\ occupant' \in [Spots -> Processes \cup {NoProcess}]
    /\ DOMAIN yard' = Processes
    /\ \A p \in Processes : yard'[p] \in {YardOf[s] : s \in Spots} \cup {NoYard}
    /\ custody' \in [Processes -> {"HELD", "REPAIR", "GONE"}]

LEMMA EndStep ==
    ASSUME YardInv, NEW c \in Clerks, NEW W, Writes(c, W),
           StatusTellsOccupancy', OneSpot'
    PROVE  YardInv'
<1>1. /\ tx \in [Clerks -> Transaction] /\ spotLock \in [Spots -> Clerks \cup {NoClerk}]
      /\ entryLock \in [Processes -> Clerks \cup {NoClerk}]
      /\ processLock \in [Processes -> Clerks \cup {NoClerk}]
  BY DEF YardInv, TypeOK
<1>2. /\ tx' \in [Clerks -> Transaction] /\ tx'[c] = NoTransaction
      /\ \A d \in Clerks : d # c => tx'[d] = tx[d]
  BY <1>1, NoTransactionType DEF Writes, End
<1>3. /\ spotLock' \in [Spots -> Clerks \cup {NoClerk}]
      /\ entryLock' \in [Processes -> Clerks \cup {NoClerk}]
      /\ processLock' \in [Processes -> Clerks \cup {NoClerk}]
      /\ \A s \in Spots : spotLock'[s] = IF spotLock[s] = c THEN NoClerk ELSE spotLock[s]
      /\ \A p \in Processes :
            /\ entryLock'[p] = IF entryLock[p] = c THEN NoClerk ELSE entryLock[p]
            /\ processLock'[p] = IF processLock[p] = c THEN NoClerk ELSE processLock[p]
  BY <1>1 DEF Writes, End, Unlocked
<1>4. TypeOK'
  BY <1>2, <1>3 DEF TypeOK, Writes
<1>5. WellFormed(tx[c])' /\ LocksHeld(c)' /\ LocksOwned(c)'
  <2>1. tx'[c].op = "none" /\ tx'[c].pc = "none" /\ WellFormed(tx'[c])
    BY <1>2, NoTransactionType
  <2>2. LocksHeld(c)'
    BY <2>1 DEF LocksHeld, At
  <2>3. LocksOwned(c)'
    BY <1>3, <2>1, Nulls DEF LocksOwned
  <2> QED
    BY <2>1, <2>2, <2>3
<1>6. ASSUME NEW d \in Clerks, d # c
      PROVE  WellFormed(tx[d])' /\ LocksHeld(d)' /\ LocksOwned(d)'
  <2>1. tx'[d] = tx[d] /\ WellFormed(tx[d]) /\ LocksHeld(d) /\ LocksOwned(d) /\ tx[d] \in Transaction
    BY <1>1, <1>2, <1>6 DEF YardInv
  <2>2. /\ \A s \in Spots : spotLock[s] = d <=> spotLock'[s] = d
        /\ \A p \in Processes : entryLock[p] = d <=> entryLock'[p] = d
        /\ \A p \in Processes : processLock[p] = d <=> processLock'[p] = d
    BY <1>3, <1>6, Nulls
  <2>3. \A s \in Spots : spotLock[s] = d => spotStatus'[s] = spotStatus[s]
    BY <1>6, Nulls DEF Writes
  <2>4. \A p \in Processes : entryLock[p] = d /\ Parked(p) = {} => Parked(p)' = {}
    BY <1>6 DEF Writes
  <2>5. Sorted(d)' = Sorted(d)
    BY <2>1 DEF Sorted
  <2>6. tx[d].op = "move" => Sorted(d)[1] \in Spots
    BY <2>1, SortedSpots DEF WellFormed
  <2>7. LocksHeld(d)'
    <3>1. ASSUME NEW p \in Processes, p = tx[d].process
          PROVE  Parked(tx[d].process)' = Parked(p)'
      BY <2>1, <3>1 DEF Parked
    <3>2. tx'[d].process = tx[d].process
      BY <2>1
    <3> QED
      BY <2>1, <2>2, <2>3, <2>4, <2>5, <2>6, <3>1, <3>2 DEF LocksHeld, At, WellFormed
  <2>8. LocksOwned(d)'
    BY <2>1, <2>2, <2>5 DEF LocksOwned
  <2> QED
    BY <2>1, <2>7, <2>8
<1> QED
  BY <1>4, <1>5, <1>6 DEF YardInv, Writes

\* A refusal writes nothing, and neither does an exit or a return of a vehicle
\* that stands in no spot.
LEMMA NothingWritten ==
    ASSUME YardInv, NEW c \in Clerks, End(c), UNCHANGED <<spotStatus, occupant, yard>>,
           custody' \in [Processes -> {"HELD", "REPAIR", "GONE"}]
    PROVE  YardInv'
<1>1. Writes(c, {})
  BY DEF Writes, YardInv, TypeOK, Parked
<1>2. StatusTellsOccupancy' /\ OneSpot'
  BY DEF YardInv, StatusTellsOccupancy, OneSpot
<1> QED
  BY <1>1, <1>2, EndStep

LEMMA RefuseStep == ASSUME YardInv, NEW c \in Clerks, Refuse(c) PROVE YardInv'
BY NothingWritten DEF Refuse, YardInv, TypeOK

---------------------------------------------------------------------------
(* The steps.                                                              *)

\* A transaction that goes on to the step pc.
LEMMA Onward ==
    ASSUME YardInv, NEW c \in Clerks, NEW pc \in {"second", "entry", "occupant", "process", "write"},
           GoOn(c, pc), tx[c].op # "none", pc \in {"second", "occupant"} => tx[c].op = "move"
    PROVE  \E w : /\ w \in Transaction /\ tx' = [tx EXCEPT ![c] = w] /\ WellFormed(w)
                  /\ w.pc = pc /\ w.op = tx[c].op /\ w.process = tx[c].process
                  /\ w.from = tx[c].from /\ w.to = tx[c].to /\ tx'[c] = w
<1> DEFINE w == [tx[c] EXCEPT !.pc = pc]
<1>1. tx \in [Clerks -> Transaction] /\ tx[c] \in Transaction /\ WellFormed(tx[c])
  BY DEF YardInv, TypeOK
<1>2. tx' = [tx EXCEPT ![c] = w]
  BY <1>1 DEF GoOn
<1>3. /\ w \in Transaction /\ w.pc = pc /\ w.op = tx[c].op /\ w.process = tx[c].process
      /\ w.from = tx[c].from /\ w.to = tx[c].to
  <2>1. pc \in Steps
    BY DEF Steps
  <2> QED
    BY <1>1, <2>1, NextStep
<1> HIDE DEF w
<1>4. tx'[c] = w
  BY <1>1, <1>2
<1>5. WellFormed(w)
  BY <1>1, <1>3 DEF WellFormed
<1> QED
  BY <1>2, <1>3, <1>4, <1>5

\* The locks after one that was free has been taken.
LEMMA LockTaken ==
    ASSUME NEW lock, NEW rows, NEW c \in Clerks, lock \in [rows -> Clerks \cup {NoClerk}],
           NEW r \in rows, NEW l, l = [lock EXCEPT ![r] = c]
    PROVE  /\ l \in [rows -> Clerks \cup {NoClerk}] /\ l[r] = c
           /\ \A s \in rows : s # r => l[s] = lock[s]
OBVIOUS

LEMMA AskStep ==
    ASSUME YardInv, NEW c \in Clerks, Ask(c)
    PROVE  YardInv'
<1>1. PICK t \in Transaction : /\ t.op \in Calls /\ t.pc = "start" /\ Fits(t)
                               /\ tx' = [tx EXCEPT ![c] = t]
  BY DEF Ask
<1>2. UNCHANGED <<spotStatus, occupant, yard, custody, spotLock, entryLock, processLock>> /\ ~Open(c)
  BY DEF Ask, lockVars
<1>3. WellFormed(t)
  BY <1>1, Fields, Nulls, CallsAssumption DEF Fits, WellFormed, Exits, Operations
<1>4. Takes(c, t)
  BY <1>1, <1>2 DEF Takes, YardInv, TypeOK
<1>5. tx'[c] = t /\ tx[c].pc = "none"
  BY <1>1, <1>2 DEF YardInv, TypeOK, Open, WellFormed
<1>6. LocksHeld(c)'
  BY <1>1, <1>5 DEF LocksHeld, At
<1>7. LocksOwned(c)'
  BY <1>1, <1>2, <1>5 DEF YardInv, LocksOwned
<1> QED
  BY <1>3, <1>4, <1>6, <1>7, TakeStep

LEMMA AssignSpotStep ==
    ASSUME YardInv, NEW c \in Clerks, AssignSpot(c)
    PROVE  YardInv'
<1> DEFINE s == tx[c].to
<1>1. tx[c].op = "assign" /\ spotLock[s] = NoClerk /\ s \in Spots
  BY DEF AssignSpot, At, YardInv, WellFormed
<1>2. CASE spotStatus[s] # "FREE"
  BY <1>2, RefuseStep DEF AssignSpot
<1>3. CASE spotStatus[s] = "FREE"
  <2>1. spotLock' = [spotLock EXCEPT ![s] = c] /\ UNCHANGED <<entryLock, processLock>> /\ GoOn(c, "entry")
    BY <1>3 DEF AssignSpot
  <2>2. PICK w : /\ w \in Transaction /\ tx' = [tx EXCEPT ![c] = w] /\ WellFormed(w)
                 /\ w.pc = "entry" /\ w.op = "assign" /\ w.to = s /\ tx'[c] = w
    BY <1>1, <2>1, Onward
  <2> HIDE DEF s
  <2>3. spotLock' \in [Spots -> Clerks \cup {NoClerk}] /\ spotLock'[s] = c
        /\ \A u \in Spots : u # s => spotLock'[u] = spotLock[u]
    BY <1>1, <2>1 DEF YardInv, TypeOK
  <2>4. Takes(c, w)
    BY <1>1, <2>1, <2>2, <2>3 DEF Takes, GoOn, YardInv, TypeOK
  <2>5. LocksHeld(c)'
    BY <1>3, <2>1, <2>2, <2>3 DEF LocksHeld, At, GoOn
  <2>6. LocksOwned(c)'
    BY <2>2 DEF LocksOwned
  <2> QED
    BY <2>2, <2>4, <2>5, <2>6, TakeStep
<1> QED
  BY <1>2, <1>3

LEMMA AssignEntryStep ==
    ASSUME YardInv, NEW c \in Clerks, AssignEntry(c)
    PROVE  YardInv'
<1> DEFINE s == tx[c].to
           p == tx[c].process
<1>1. /\ tx[c].op = "assign" /\ entryLock[p] = NoClerk /\ s \in Spots /\ p \in Processes
      /\ spotLock[s] = c /\ spotStatus[s] = "FREE"
  BY DEF AssignEntry, At, YardInv, WellFormed, LocksHeld
<1>2. CASE Parked(p) # {}
  BY <1>2, RefuseStep DEF AssignEntry
<1>3. CASE Parked(p) = {}
  <2>1. entryLock' = [entryLock EXCEPT ![p] = c] /\ UNCHANGED <<spotLock, processLock>> /\ GoOn(c, "process")
    BY <1>3 DEF AssignEntry
  <2>2. PICK w : /\ w \in Transaction /\ tx' = [tx EXCEPT ![c] = w] /\ WellFormed(w)
                 /\ w.pc = "process" /\ w.op = "assign" /\ w.to = s /\ w.process = p /\ tx'[c] = w
    BY <1>1, <2>1, Onward
  <2>5. Parked(tx[c].process)' = Parked(tx[c].process)
    BY <2>1, <2>2 DEF GoOn, Parked
  <2> HIDE DEF s, p
  <2>3. entryLock' \in [Processes -> Clerks \cup {NoClerk}] /\ entryLock'[p] = c
        /\ \A u \in Processes : u # p => entryLock'[u] = entryLock[u]
    BY <1>1, <2>1 DEF YardInv, TypeOK
  <2>4. Takes(c, w)
    BY <1>1, <2>1, <2>2, <2>3 DEF Takes, GoOn, YardInv, TypeOK
  <2>6. LocksHeld(c)'
    BY ZenonT(60), <1>1, <1>3, <2>1, <2>2, <2>3, <2>5 DEF LocksHeld, At, GoOn, p
  <2>7. LocksOwned(c)'
    BY <2>2 DEF LocksOwned
  <2> QED
    BY <2>2, <2>4, <2>6, <2>7, TakeStep
<1> QED
  BY <1>2, <1>3

\* The vehicle comes into its spot.
LEMMA AssignCommitStep ==
    ASSUME YardInv, NEW c \in Clerks, AssignCommit(c)
    PROVE  YardInv'
<1> DEFINE s == tx[c].to
           p == tx[c].process
<1>1. /\ s \in Spots /\ p \in Processes /\ p # NoProcess /\ spotLock[s] = c /\ spotStatus[s] = "FREE"
      /\ entryLock[p] = c /\ Parked(p) = {}
  BY Nulls DEF AssignCommit, At, YardInv, WellFormed, LocksHeld
<1>2. /\ End(c) /\ UNCHANGED custody
      /\ occupant' = [occupant EXCEPT ![s] = p] /\ spotStatus' = [spotStatus EXCEPT ![s] = "OCCUPIED"]
      /\ yard' = [yard EXCEPT ![p] = YardOf[s]]
  BY DEF AssignCommit
<1> HIDE DEF s, p
<1>3. TypeOK /\ StatusTellsOccupancy /\ OneSpot
  BY DEF YardInv
<1>4. /\ occupant' \in [Spots -> Processes \cup {NoProcess}] /\ occupant'[s] = p
      /\ spotStatus' \in [Spots -> {"FREE", "OCCUPIED", "BLOCKED"}] /\ spotStatus'[s] = "OCCUPIED"
      /\ \A u \in Spots : u # s => occupant'[u] = occupant[u] /\ spotStatus'[u] = spotStatus[u]
  BY <1>1, <1>2, <1>3 DEF TypeOK
<1>5. DOMAIN yard' = Processes /\ \A q \in Processes : yard'[q] \in {YardOf[u] : u \in Spots} \cup {NoYard}
  BY <1>1, <1>2, <1>3 DEF TypeOK
<1>6. \A q \in Processes : Parked(q) = {} /\ Parked(q)' # {} => q = p
  BY <1>4 DEF Parked
<1>7. Writes(c, {s})
  BY <1>1, <1>2, <1>3, <1>4, <1>5, <1>6 DEF Writes, TypeOK
<1>8. StatusTellsOccupancy'
  BY <1>1, <1>3, <1>4 DEF StatusTellsOccupancy
<1>9. OneSpot'
  BY <1>1, <1>3, <1>4 DEF OneSpot, Parked
<1> QED
  BY <1>7, <1>8, <1>9, EndStep

LEMMA VacateSpotStep ==
    ASSUME YardInv, NEW c \in Clerks, VacateSpot(c)
    PROVE  YardInv'
<1> DEFINE s == tx[c].from
           q == occupant[s]
<1>1. tx[c].op = "vacate" /\ spotLock[s] = NoClerk /\ s \in Spots
  BY DEF VacateSpot, At, YardInv, WellFormed
<1>2. CASE spotStatus[s] # "OCCUPIED"
  BY <1>2, RefuseStep DEF VacateSpot
<1>3. CASE spotStatus[s] = "OCCUPIED"
  <2>1. /\ spotLock' = [spotLock EXCEPT ![s] = c] /\ entryLock' = [entryLock EXCEPT ![q] = c]
        /\ UNCHANGED processLock /\ GoOn(c, "process")
    BY <1>3 DEF VacateSpot
  <2>2. PICK w : /\ w \in Transaction /\ tx' = [tx EXCEPT ![c] = w] /\ WellFormed(w)
                 /\ w.pc = "process" /\ w.op = "vacate" /\ w.from = s /\ tx'[c] = w
    BY <1>1, <2>1, Onward
  <2>3. q \in Processes /\ Parked(q) # {}
    BY <1>1, <1>3 DEF YardInv, TypeOK, StatusTellsOccupancy, Parked
  <2> HIDE DEF s, q
  <2>4. /\ spotLock' \in [Spots -> Clerks \cup {NoClerk}] /\ spotLock'[s] = c
        /\ \A u \in Spots : u # s => spotLock'[u] = spotLock[u]
    BY <1>1, <2>1 DEF YardInv, TypeOK
  <2>5. /\ entryLock' \in [Processes -> Clerks \cup {NoClerk}] /\ entryLock'[q] = c
        /\ \A p \in Processes : p # q => entryLock'[p] = entryLock[p]
    BY <2>1, <2>3 DEF YardInv, TypeOK
  <2>6. Takes(c, w)
    BY <1>1, <2>1, <2>2, <2>3, <2>4, <2>5 DEF Takes, GoOn, YardInv, TypeOK
  <2>7. LocksHeld(c)'
    BY <1>3, <2>1, <2>2, <2>4 DEF LocksHeld, At, GoOn
  <2>8. LocksOwned(c)'
    BY <2>2 DEF LocksOwned
  <2> QED
    BY <2>2, <2>6, <2>7, <2>8, TakeStep
<1> QED
  BY <1>2, <1>3

\* A spot that its transaction has locked becomes free; so in an exit.
LEMMA SpotFreed ==
    ASSUME YardInv, NEW c \in Clerks, NEW s \in Spots, spotLock[s] \in {c, NoClerk},
           occupant' = [occupant EXCEPT ![s] = NoProcess],
           spotStatus' = [spotStatus EXCEPT ![s] = "FREE"],
           End(c), UNCHANGED yard, custody' \in [Processes -> {"HELD", "REPAIR", "GONE"}]
    PROVE  YardInv'
<1>1. TypeOK /\ StatusTellsOccupancy /\ OneSpot
  BY DEF YardInv
<1>2. /\ occupant' \in [Spots -> Processes \cup {NoProcess}] /\ occupant'[s] = NoProcess
      /\ spotStatus' \in [Spots -> {"FREE", "OCCUPIED", "BLOCKED"}] /\ spotStatus'[s] = "FREE"
      /\ \A u \in Spots : u # s => occupant'[u] = occupant[u] /\ spotStatus'[u] = spotStatus[u]
  BY <1>1 DEF TypeOK
<1>3. \A q \in Processes : Parked(q)' \subseteq Parked(q)
  BY <1>2, Nulls DEF Parked
<1>4. Writes(c, {s})
  BY <1>1, <1>2, <1>3 DEF Writes, TypeOK
<1>5. StatusTellsOccupancy'
  BY <1>1, <1>2 DEF StatusTellsOccupancy
<1>6. OneSpot'
  BY <1>1, <1>2 DEF OneSpot
<1> QED
  BY <1>4, <1>5, <1>6, EndStep

LEMMA VacateCommitStep ==
    ASSUME YardInv, NEW c \in Clerks, VacateCommit(c)
    PROVE  YardInv'
<1>1. tx[c].from \in Spots /\ spotLock[tx[c].from] = c
  BY DEF VacateCommit, At, YardInv, WellFormed, LocksHeld
<1> QED
  BY <1>1, SpotFreed DEF VacateCommit, YardInv, TypeOK

LEMMA MoveFirstStep ==
    ASSUME YardInv, NEW c \in Clerks, MoveFirst(c)
    PROVE  YardInv'
<1> DEFINE s == Sorted(c)[1]
<1>1. tx[c].op = "move" /\ tx[c].pc = "start" /\ spotLock[s] = NoClerk /\ s \in Spots
  BY SortedSpots DEF MoveFirst, At, YardInv, WellFormed
<1>2. spotLock' = [spotLock EXCEPT ![s] = c] /\ UNCHANGED <<entryLock, processLock>> /\ GoOn(c, "second")
  BY DEF MoveFirst
<1>3. PICK w : /\ w \in Transaction /\ tx' = [tx EXCEPT ![c] = w] /\ WellFormed(w)
               /\ w.pc = "second" /\ w.op = "move" /\ w.from = tx[c].from /\ w.to = tx[c].to
               /\ tx'[c] = w
  BY <1>1, <1>2, Onward
<1>4. Sorted(c)'[1] = s
  BY <1>3 DEF Sorted
<1> HIDE DEF s
<1>5. /\ spotLock' \in [Spots -> Clerks \cup {NoClerk}] /\ spotLock'[s] = c
      /\ \A u \in Spots : u # s => spotLock'[u] = spotLock[u]
  BY <1>1, <1>2 DEF YardInv, TypeOK
<1>6. Takes(c, w)
  BY <1>1, <1>2, <1>3, <1>5 DEF Takes, GoOn, YardInv, TypeOK
<1>7. LocksHeld(c)'
  BY <1>3, <1>4, <1>5 DEF LocksHeld, At
<1>8. LocksOwned(c)'
  <2>1. /\ \A u \in Spots : spotLock[u] # c
        /\ \A p \in Processes : entryLock[p] # c /\ processLock[p] # c
    BY <1>1 DEF YardInv, LocksOwned
  <2> QED
    BY <1>2, <1>3, <1>4, <1>5, <2>1 DEF LocksOwned
<1> QED
  BY <1>3, <1>6, <1>7, <1>8, TakeStep

LEMMA MoveSecondStep ==
    ASSUME YardInv, NEW c \in Clerks, MoveSecond(c)
    PROVE  YardInv'
<1> DEFINE s == Sorted(c)[1]
           u == Sorted(c)[2]
           from == tx[c].from
           to == tx[c].to
           q == occupant[from]
<1>1. /\ tx[c].op = "move" /\ spotLock[s] = c /\ spotLock[u] = NoClerk
      /\ from \in Spots /\ to \in Spots /\ from # to
  BY DEF MoveSecond, At, YardInv, WellFormed, LocksHeld
<1>2. s \in Spots /\ u \in Spots /\ {s, u} = {from, to}
  BY <1>1, SortedSpots
<1>3. CASE ~(spotStatus[from] = "OCCUPIED" /\ spotStatus[to] = "FREE")
  BY <1>3, RefuseStep DEF MoveSecond
<1>4. CASE spotStatus[from] = "OCCUPIED" /\ spotStatus[to] = "FREE"
  <2>1. /\ spotLock' = [spotLock EXCEPT ![u] = c] /\ entryLock' = [entryLock EXCEPT ![q] = c]
        /\ UNCHANGED processLock /\ GoOn(c, "occupant")
    BY <1>4 DEF MoveSecond
  <2>2. PICK w : /\ w \in Transaction /\ tx' = [tx EXCEPT ![c] = w] /\ WellFormed(w)
                 /\ w.pc = "occupant" /\ w.op = "move" /\ w.from = from /\ w.to = to
                 /\ tx'[c] = w
    BY <1>1, <2>1, Onward
  <2>3. q \in Processes /\ Parked(q) # {}
    BY <1>1, <1>4 DEF YardInv, TypeOK, StatusTellsOccupancy, Parked
  <2> HIDE DEF s, u, q, from, to
  <2>4. /\ spotLock' \in [Spots -> Clerks \cup {NoClerk}] /\ spotLock'[u] = c
        /\ \A x \in Spots : x # u => spotLock'[x] = spotLock[x]
    BY <1>2, <2>1 DEF YardInv, TypeOK
  <2>5. /\ entryLock' \in [Processes -> Clerks \cup {NoClerk}] /\ entryLock'[q] = c
        /\ \A p \in Processes : p # q => entryLock'[p] = entryLock[p]
    BY <2>1, <2>3 DEF YardInv, TypeOK
  <2>6. Takes(c, w)
    BY <1>1, <2>1, <2>2, <2>3, <2>4, <2>5 DEF Takes, GoOn, YardInv, TypeOK
  <2>7. spotLock'[from] = c /\ spotLock'[to] = c
    BY <1>1, <1>2, <2>4
  <2>8. LocksHeld(c)'
    BY <1>4, <2>1, <2>2, <2>7 DEF LocksHeld, At, GoOn
  <2>9. LocksOwned(c)'
    BY <2>2 DEF LocksOwned
  <2> QED
    BY <2>2, <2>6, <2>8, <2>9, TakeStep
<1> QED
  BY <1>3, <1>4

LEMMA MoveOccupantStep ==
    ASSUME YardInv, NEW c \in Clerks, MoveOccupant(c)
    PROVE  YardInv'
<1> DEFINE from == tx[c].from
           to == tx[c].to
           q == occupant[from]
<1>1. /\ tx[c].op = "move" /\ from \in Spots /\ to \in Spots
      /\ spotLock[from] = c /\ spotLock[to] = c
      /\ spotStatus[from] = "OCCUPIED" /\ spotStatus[to] = "FREE"
  BY DEF MoveOccupant, At, YardInv, WellFormed, LocksHeld
<1>2. processLock' = [processLock EXCEPT ![q] = c] /\ UNCHANGED <<spotLock, entryLock>> /\ GoOn(c, "process")
  BY DEF MoveOccupant
<1>3. PICK w : /\ w \in Transaction /\ tx' = [tx EXCEPT ![c] = w] /\ WellFormed(w)
               /\ w.pc = "process" /\ w.op = "move" /\ w.from = from /\ w.to = to /\ tx'[c] = w
  BY <1>1, <1>2, Onward
<1>4. q \in Processes
  BY <1>1 DEF YardInv, TypeOK, StatusTellsOccupancy
<1> HIDE DEF q, from, to
<1>5. /\ processLock' \in [Processes -> Clerks \cup {NoClerk}]
      /\ \A p \in Processes : processLock'[p] \in {processLock[p], c}
  BY <1>2, <1>4 DEF YardInv, TypeOK
<1>6. Takes(c, w)
  BY <1>2, <1>3, <1>5 DEF Takes, GoOn, YardInv, TypeOK
<1>7. LocksHeld(c)'
  BY <1>1, <1>2, <1>3 DEF LocksHeld, At, GoOn
<1>8. LocksOwned(c)'
  BY <1>3 DEF LocksOwned
<1> QED
  BY <1>3, <1>6, <1>7, <1>8, TakeStep

\* The vehicle in the first spot comes into the second, whoever it is.
LEMMA MoveCommitStep ==
    ASSUME YardInv, NEW c \in Clerks, MoveCommit(c)
    PROVE  YardInv'
<1> DEFINE from == tx[c].from
           to == tx[c].to
           q == occupant[from]
           p == tx[c].process
<1>1. /\ from \in Spots /\ to \in Spots /\ from # to /\ p \in Processes
      /\ spotLock[from] = c /\ spotLock[to] = c
      /\ spotStatus[from] = "OCCUPIED" /\ spotStatus[to] = "FREE"
  BY DEF MoveCommit, At, YardInv, WellFormed, LocksHeld
<1>2. /\ End(c) /\ UNCHANGED custody
      /\ occupant' = [occupant EXCEPT ![from] = NoProcess, ![to] = q]
      /\ spotStatus' = [spotStatus EXCEPT ![from] = "FREE", ![to] = "OCCUPIED"]
      /\ yard' = yard \/ yard' = [yard EXCEPT ![p] = YardOf[to]]
  BY DEF MoveCommit
<1>3. TypeOK /\ StatusTellsOccupancy /\ OneSpot
  BY DEF YardInv
<1>4. q \in Processes /\ q # NoProcess /\ occupant[to] = NoProcess /\ occupant[from] = q
  BY <1>1, <1>3 DEF TypeOK, StatusTellsOccupancy
<1> HIDE DEF q, from, to, p
<1>5. /\ occupant' \in [Spots -> Processes \cup {NoProcess}]
      /\ occupant'[from] = NoProcess /\ occupant'[to] = q
      /\ spotStatus' \in [Spots -> {"FREE", "OCCUPIED", "BLOCKED"}]
      /\ spotStatus'[from] = "FREE" /\ spotStatus'[to] = "OCCUPIED"
      /\ \A u \in Spots : u \notin {from, to} =>
            occupant'[u] = occupant[u] /\ spotStatus'[u] = spotStatus[u]
  BY <1>1, <1>2, <1>3, <1>4 DEF TypeOK
<1>6. DOMAIN yard' = Processes /\ \A r \in Processes : yard'[r] \in {YardOf[u] : u \in Spots} \cup {NoYard}
  BY <1>1, <1>2, <1>3 DEF TypeOK
<1>7. \A r \in Processes : Parked(r) = {} => Parked(r)' = {}
  BY <1>1, <1>4, <1>5, Nulls DEF Parked
<1>8. Writes(c, {from, to})
  BY <1>1, <1>2, <1>3, <1>5, <1>6, <1>7 DEF Writes, TypeOK
<1>9. StatusTellsOccupancy'
  BY <1>3, <1>4, <1>5 DEF StatusTellsOccupancy
<1>10. OneSpot'
  BY <1>1, <1>3, <1>4, <1>5 DEF OneSpot
<1> QED
  BY <1>8, <1>9, <1>10, EndStep

LEMMA ExitProcessStep ==
    ASSUME YardInv, NEW c \in Clerks, ExitProcess(c)
    PROVE  YardInv'
<1> DEFINE p == tx[c].process
<1>1. /\ tx[c].op \in Exits /\ p \in Processes /\ tx[c] \in Transaction /\ processLock[p] = NoClerk
      /\ tx \in [Clerks -> Transaction]
  BY DEF ExitProcess, YardInv, TypeOK, WellFormed, Exits
<1>2. CASE Refuse(c)
  BY <1>2, RefuseStep
<1>3. CASE /\ custody' = [custody EXCEPT ![p] = Outside(tx[c].op)]
           /\ UNCHANGED <<spotStatus, occupant, yard>> /\ End(c)
  <2>1. Outside(tx[c].op) \in {"HELD", "REPAIR", "GONE"}
    BY DEF Outside
  <2> QED
    BY <1>3, <2>1, NothingWritten DEF YardInv, TypeOK
<1>4. ASSUME NEW s \in Parked(p),
             processLock' = [processLock EXCEPT ![p] = c],
             tx' = [tx EXCEPT ![c].pc = "spot", ![c].from = s, ![c].to = s],
             UNCHANGED <<spotStatus, occupant, yard, custody, spotLock, entryLock>>
      PROVE  YardInv'
  <2> DEFINE w == [op |-> tx[c].op, pc |-> "spot", process |-> p, from |-> s, to |-> s]
  <2>1. s \in Spots
    BY DEF Parked
  <2>2. w \in Transaction /\ WellFormed(w)
    BY <1>1, <2>1 DEF Transaction, WellFormed, Exits
  <2>3. tx' = [tx EXCEPT ![c] = w]
    <3>1. [tx[c] EXCEPT !.pc = "spot", !.from = s, !.to = s] = w
      BY <1>1, ExitFields
    <3>2. tx' = [tx EXCEPT ![c] = [tx[c] EXCEPT !.pc = "spot", !.from = s, !.to = s]]
      BY <1>1, <1>4
    <3> QED
      BY <3>1, <3>2
  <2>4. w.pc = "spot"
    OBVIOUS
  <2> HIDE DEF w, p
  <2>5. tx'[c] = w
    BY <1>1, <2>3
  <2>6. processLock' \in [Processes -> Clerks \cup {NoClerk}]
        /\ \A r \in Processes : processLock'[r] \in {processLock[r], c}
    BY <1>1, <1>4 DEF YardInv, TypeOK
  <2>7. Takes(c, w)
    BY <1>4, <2>2, <2>3, <2>6 DEF Takes, YardInv, TypeOK
  <2>8. LocksHeld(c)' /\ LocksOwned(c)'
    BY <2>4, <2>5 DEF LocksHeld, LocksOwned, At
  <2> QED
    BY <2>2, <2>7, <2>8, TakeStep
<1> QED
  BY <1>1, <1>2, <1>3, <1>4 DEF ExitProcess

LEMMA ExitCommitStep ==
    ASSUME YardInv, NEW c \in Clerks, ExitCommit(c)
    PROVE  YardInv'
<1> DEFINE s == tx[c].from
           p == tx[c].process
<1>1. s \in Spots /\ p \in Processes /\ spotLock[s] = NoClerk
  BY DEF ExitCommit, YardInv, WellFormed, Exits
<1>2. /\ custody' = [custody EXCEPT ![p] = Outside(tx[c].op)] /\ UNCHANGED yard /\ End(c)
      /\ \/ occupant' = [occupant EXCEPT ![s] = NoProcess] /\ spotStatus' = [spotStatus EXCEPT ![s] = "FREE"]
         \/ UNCHANGED <<occupant, spotStatus>>
  BY DEF ExitCommit
<1>3. custody' \in [Processes -> {"HELD", "REPAIR", "GONE"}]
  <2>1. Outside(tx[c].op) \in {"HELD", "REPAIR", "GONE"}
    BY DEF Outside
  <2> QED
    BY <1>1, <1>2, <2>1 DEF YardInv, TypeOK
<1> HIDE DEF s
<1> QED
  BY <1>1, <1>2, <1>3, SpotFreed, NothingWritten

LEMMA ReturnStep ==
    ASSUME YardInv, NEW c \in Clerks, Return(c)
    PROVE  YardInv'
<1>1. tx[c].process \in Processes
  BY DEF Return, At, YardInv, WellFormed
<1>2. custody' \in [Processes -> {"HELD", "REPAIR", "GONE"}]
  BY <1>1 DEF Return, YardInv, TypeOK
<1> QED
  BY <1>2, NothingWritten DEF Return

LEMMA EditReadStep ==
    ASSUME YardInv, NEW c \in Clerks, EditRead(c)
    PROVE  YardInv'
<1>1. tx[c].op = "edit"
  BY DEF EditRead, At
<1>2. CASE spotStatus[tx[c].to] = "OCCUPIED"
  BY <1>2, RefuseStep DEF EditRead
<1>3. CASE spotStatus[tx[c].to] # "OCCUPIED"
  <2>1. UNCHANGED <<spotLock, entryLock, processLock>> /\ GoOn(c, "write")
    BY <1>3 DEF EditRead, lockVars
  <2>2. PICK w : /\ w \in Transaction /\ tx' = [tx EXCEPT ![c] = w] /\ WellFormed(w)
                 /\ w.pc = "write" /\ w.op = "edit" /\ tx'[c] = w
    BY <1>1, <2>1, Onward
  <2>3. Takes(c, w)
    BY <2>1, <2>2 DEF Takes, GoOn, YardInv, TypeOK
  <2>4. LocksHeld(c)' /\ LocksOwned(c)'
    BY <2>2 DEF LocksHeld, LocksOwned, At
  <2> QED
    BY <2>2, <2>3, <2>4, TakeStep
<1> QED
  BY <1>2, <1>3

\* A status is written into a spot in which no vehicle stands.
LEMMA EditWriteStep ==
    ASSUME YardInv, NEW c \in Clerks, EditWrite(c)
    PROVE  YardInv'
<1> DEFINE s == tx[c].to
<1>1. s \in Spots /\ spotLock[s] = NoClerk
  BY DEF EditWrite, At, YardInv, WellFormed
<1>2. CASE occupant[s] # NoProcess
  BY <1>2, RefuseStep DEF EditWrite
<1>3. CASE occupant[s] = NoProcess
  <2>1. PICK status \in {"FREE", "BLOCKED"} : spotStatus' = [spotStatus EXCEPT ![s] = status]
    BY <1>3 DEF EditWrite
  <2>2. UNCHANGED <<occupant, yard, custody>> /\ End(c)
    BY <1>3 DEF EditWrite
  <2> HIDE DEF s
  <2>3. TypeOK /\ StatusTellsOccupancy /\ OneSpot
    BY DEF YardInv
  <2>4. /\ spotStatus' \in [Spots -> {"FREE", "OCCUPIED", "BLOCKED"}] /\ spotStatus'[s] # "OCCUPIED"
        /\ \A u \in Spots : u # s => spotStatus'[u] = spotStatus[u]
    BY <1>1, <2>1, <2>3 DEF TypeOK
  <2>5. Writes(c, {s})
    BY <1>1, <2>2, <2>3, <2>4 DEF Writes, TypeOK, Parked
  <2>6. StatusTellsOccupancy' /\ OneSpot'
    BY <1>3, <2>2, <2>3, <2>4 DEF StatusTellsOccupancy, OneSpot
  <2> QED
    BY <2>5, <2>6, EndStep
<1> QED
  BY <1>2, <1>3

---------------------------------------------------------------------------
(* The theorems.                                                           *)

LEMMA FirstState == Init => YardInv
<1> SUFFICES ASSUME Init PROVE YardInv
  OBVIOUS
<1>1. \A c \in Clerks : tx[c] = NoTransaction
  BY DEF Init
<1>2. TypeOK
  BY NoTransactionType DEF Init, TypeOK
<1>3. StatusTellsOccupancy /\ OneSpot
  BY DEF Init, StatusTellsOccupancy, OneSpot
<1>4. ASSUME NEW c \in Clerks PROVE WellFormed(tx[c]) /\ LocksHeld(c) /\ LocksOwned(c)
  <2>1. WellFormed(tx[c]) /\ tx[c].op = "none" /\ tx[c].pc = "none"
    BY <1>1, NoTransactionType
  <2> QED
    BY <2>1, Nulls DEF Init, LocksHeld, LocksOwned, At
<1> QED
  BY <1>2, <1>3, <1>4 DEF YardInv

LEMMA YardInvIsInductive == YardInv /\ [Next]_vars => YardInv'
<1> SUFFICES ASSUME YardInv, [Next]_vars PROVE YardInv'
  OBVIOUS
<1>1. ASSUME NEW c \in Clerks, Ask(c) \/ Proceed(c) PROVE YardInv'
  <2>1. CASE Abort(c)
    BY <2>1, RefuseStep DEF Abort
  <2> QED
    BY <1>1, <2>1, AskStep, AssignSpotStep, AssignEntryStep, AssignCommitStep,
       VacateSpotStep, VacateCommitStep, MoveFirstStep, MoveSecondStep, MoveOccupantStep,
       MoveCommitStep, ExitProcessStep, ExitCommitStep, ReturnStep, EditReadStep,
       EditWriteStep DEF Proceed
<1>2. CASE UNCHANGED vars
  <2>1. UNCHANGED <<spotStatus, occupant, yard, custody, spotLock, entryLock, processLock, tx>>
    BY <1>2 DEF vars, lockVars
  <2>2. TypeOK' /\ StatusTellsOccupancy' /\ OneSpot'
    BY <2>1 DEF YardInv, TypeOK, StatusTellsOccupancy, OneSpot
  <2>3. ASSUME NEW c \in Clerks PROVE WellFormed(tx[c])' /\ LocksHeld(c)' /\ LocksOwned(c)'
    BY <2>1 DEF YardInv, LocksHeld, LocksOwned, At, Parked, Sorted
  <2> QED
    BY <2>2, <2>3 DEF YardInv
<1> QED
  BY <1>1, <1>2 DEF Next

\* Wherever the interleaving of the locks has led: a locked row is as it was
\* when it was locked.
THEOREM YardInvariant == Spec => []YardInv
<1>1. Init => YardInv
  BY FirstState
<1>2. YardInv /\ [Next]_vars => YardInv'
  BY YardInvIsInductive
<1> QED
  BY <1>1, <1>2, PTL DEF Spec

\* The rows, the locks and the transactions keep their types.
THEOREM YardTypeCorrect == Spec => []TypeOK
<1>1. YardInv => TypeOK
  BY DEF YardInv
<1> QED
  BY <1>1, YardInvariant, PTL

\* A spot says occupied exactly while a vehicle stands in it, whatever an edit
\* read before a vehicle came.
THEOREM OccupiedMeansOccupied == Spec => []StatusTellsOccupancy
<1>1. YardInv => StatusTellsOccupancy
  BY DEF YardInv
<1> QED
  BY <1>1, YardInvariant, PTL

\* A spot that becomes free is one that a vehicle leaves, or was free.
LEMMA LeaveOrStay ==
    ASSUME YardInv, NEW s \in Spots, occupant' = [occupant EXCEPT ![s] = NoProcess]
    PROVE  Parking!Next \/ UNCHANGED occupant
<1>1. CASE occupant[s] = NoProcess
  <2>1. occupant \in [Spots -> Processes \cup {NoProcess}]
    BY DEF YardInv, TypeOK
  <2> QED
    BY <1>1, <2>1
<1>2. CASE occupant[s] # NoProcess
  BY <1>2 DEF Parking!Next, Parking!Leave
<1> QED
  BY <1>1, <1>2

\* A step of a transaction parks a vehicle that stood nowhere, frees a spot,
\* moves a vehicle to a free spot, or leaves the yard as it is.
LEMMA StepIsParking ==
    ASSUME YardInv, [Next]_vars
    PROVE  [Parking!Next]_occupant
<1>1. ASSUME NEW c \in Clerks, AssignCommit(c) PROVE [Parking!Next]_occupant
  <2> DEFINE s == tx[c].to
             p == tx[c].process
  <2>1. s \in Spots /\ p \in Processes /\ spotStatus[s] = "FREE" /\ Parked(p) = {}
    BY <1>1 DEF AssignCommit, At, YardInv, WellFormed, LocksHeld
  <2>2. occupant[s] = NoProcess /\ \A u \in Spots : occupant[u] # p
    BY <2>1 DEF YardInv, StatusTellsOccupancy, TypeOK, Parked
  <2>3. occupant' = [occupant EXCEPT ![s] = p]
    BY <1>1 DEF AssignCommit
  <2> HIDE DEF s, p
  <2>4. Parking!Park(p, s)
    BY <2>2, <2>3 DEF Parking!Park
  <2> QED
    BY <2>1, <2>4 DEF Parking!Next
<1>2. ASSUME NEW c \in Clerks, VacateCommit(c) PROVE [Parking!Next]_occupant
  <2>1. tx[c].from \in Spots
    BY <1>2 DEF VacateCommit, At, YardInv, WellFormed
  <2> QED
    BY <1>2, <2>1, LeaveOrStay DEF VacateCommit
<1>3. ASSUME NEW c \in Clerks, MoveCommit(c) PROVE [Parking!Next]_occupant
  <2> DEFINE from == tx[c].from
             to == tx[c].to
  <2>1. /\ from \in Spots /\ to \in Spots
        /\ spotStatus[from] = "OCCUPIED" /\ spotStatus[to] = "FREE"
    BY <1>3 DEF MoveCommit, At, YardInv, WellFormed, LocksHeld
  <2>2. occupant[from] # NoProcess /\ occupant[to] = NoProcess
    BY <2>1 DEF YardInv, StatusTellsOccupancy, TypeOK
  <2>3. occupant' = [occupant EXCEPT ![from] = NoProcess, ![to] = occupant[from]]
    BY <1>3 DEF MoveCommit
  <2> HIDE DEF from, to
  <2>4. Parking!Drive(from, to)
    BY <2>2, <2>3 DEF Parking!Drive
  <2> QED
    BY <2>1, <2>4 DEF Parking!Next
<1>4. ASSUME NEW c \in Clerks, ExitCommit(c) PROVE [Parking!Next]_occupant
  <2>1. tx[c].from \in Spots
    BY <1>4 DEF ExitCommit, YardInv, WellFormed
  <2> QED
    BY <1>4, <2>1, LeaveOrStay DEF ExitCommit
<1>5. ASSUME NEW c \in Clerks, Ask(c) \/ Proceed(c) PROVE [Parking!Next]_occupant
  BY <1>1, <1>2, <1>3, <1>4, <1>5
     DEF Ask, Proceed, AssignSpot, AssignEntry, VacateSpot, MoveFirst, MoveSecond,
         MoveOccupant, ExitProcess, Return, EditRead, EditWrite, Abort, Refuse, GoOn
<1>6. CASE UNCHANGED vars
  BY <1>6 DEF vars
<1> QED
  BY <1>5, <1>6 DEF Next

\* The row locks, the unique index and the CHECK implement I1: a vehicle in one
\* spot at most, and none parked over another.
THEOREM ImplementsParking == Spec => OccupancyI1
<1>1. Init => Parking!Init
  BY DEF Init, Parking!Init
<1>2. YardInv /\ [Next]_vars => [Parking!Next]_occupant
  BY StepIsParking
<1> QED
  BY <1>1, <1>2, YardInvariant, PTL DEF Spec, OccupancyI1, Parking!Spec

---------------------------------------------------------------------------
(* Moves that cross.                                                       *)

\* A set of naturals that is not empty has a least one.
LEMMA Least ==
    ASSUME NEW K, K \subseteq Nat, K # {}
    PROVE  \E m \in K : \A k \in K : m <= k
<1> DEFINE R == OpToRel(<, Nat)
<1>1. IsWellFoundedOn(R, Nat)
  BY NatLessThanWellFounded
<1>2. \A x, y \in Nat : y < x => <<y, x>> \in R
  BY DEF OpToRel
<1> HIDE DEF R
<1>3. PICK m \in K : \A k \in K : ~(<<k, m>> \in R)
  BY <1>1, WFMin
<1>4. ASSUME NEW k \in K PROVE m <= k
  <2>1. m \in Nat /\ k \in Nat /\ ~(<<k, m>> \in R)
    BY <1>3
  <2>2. ~(k < m)
    BY <1>2, <2>1
  <2> QED
    BY <2>1, <2>2
<1> QED
  BY <1>4

\* A transaction that has locked nothing keeps nobody waiting; a move keeps
\* those waiting that want its first spot.
LEMMA WaitsForMove ==
    ASSUME YardInv, NEW c \in Clerks, NEW d \in Clerks, Holder(c) = d,
           tx[c].pc \in {"start", "second"}, tx[d].pc \in {"start", "second"}
    PROVE  /\ tx[d].pc = "second"
           /\ tx[c].pc = "second" => Sorted(d)[1] = Sorted(c)[2] /\ Sorted(c)[1] < Sorted(c)[2]
<1>1. WellFormed(tx[c]) /\ WellFormed(tx[d]) /\ LocksOwned(d) /\ tx[c] \in Transaction /\ tx[d] \in Transaction
  BY DEF YardInv, TypeOK
<1>2. tx[c].op # "none"
  BY <1>1 DEF WellFormed
<1>3. CASE tx[c].pc = "second"
  <2>1. tx[c].op = "move" /\ tx[c].from \in Spots /\ tx[c].to \in Spots /\ tx[c].from # tx[c].to
    BY <1>1, <1>3 DEF WellFormed
  <2>2. Sorted(c)[2] \in Spots /\ Sorted(c)[1] < Sorted(c)[2]
    BY <2>1, SortedSpots
  <2>3. spotLock[Sorted(c)[2]] = d
    BY <1>3, <2>1, Nulls DEF Holder
  <2> QED
    BY <1>1, <2>2, <2>3 DEF LocksOwned
<1>4. CASE tx[c].pc = "start"
  <2>1. (\E s \in Spots : spotLock[s] = d) \/ (\E p \in Processes : processLock[p] = d)
    <3>1. CASE tx[c].op \in Exits \cup {"return"}
      <4>1. tx[c].process \in Processes
        BY <1>1, <3>1 DEF WellFormed, Exits
      <4>2. tx[c].to = NoSpot
        BY <1>1, <1>4, <3>1 DEF WellFormed, Exits
      <4> QED
        BY <1>4, <3>1, <4>1, <4>2 DEF Holder, Exits
    <3>2. CASE tx[c].op = "move"
      <4>1. tx[c].from \in Spots /\ tx[c].to \in Spots /\ tx[c].from # tx[c].to
        BY <1>1, <3>2 DEF WellFormed
      <4>2. Sorted(c)[1] \in Spots
        BY <4>1, SortedSpots
      <4> QED
        BY <1>4, <3>2, <4>1, <4>2, Nulls DEF Holder
    <3>3. CASE tx[c].op \in {"assign", "vacate"}
      BY <1>1, <1>4, <3>3, Nulls DEF Holder, WellFormed
    <3>4. CASE tx[c].op = "edit"
      BY <1>1, <1>4, <3>4, Nulls DEF Holder, WellFormed
    <3> QED
      BY <1>1, <1>2, <3>1, <3>2, <3>3, <3>4, Fields DEF Operations, Exits
  <2> QED
    BY <1>1, <1>4, <2>1 DEF LocksOwned
<1> QED
  BY <1>3, <1>4

\* In a circle of moves each would have a first spot greater than the one before.
LEMMA NoCircleOfMoves ==
    ASSUME NEW N \in Nat, Spots \subseteq 1 .. N, YardInv
    PROVE  NoSpotDeadlock
<1> SUFFICES ASSUME NEW S \in SUBSET Clerks, Cycle(S),
                    \A c \in S : tx[c].pc \in {"start", "second"}
             PROVE  FALSE
  BY DEF NoSpotDeadlock
<1> DEFINE K == {N - Sorted(c)[1] : c \in {d \in S : tx[d].pc = "second"}}
<1>1. \A c \in S : Holder(c) \in S /\ Holder(c) \in Clerks
  BY DEF Cycle
<1>2. ASSUME NEW c \in S, tx[c].pc = "second"
      PROVE  Sorted(c)[1] \in Nat /\ Sorted(c)[1] <= N
  <2>1. tx[c].from \in Spots /\ tx[c].to \in Spots /\ tx[c].from # tx[c].to
    BY <1>2 DEF YardInv, WellFormed
  <2>2. Sorted(c)[1] \in Spots
    BY <2>1, SortedSpots
  <2>3. Sorted(c)[1] \in 1 .. N
    BY <2>2
  <2> QED
    BY <2>3
<1>3. K \subseteq Nat
  BY <1>2
<1>4. PICK c \in S : TRUE
  BY DEF Cycle
<1>5. \E d \in S : tx[d].pc = "second"
  BY <1>1, <1>4, WaitsForMove
<1>6. K # {}
  BY <1>5
<1>7. PICK m \in K : \A k \in K : m <= k
  <2> HIDE DEF K
  <2> QED
    BY <1>3, <1>6, Least
<1>8. PICK e \in S : tx[e].pc = "second" /\ m = N - Sorted(e)[1]
  BY <1>7
<1>9. PICK f \in S : Holder(e) = f
  BY <1>1
<1>10. tx[f].pc = "second" /\ Sorted(f)[1] = Sorted(e)[2] /\ Sorted(e)[1] < Sorted(e)[2]
  BY <1>8, <1>9, WaitsForMove
<1>11. N - Sorted(f)[1] \in K
  BY <1>10
<1>12. m <= N - Sorted(f)[1]
  BY <1>7, <1>11
<1>13. Sorted(e)[1] \in Nat /\ Sorted(f)[1] \in Nat
  BY <1>2, <1>8, <1>10
<1>14. Sorted(e)[1] < Sorted(f)[1]
  BY <1>10
<1> HIDE DEF K
<1> QED
  BY <1>8, <1>12, <1>13, <1>14

\* Moves that cross, however many, never wait for each other's spots.
THEOREM MovesNeverDeadlock ==
    ASSUME NEW N \in Nat, Spots \subseteq 1 .. N
    PROVE  Spec => []NoSpotDeadlock
<1>1. YardInv => NoSpotDeadlock
  BY NoCircleOfMoves
<1> QED
  BY <1>1, YardInvariant, PTL
=============================================================================
