--------------------------- MODULE YardOccupancy ---------------------------
(***************************************************************************)
(* The spots of the yards and the vehicles in them, at the grain of the    *)
(* row locks (src/src/modules/yard, the ...SpotAtomic methods of impound   *)
(* and the exits of release).                                              *)
(*                                                                         *)
(* A request is one transaction that waits for several rows: SELECT ...    *)
(* FOR UPDATE on a spot or a process, an entry of the partial unique index *)
(* on current_process_id that another transaction has changed and not yet  *)
(* committed, and the process a foreign key refers to.  A step here takes  *)
(* what the transaction waits for next.  What it writes is visible to      *)
(* others only at its commit, so it is written there; a process row that   *)
(* is the last thing to wait for is taken by the commit itself.  A refusal *)
(* rolls the transaction back.                                             *)
(*                                                                         *)
(* The dossier that lets a vehicle out is the matter of CustodyRelease,    *)
(* and the custody events appended under the process lock are left out.    *)
(***************************************************************************)
EXTENDS Integers, FiniteSets

CONSTANTS
    Clerks,             \* HTTP requests that can be in flight
    Spots,              \* spot ids, which move() sorts
    Processes,
    YardOf,             \* the yard of each spot (through its area)
    Calls,              \* the endpoints the environment uses (a bound)
    NamesAnyProcess,    \* may a request name a vehicle that is not in the spot
    NoClerk, NoProcess, NoYard

ASSUME SpotsAssumption == Spots \subseteq Nat \ {0}

ASSUME NullsAssumption ==
    /\ NoClerk \notin Clerks
    /\ NoProcess \notin Processes
    /\ \A s \in Spots : YardOf[s] # NoYard

VARIABLES
    spotStatus,     \* yard_spots.status
    occupant,       \* yard_spots.current_process_id
    yard,           \* impound_processes.yard_id
    custody,        \* where impound_processes.status puts the vehicle
    spotLock,       \* the transaction that holds the row of the spot
    entryLock,      \* ... that has an uncommitted index entry of the process
    processLock,    \* ... that holds the row of the process
    tx              \* the transaction of each clerk

lockVars == <<spotLock, entryLock, processLock>>
vars == <<spotStatus, occupant, yard, custody, lockVars, tx>>

Parking == INSTANCE Parking

Operations == {"assign", "vacate", "move", "release", "repair", "return", "edit"}

ASSUME CallsAssumption == Calls \subseteq Operations

Exits == {"release", "repair"}

NoSpot == 0

\* "from" is the spot a vehicle leaves, "to" the one it goes to (or that is
\* edited); where an endpoint has one spot only they are equal.
Transaction == [op : Operations \cup {"none"},
                pc : {"none", "start", "second", "entry", "occupant", "process",
                      "spot", "write"},
                process : Processes \cup {NoProcess},
                from : Spots \cup {NoSpot}, to : Spots \cup {NoSpot}]

NoTransaction == [op |-> "none", pc |-> "none", process |-> NoProcess,
                  from |-> NoSpot, to |-> NoSpot]

\* What each endpoint takes from its request.
Fits(t) ==
    /\ t.process = NoProcess <=> t.op = "edit"
    /\ t.from = NoSpot <=> t.op \in Exits \cup {"return"}
    /\ t.to = NoSpot <=> t.from = NoSpot
    /\ t.op = "move" <=> t.from # t.to

Open(c)  == tx[c].op # "none"
At(c, op, pc) == tx[c].op = op /\ tx[c].pc = pc

Parked(p) == {s \in Spots : occupant[s] = p}

\* Mutant: the two spots of a move in the order of the request.
AsAsked(c) == <<tx[c].from, tx[c].to>>

\* The two spots of a move in the order in which they are locked.
Sorted(c) == IF tx[c].from < tx[c].to THEN <<tx[c].from, tx[c].to>>
             ELSE <<tx[c].to, tx[c].from>>

---------------------------------------------------------------------------
(* A transaction opens, goes on, commits or rolls back.                    *)

Unlocked(lock, c) ==
    [row \in DOMAIN lock |-> IF lock[row] = c THEN NoClerk ELSE lock[row]]

End(c) ==
    /\ spotLock' = Unlocked(spotLock, c)
    /\ entryLock' = Unlocked(entryLock, c)
    /\ processLock' = Unlocked(processLock, c)
    /\ tx' = [tx EXCEPT ![c] = NoTransaction]

\* Mutant: the error leaves the transaction open.
RefuseHolding(c) ==
    /\ tx' = [tx EXCEPT ![c] = NoTransaction]
    /\ UNCHANGED <<spotStatus, occupant, yard, custody, lockVars>>

Refuse(c) == End(c) /\ UNCHANGED <<spotStatus, occupant, yard, custody>>

GoOn(c, pc) ==
    /\ tx' = [tx EXCEPT ![c].pc = pc]
    /\ UNCHANGED <<spotStatus, occupant, yard, custody>>

\* The occupancy map the clerk looked at showed the vehicle in the spot.
OnTheMap(t) ==
    t.op \in {"vacate", "move"} => NamesAnyProcess \/ occupant[t.from] = t.process

Ask(c) ==
    /\ ~Open(c)
    /\ \E t \in Transaction :
          /\ t.op \in Calls /\ t.pc = "start"
          /\ Fits(t) /\ OnTheMap(t)
          /\ tx' = [tx EXCEPT ![c] = t]
    /\ UNCHANGED <<spotStatus, occupant, yard, custody, lockVars>>

---------------------------------------------------------------------------
(* assignSpotAtomic: allocate, then the process.                           *)

\* allocate: the row of the spot, which has to be free.
AssignSpot(c) ==
    /\ At(c, "assign", "start")
    /\ spotLock[tx[c].to] = NoClerk
    /\ IF spotStatus[tx[c].to] = "FREE"
       THEN /\ spotLock' = [spotLock EXCEPT ![tx[c].to] = c]
            /\ UNCHANGED <<entryLock, processLock>>
            /\ GoOn(c, "entry")
       ELSE Refuse(c)

\* Mutant: without the partial unique index.
AssignAnyEntry(c) ==
    /\ At(c, "assign", "entry")
    /\ UNCHANGED lockVars
    /\ GoOn(c, "process")

\* allocate: the unique index refuses a process that stands in a spot, and
\* waits for a transaction that is changing its entry.
AssignEntry(c) ==
    /\ At(c, "assign", "entry")
    /\ entryLock[tx[c].process] = NoClerk
    /\ IF Parked(tx[c].process) = {}
       THEN /\ entryLock' = [entryLock EXCEPT ![tx[c].process] = c]
            /\ UNCHANGED <<spotLock, processLock>>
            /\ GoOn(c, "process")
       ELSE Refuse(c)

\* Mutant: the id of the spot is written where the one of its yard belongs.
AssignSpotAsYard(c) ==
    /\ At(c, "assign", "process")
    /\ processLock[tx[c].process] = NoClerk
    /\ occupant' = [occupant EXCEPT ![tx[c].to] = tx[c].process]
    /\ spotStatus' = [spotStatus EXCEPT ![tx[c].to] = "OCCUPIED"]
    /\ yard' = [yard EXCEPT ![tx[c].process] = tx[c].to]
    /\ UNCHANGED custody
    /\ End(c)

\* The foreign key and lockProcess both wait for the row of the process.
AssignCommit(c) ==
    /\ At(c, "assign", "process")
    /\ processLock[tx[c].process] = NoClerk
    /\ occupant' = [occupant EXCEPT ![tx[c].to] = tx[c].process]
    /\ spotStatus' = [spotStatus EXCEPT ![tx[c].to] = "OCCUPIED"]
    /\ yard' = [yard EXCEPT ![tx[c].process] = YardOf[tx[c].to]]
    /\ UNCHANGED custody
    /\ End(c)

---------------------------------------------------------------------------
(* vacateSpotAtomic: it frees the spot whatever vehicle stands in it, and  *)
(* appends the event to the process the request names.                     *)

VacateSpot(c) ==
    /\ At(c, "vacate", "start")
    /\ spotLock[tx[c].from] = NoClerk
    /\ IF spotStatus[tx[c].from] = "OCCUPIED"
       THEN /\ spotLock' = [spotLock EXCEPT ![tx[c].from] = c]
            /\ entryLock' = [entryLock EXCEPT ![occupant[tx[c].from]] = c]
            /\ UNCHANGED processLock
            /\ GoOn(c, "process")
       ELSE Refuse(c)

VacateCommit(c) ==
    /\ At(c, "vacate", "process")
    /\ processLock[tx[c].process] = NoClerk
    /\ occupant' = [occupant EXCEPT ![tx[c].from] = NoProcess]
    /\ spotStatus' = [spotStatus EXCEPT ![tx[c].from] = "FREE"]
    /\ UNCHANGED <<yard, custody>>
    /\ End(c)

---------------------------------------------------------------------------
(* moveSpotAtomic: both spots in the order of their ids, then whatever     *)
(* vehicle stands in the first one moves.                                  *)

MoveFirst(c) ==
    /\ At(c, "move", "start")
    /\ spotLock[Sorted(c)[1]] = NoClerk
    /\ spotLock' = [spotLock EXCEPT ![Sorted(c)[1]] = c]
    /\ UNCHANGED <<entryLock, processLock>>
    /\ GoOn(c, "second")

MoveSecond(c) ==
    /\ At(c, "move", "second")
    /\ spotLock[Sorted(c)[2]] = NoClerk
    /\ IF spotStatus[tx[c].from] = "OCCUPIED" /\ spotStatus[tx[c].to] = "FREE"
       THEN /\ spotLock' = [spotLock EXCEPT ![Sorted(c)[2]] = c]
            /\ entryLock' = [entryLock EXCEPT ![occupant[tx[c].from]] = c]
            /\ UNCHANGED processLock
            /\ GoOn(c, "occupant")
       ELSE Refuse(c)

\* The foreign key waits for the row of the vehicle that moves.
MoveOccupant(c) ==
    /\ At(c, "move", "occupant")
    /\ processLock[occupant[tx[c].from]] = NoClerk
    /\ processLock' = [processLock EXCEPT ![occupant[tx[c].from]] = c]
    /\ UNCHANGED <<spotLock, entryLock>>
    /\ GoOn(c, "process")

\* Across yards, the yard of the process the request names is updated.
MoveCommit(c) ==
    /\ At(c, "move", "process")
    /\ processLock[tx[c].process] \in {NoClerk, c}
    /\ occupant' = [occupant EXCEPT ![tx[c].from] = NoProcess,
                                    ![tx[c].to] = occupant[tx[c].from]]
    /\ spotStatus' = [spotStatus EXCEPT ![tx[c].from] = "FREE",
                                        ![tx[c].to] = "OCCUPIED"]
    /\ yard' = IF YardOf[tx[c].from] = YardOf[tx[c].to] THEN yard
               ELSE [yard EXCEPT ![tx[c].process] = YardOf[tx[c].to]]
    /\ UNCHANGED custody
    /\ End(c)

---------------------------------------------------------------------------
(* consumeReleaseAtomic and exitForRepairAtomic: the process first, its    *)
(* spot last.  returnFromRepairAtomic gives the vehicle no spot.           *)

Outside(op) == IF op = "release" THEN "GONE" ELSE "REPAIR"

\* The row of the process; then SELECT ... FOR UPDATE finds its spot, as it
\* is committed, and may have to wait for it.
ExitProcess(c) ==
    /\ tx[c].op \in Exits /\ tx[c].pc = "start"
    /\ processLock[tx[c].process] = NoClerk
    /\ IF custody[tx[c].process] # "HELD" THEN Refuse(c)
       ELSE IF yard[tx[c].process] = NoYard \/ Parked(tx[c].process) = {}
       THEN /\ custody' = [custody EXCEPT ![tx[c].process] = Outside(tx[c].op)]
            /\ UNCHANGED <<spotStatus, occupant, yard>>
            /\ End(c)
       ELSE \E s \in Parked(tx[c].process) :
            /\ processLock' = [processLock EXCEPT ![tx[c].process] = c]
            /\ tx' = [tx EXCEPT ![c].pc = "spot", ![c].from = s, ![c].to = s]
            /\ UNCHANGED <<spotStatus, occupant, yard, custody, spotLock, entryLock>>

\* A row that no longer matches when the wait ends is not returned: there
\* is nothing to vacate.
ExitCommit(c) ==
    /\ tx[c].pc = "spot"
    /\ spotLock[tx[c].from] = NoClerk
    /\ custody' = [custody EXCEPT ![tx[c].process] = Outside(tx[c].op)]
    /\ IF occupant[tx[c].from] = tx[c].process
       THEN /\ occupant' = [occupant EXCEPT ![tx[c].from] = NoProcess]
            /\ spotStatus' = [spotStatus EXCEPT ![tx[c].from] = "FREE"]
       ELSE UNCHANGED <<occupant, spotStatus>>
    /\ UNCHANGED yard
    /\ End(c)

Return(c) ==
    /\ At(c, "return", "start")
    /\ processLock[tx[c].process] = NoClerk
    /\ custody' = IF custody[tx[c].process] = "REPAIR"
                  THEN [custody EXCEPT ![tx[c].process] = "HELD"] ELSE custody
    /\ UNCHANGED <<spotStatus, occupant, yard>>
    /\ End(c)

---------------------------------------------------------------------------
(* updateSpot: a read without a lock, then an update.                      *)

EditRead(c) ==
    /\ At(c, "edit", "start")
    /\ IF spotStatus[tx[c].to] = "OCCUPIED" THEN Refuse(c)
       ELSE UNCHANGED lockVars /\ GoOn(c, "write")

\* Mutant: without the CHECK of the migration.
EditAnySpot(c) ==
    /\ At(c, "edit", "write")
    /\ spotLock[tx[c].to] = NoClerk
    /\ \E status \in {"FREE", "BLOCKED"} :
          spotStatus' = [spotStatus EXCEPT ![tx[c].to] = status]
    /\ UNCHANGED <<occupant, yard, custody>>
    /\ End(c)

\* The CHECK of the table refuses a status that denies the vehicle.
EditWrite(c) ==
    /\ At(c, "edit", "write")
    /\ spotLock[tx[c].to] = NoClerk
    /\ IF occupant[tx[c].to] # NoProcess THEN Refuse(c)
       ELSE /\ \E status \in {"FREE", "BLOCKED"} :
                  spotStatus' = [spotStatus EXCEPT ![tx[c].to] = status]
            /\ UNCHANGED <<occupant, yard, custody>>
            /\ End(c)

---------------------------------------------------------------------------
(* The deadlock detector of PostgreSQL.                                    *)

\* The transaction that holds what the next step of c waits for.
Holder(c) ==
    LET t == tx[c]
    IN  IF t.op = "none" THEN NoClerk
        ELSE IF t.pc = "entry" THEN entryLock[t.process]
        ELSE IF t.pc = "occupant" THEN processLock[occupant[t.from]]
        ELSE IF t.pc = "process" \/ (t.pc = "start" /\ t.to = NoSpot)
        THEN processLock[t.process]
        ELSE IF t.op = "move" /\ t.pc = "start" THEN spotLock[Sorted(c)[1]]
        ELSE IF t.op = "move" THEN spotLock[Sorted(c)[2]]
        ELSE IF t.op = "edit" /\ t.pc = "start" THEN NoClerk
        ELSE spotLock[t.to]

\* Everyone in the set waits for another one of it.
Cycle(S) == S # {} /\ \A c \in S : Holder(c) \in S \ {c}

\* One of them is aborted: the request ends in an error, nothing is written.
Abort(c) ==
    /\ \E S \in SUBSET Clerks : c \in S /\ Cycle(S)
    /\ Refuse(c)

---------------------------------------------------------------------------
Init ==
    /\ spotStatus = [s \in Spots |-> "FREE"]
    /\ occupant = [s \in Spots |-> NoProcess]
    /\ yard = [p \in Processes |-> NoYard]
    /\ custody = [p \in Processes |-> "HELD"]
    /\ spotLock = [s \in Spots |-> NoClerk]
    /\ entryLock = [p \in Processes |-> NoClerk]
    /\ processLock = [p \in Processes |-> NoClerk]
    /\ tx = [c \in Clerks |-> NoTransaction]

Proceed(c) ==
    \/ AssignSpot(c) \/ AssignEntry(c) \/ AssignCommit(c)
    \/ VacateSpot(c) \/ VacateCommit(c)
    \/ MoveFirst(c) \/ MoveSecond(c) \/ MoveOccupant(c) \/ MoveCommit(c)
    \/ ExitProcess(c) \/ ExitCommit(c) \/ Return(c)
    \/ EditRead(c) \/ EditWrite(c)
    \/ Abort(c)

Next == \E c \in Clerks : Ask(c) \/ Proceed(c)

Spec == Init /\ [][Next]_vars

\* A row lock goes to those who wait for it in the order of their arrival.
FairSpec == Spec /\ \A c \in Clerks : SF_vars(Proceed(c))

---------------------------------------------------------------------------
TypeOK ==
    /\ spotStatus \in [Spots -> {"FREE", "OCCUPIED", "BLOCKED"}]
    /\ occupant \in [Spots -> Processes \cup {NoProcess}]
    /\ DOMAIN yard = Processes
    /\ \A p \in Processes : yard[p] \in {YardOf[s] : s \in Spots} \cup {NoYard}
    /\ custody \in [Processes -> {"HELD", "REPAIR", "GONE"}]
    /\ spotLock \in [Spots -> Clerks \cup {NoClerk}]
    /\ entryLock \in [Processes -> Clerks \cup {NoClerk}]
    /\ processLock \in [Processes -> Clerks \cup {NoClerk}]
    /\ tx \in [Clerks -> Transaction]

\* A spot says it is occupied exactly while a vehicle stands in it: an edit
\* that read the spot before a vehicle came cannot block or free it
\* (updateSpot reads without a lock, the CHECK of the table decides).
StatusTellsOccupancy ==
    \A s \in Spots : spotStatus[s] = "OCCUPIED" <=> occupant[s] # NoProcess

\* I1, for every interleaving of the locks: a vehicle stands in one spot at
\* most and none is parked over another.
OccupancyI1 == Parking!Spec

\* A request that waits for rows is answered in the end, although the exits
\* take the locks in the order opposite to the one of the yard.
Answered == \A c \in Clerks : Open(c) ~> ~Open(c)

\* Moves that cross never wait for each other's spots: move() locks its two
\* spots in the order of their ids.
NoSpotDeadlock ==
    \A S \in SUBSET Clerks :
        Cycle(S) => \E c \in S : tx[c].pc \notin {"start", "second"}

\* The order of the locks never makes transactions wait for each other:
\* what the comment on the ...SpotAtomic methods says (yard_spot, then
\* process).  The exits of release take the process first; and a move waits
\* for two processes, the one in the spot and the one the request names.
NoDeadlock == \A S \in SUBSET Clerks : ~Cycle(S)

\* A vehicle that is out of the yard occupies no spot.  No method that
\* assigns a spot looks at the status of the process, and an assignment can
\* wait for the very exit.
OutsideOccupiesNone ==
    \A p \in Processes : custody[p] # "HELD" => Parked(p) = {}

\* yard_id is the yard of the spot the vehicle stands in.  A move changes
\* the yard of the process the request names, which by then may not be the
\* one in the spot.
YardIsTheSpotsYard ==
    \A s \in Spots : occupant[s] \in Processes => yard[occupant[s]] = YardOf[s]
=============================================================================
