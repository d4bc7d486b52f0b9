-------------------------- MODULE MobileSyncProofs --------------------------
(***************************************************************************)
(* Machine-checked theorems about MobileSync, for any number of statuses,  *)
(* retries, requests and faults.                                           *)
(***************************************************************************)
EXTENDS MobileSync, FiniteSetTheorems, SequenceTheorems, TLAPS

---------------------------------------------------------------------------
(* A set of actions in order, and a sequence of sequences end to end.      *)

LEMMA LeastOf ==
    ASSUME NEW K \in SUBSET Nat, K # {}
    PROVE  \E m \in K : \A k \in K : m <= k
<1> DEFINE R == OpToRel(<, Nat)
<1>1. IsWellFoundedOn(R, Nat)
  BY NatLessThanWellFounded
<1>2. \A x, y \in Nat : y < x => <<y, x>> \in R
  BY DEF OpToRel
<1> HIDE DEF R
<1>3. PICK m \in K : \A k \in K : ~(<<k, m>> \in R)
  BY <1>1, WFMin
<1>4. \A k \in K : ~(k < m)
  BY <1>2, <1>3
<1> QED
  BY <1>4

Sorted(s, set) ==
    /\ s \in [1 .. Cardinality(set) -> set]
    /\ \A i, j \in 1 .. Cardinality(set) : i < j => s[i] < s[j]

LEMMA ActionsAre ==
    /\ Actions \subseteq Nat /\ \A a \in Actions : a <= MaxUpdates
    /\ MaxUpdates \in Nat /\ 0 \in Actions /\ IsFiniteSet(Actions)
    /\ \A S \in SUBSET Actions : IsFiniteSet(S) /\ Cardinality(S) \in Nat
<1>1. IsFiniteSet(Actions)
  BY BoundsAssumption, FS_Interval DEF Actions
<1>2. \A S \in SUBSET Actions : IsFiniteSet(S) /\ Cardinality(S) \in Nat
  BY <1>1, FS_Subset, FS_CardinalityType
<1> QED
  BY <1>1, <1>2, BoundsAssumption DEF Actions

LEMMA GreatestOf ==
    ASSUME NEW S \in SUBSET Actions, S # {}
    PROVE  \E m \in S : \A a \in S : a <= m
<1> DEFINE K == {MaxUpdates - a : a \in S}
<1>0. \A a \in S : MaxUpdates - a \in Nat
  BY ActionsAre
<1>1. K \in SUBSET Nat /\ K # {}
  BY <1>0
<1>2. \A a \in S : MaxUpdates - a \in K
  OBVIOUS
<1>3. \A k \in K : \E a \in S : k = MaxUpdates - a
  OBVIOUS
<1> HIDE DEF K
<1>4. PICK k \in K : \A j \in K : k <= j
  BY <1>1, LeastOf
<1>5. PICK m \in S : k = MaxUpdates - m
  BY <1>3
<1>6. \A a \in S : MaxUpdates - m <= MaxUpdates - a
  BY <1>2, <1>4, <1>5
<1> QED
  BY <1>6, ActionsAre

\* A greater element goes last.
LEMMA SortedExtends ==
    ASSUME NEW S \in SUBSET Actions, NEW m \in Actions, m \notin S, \A a \in S : a <= m,
           NEW s, Sorted(s, S)
    PROVE  \E w : Sorted(w, S \cup {m})
<1> PICK n : n = Cardinality(S)
  OBVIOUS
<1>1. n \in Nat /\ Cardinality(S \cup {m}) = n + 1
  BY ActionsAre, FS_AddElement
<1>2. s \in [1 .. n -> S] /\ \A i, j \in 1 .. n : i < j => s[i] < s[j]
  BY DEF Sorted
<1> DEFINE w == [i \in 1 .. n + 1 |-> IF i = n + 1 THEN m ELSE s[i]]
<1>3. \A i \in 1 .. n + 1 : i = n + 1 \/ i \in 1 .. n
  BY <1>1
<1>4. w \in [1 .. n + 1 -> S \cup {m}]
  BY <1>1, <1>2, <1>3
<1>5. ASSUME NEW i \in 1 .. n + 1, NEW j \in 1 .. n + 1, i < j
      PROVE  w[i] < w[j]
  <2>1. i \in 1 .. n /\ w[i] = s[i] /\ s[i] \in S
    BY <1>1, <1>2, <1>5
  <2>2. CASE j = n + 1
    <3>1. w[j] = m /\ s[i] <= m /\ s[i] # m /\ s[i] \in Nat /\ m \in Nat
      BY <2>1, <2>2, ActionsAre
    <3> QED
      BY <2>1, <3>1
  <2>3. CASE j \in 1 .. n
    BY <1>1, <1>2, <1>5, <2>1, <2>3
  <2> QED
    BY <1>3, <2>2, <2>3
<1> HIDE DEF w
<1>6. Sorted(w, S \cup {m})
  BY <1>1, <1>4, <1>5 DEF Sorted
<1> QED
  BY <1>6

LEMMA EveryPartSorts ==
    ASSUME NEW S \in SUBSET Actions
    PROVE  \E s : Sorted(s, S)
<1> DEFINE Fails(T) == \A s : ~Sorted(s, T)
           K == {Cardinality(T) : T \in {T \in SUBSET Actions : Fails(T)}}
<1> SUFFICES ASSUME Fails(S) PROVE FALSE
  OBVIOUS
<1>1. K \in SUBSET Nat /\ K # {}
  BY ActionsAre
<1>2. PICK n \in K : \A k \in K : n <= k
  BY <1>1, LeastOf
<1>3. PICK T \in SUBSET Actions : Fails(T) /\ n = Cardinality(T)
  BY <1>2
<1>4. \A U \in SUBSET Actions : Fails(U) => n <= Cardinality(U)
  BY <1>2
<1>5. CASE T = {}
  <2>1. Cardinality(T) = 0
    BY <1>5, FS_EmptySet
  <2>2. Sorted(<<>>, T)
    BY <1>5, <2>1 DEF Sorted
  <2> QED
    BY <1>3, <2>2
<1>6. CASE T # {}
  <2>1. PICK m \in T : \A a \in T : a <= m
    BY <1>6, GreatestOf
  <2>2. PICK U : U = T \ {m}
    OBVIOUS
  <2>3. U \in SUBSET Actions /\ m \in Actions /\ m \notin U /\ T = U \cup {m} /\ \A a \in U : a <= m
    BY <2>1, <2>2
  <2>4. Cardinality(U) = n - 1 /\ n \in Nat
    BY <1>3, <2>1, <2>2, ActionsAre, FS_RemoveElement
  <2>5. ~Fails(U)
    BY <1>4, <2>3, <2>4
  <2>6. PICK s : Sorted(s, U)
    BY <2>5
  <2>7. \E w : Sorted(w, U \cup {m})
    BY <2>3, <2>6, SortedExtends
  <2> QED
    BY <1>3, <2>3, <2>7
<1> QED
  BY <1>5, <1>6

\* The actions of a set, each once, earlier ones first.
LEMMA InOrderSorts ==
    ASSUME NEW S \in SUBSET Actions
    PROVE  Sorted(InOrder(S), S)
<1> DEFINE P(s) == \A i, j \in DOMAIN s : i < j => s[i] < s[j]
           F == [1 .. Cardinality(S) -> S]
<1>1. PICK s : Sorted(s, S)
  BY EveryPartSorts
<1>2. s \in F /\ P(s)
  BY <1>1 DEF Sorted
<1>3. InOrder(S) \in F /\ P(InOrder(S))
  BY <1>2 DEF InOrder
<1> QED
  BY <1>3 DEF Sorted

LEMMA InOrderIs ==
    ASSUME NEW S \in SUBSET Actions
    PROVE  /\ InOrder(S) \in Seq(S) /\ Len(InOrder(S)) \in Nat
           /\ InOrder(S) \in [1 .. Len(InOrder(S)) -> S]
           /\ DOMAIN InOrder(S) = 1 .. Len(InOrder(S))
           /\ S # {} => InOrder(S) # <<>>
           /\ S = {0} => InOrder(S) = <<0>>
<1> PICK s, n : s = InOrder(S) /\ n = Cardinality(S)
  OBVIOUS
<1>1. s \in [1 .. n -> S] /\ n \in Nat
  BY InOrderSorts, ActionsAre DEF Sorted
<1>2. s \in Seq(S) /\ Len(s) = n /\ DOMAIN s = 1 .. n
  BY <1>1
<1>3. S # {} => n # 0
  BY ActionsAre, FS_EmptySet
<1>4. S = {0} => n = 1
  BY FS_Singleton
<1>5. S = {0} => s = <<0>>
  BY <1>1, <1>2, <1>4
<1> QED
  BY <1>1, <1>2, <1>3, <1>5

\* h gives the first sequences of f end to end.
Joins(h, f, n) == h = [i \in 0 .. n |-> IF i = 0 THEN <<>> ELSE h[i - 1] \o f[i]]

LEMMA JoinsExtend ==
    ASSUME NEW n \in Nat, NEW f, NEW h, Joins(h, f, n)
    PROVE  \E g : Joins(g, f, n + 1)
<1> DEFINE F(k, i) == IF i = 0 THEN <<>> ELSE k[i - 1] \o f[i]
           g == [i \in 0 .. n + 1 |-> IF i = n + 1 THEN h[n] \o f[n + 1] ELSE h[i]]
<1>1. h = [i \in 0 .. n |-> F(h, i)]
  BY DEF Joins
<1>2. \A i \in 0 .. n : g[i] = h[i]
  OBVIOUS
<1>3. g[n + 1] = h[n] \o f[n + 1]
  OBVIOUS
<1>4. DOMAIN g = 0 .. n + 1
  OBVIOUS
<1>5. g = [i \in 0 .. n + 1 |-> g[i]]
  OBVIOUS
<1> HIDE DEF g
<1>6. ASSUME NEW i \in 0 .. n + 1 PROVE g[i] = F(g, i)
  <2>1. CASE i = n + 1
    <3>1. i # 0 /\ i - 1 = n /\ g[n] = h[n]
      BY <1>2, <2>1
    <3> QED
      BY <1>3, <2>1, <3>1
  <2>2. CASE i = 0
    BY <1>1, <1>2, <2>2
  <2>3. CASE i # n + 1 /\ i # 0
    <3>1. i \in 0 .. n /\ i - 1 \in 0 .. n
      BY <2>3
    <3>2. h[i] = h[i - 1] \o f[i]
      BY <1>1, <2>3, <3>1
    <3> QED
      BY <1>2, <2>3, <3>1, <3>2
  <2> QED
    BY <2>1, <2>2, <2>3
<1>7. g = [i \in 0 .. n + 1 |-> F(g, i)]
  BY <1>5, <1>6
<1> QED
  BY <1>7 DEF Joins

LEMMA JoinsExist ==
    ASSUME NEW n \in Nat, NEW f
    PROVE  \E h : Joins(h, f, n)
<1> DEFINE Fails(k) == \A h : ~Joins(h, f, k)
           K == {k \in Nat : Fails(k)}
<1> SUFFICES ASSUME Fails(n) PROVE FALSE
  OBVIOUS
<1>1. K \in SUBSET Nat /\ n \in K
  OBVIOUS
<1>2. PICK m \in K : \A k \in K : m <= k
  BY <1>1, LeastOf
<1>3. CASE m = 0
  <2>1. Joins([i \in 0 .. 0 |-> <<>>], f, 0)
    BY DEF Joins
  <2> QED
    BY <1>2, <1>3, <2>1
<1>4. CASE m # 0
  <2>1. m - 1 \in Nat /\ m - 1 \notin K /\ m = (m - 1) + 1
    BY <1>2, <1>4
  <2>2. PICK h : Joins(h, f, m - 1)
    BY <2>1
  <2>3. \E g : Joins(g, f, (m - 1) + 1)
    BY <2>1, <2>2, JoinsExtend
  <2> QED
    BY <1>2, <2>1, <2>3
<1> QED
  BY <1>3, <1>4

\* Sequences over T, end to end, are one over T.
LEMMA JoinsAre ==
    ASSUME NEW n \in Nat, NEW f, NEW T, \A i \in 1 .. n : f[i] \in Seq(T),
           NEW h, Joins(h, f, n)
    PROVE  h[n] \in Seq(T)
<1> DEFINE K == {k \in 0 .. n : h[k] \notin Seq(T)}
<1> SUFFICES ASSUME n \in K PROVE FALSE
  OBVIOUS
<1>1. K \in SUBSET Nat
  OBVIOUS
<1>2. PICK m \in K : \A k \in K : m <= k
  BY <1>1, LeastOf
<1>3. m \in 0 .. n /\ h[m] \notin Seq(T)
  BY <1>2
<1>0. \A i \in 0 .. n : h[i] = IF i = 0 THEN <<>> ELSE h[i - 1] \o f[i]
  BY DEF Joins
<1>4. h[0] = <<>> /\ \A i \in 1 .. n : h[i] = h[i - 1] \o f[i]
  <2>1. 0 \in 0 .. n /\ \A i \in 1 .. n : i \in 0 .. n /\ i # 0
    OBVIOUS
  <2> QED
    BY <1>0, <2>1, Zenon
<1>5. m # 0
  <2>1. <<>> \in Seq(T)
    OBVIOUS
  <2> QED
    BY <1>3, <1>4, <2>1
<1>6. m \in 1 .. n /\ m - 1 \in 0 .. n /\ m - 1 \notin K
  BY <1>2, <1>3, <1>5
<1>7. h[m - 1] \in Seq(T) /\ f[m] \in Seq(T)
  BY <1>6
<1> QED
  BY ZenonT(60), <1>3, <1>4, <1>6, <1>7, ConcatProperties

\* What is left to do after a reply is what each action of the batch leaves.
LEMMA AllTasksAre ==
    ASSUME NEW got, NEW T, \A a \in Batch : Tasks(a, got[a]) \in Seq(T)
    PROVE  AllTasks(got) \in Seq(T)
<1> PICK order, n : order = InOrder(Batch) /\ n = Len(order)
  OBVIOUS
<1> DEFINE f == [i \in 1 .. n |-> Tasks(order[i], got[order[i]])]
<1>1. n \in Nat /\ order \in [1 .. n -> Batch]
  BY InOrderIs DEF Batch
<1>2. \A i \in 1 .. n : f[i] \in Seq(T)
  BY <1>1
<1>3. \A h : Joins(h, f, n) <=>
                 h = [i \in 0 .. n |-> IF i = 0 THEN <<>>
                                       ELSE h[i - 1] \o Tasks(order[i], got[order[i]])]
  <2>1. \A i \in 0 .. n : i # 0 => f[i] = Tasks(order[i], got[order[i]])
    BY <1>1
  <2> HIDE DEF f
  <2>2. ASSUME NEW h
        PROVE  [i \in 0 .. n |-> IF i = 0 THEN <<>> ELSE h[i - 1] \o f[i]]
               = [i \in 0 .. n |-> IF i = 0 THEN <<>>
                                   ELSE h[i - 1] \o Tasks(order[i], got[order[i]])]
    BY <2>1
  <2> QED
    BY <2>2 DEF Joins
<1> DEFINE upTo == CHOOSE h : h = [i \in 0 .. n |->
                                      IF i = 0 THEN <<>>
                                      ELSE h[i - 1] \o Tasks(order[i], got[order[i]])]
<1>4. AllTasks(got) = upTo[n]
  BY DEF AllTasks
<1> HIDE DEF f
<1>5. \E h : Joins(h, f, n)
  BY <1>1, JoinsExist
<1>6. Joins(upTo, f, n)
  BY <1>3, <1>5
<1> HIDE DEF upTo
<1> QED
  BY <1>1, <1>2, <1>4, <1>6, JoinsAre

---------------------------------------------------------------------------
(* The inductive invariant: types, the requests at the server, the orders. *)

Id == {0} \cup Ids

UserRow   == [pc : {"idle", "save"}, act : Actions, row : Row \cup {NoRow}, snap : Tables]
ReplayRow == [pc : {"idle", "next", "mark", "wait", "settle"}, phase : {"create", "update"},
              todo : Seq(Task), batch : Tables, snap : Tables]
SlotRow   == [pc : {"free", "sent", "check", "read", "write", "record", "reply"},
              todo : Seq(Actions), ids : [Actions -> Id], seen : Id, live : BOOLEAN,
              got : [Actions -> Result \cup {NoResult}]]

DeviceTypes ==
    /\ table \in Tables /\ made \in 0 .. MaxUpdates + 1 /\ known \in Id /\ stored \in Id
    /\ user \in UserRow /\ replay \in ReplayRow

ServerTypes ==
    /\ server \in [Slots -> SlotRow]
    /\ receipts \in [Actions -> Result \cup {NoResult}]
    /\ progress \in Seq(Actions)
    /\ count \in [late : Nat, restart : Nat, other : Nat] /\ Faults <= MaxFaults

\* A row of the batch may be tried once more, and the batch is the creation or
\* updates of an order the server has named.
MayTry(batch) ==
    \A a \in Actions : batch[a] # NoRow =>
        /\ batch[a].tries < MaxRetry
        /\ a # 0 => batch[a].id # 0 /\ batch[0] = NoRow
BatchFits == MayTry(replay.batch)

\* There is something in a batch that is about to be sent.
SendsSome == replay.pc = "mark" => Batch # {}

\* One request is waited for, and while none was given up there is no other.
OneLive ==
    /\ \A s \in Slots : server[s].live => replay.pc = "wait" /\ server[s].pc # "free"
    /\ \A s, q \in Slots : server[s].live /\ server[q].live => s = q
    /\ count.late = 0 => \A s \in Slots : server[s].pc # "free" => server[s].live

\* A request creates the order or updates it, never both.
AtWork(slot) == slot.pc \in {"sent", "check", "read", "write", "record"}
ShapeFits(slot) ==
    AtWork(slot) =>
        /\ slot.todo # <<>>
        /\ \/ slot.todo = <<0>>
           \/ \A i \in 1 .. Len(slot.todo) : slot.todo[i] # 0 /\ slot.ids[slot.todo[i]] # 0
ShapesFit == \A s \in Slots : ShapeFits(server[s])

\* Requests that may still create an order, that will, and that just did.
Starts(slot)  == slot.pc \in {"sent", "check", "read", "write"} /\ Head(slot.todo) = 0
Past(slot)    == slot.pc \in {"read", "write"} /\ Head(slot.todo) = 0
Created(slot) == slot.pc = "record" /\ Head(slot.todo) = 0

LateOnes == {s \in Slots : ~server[s].live /\ Starts(server[s])}
PastOnes == {s \in Slots : Past(server[s])}
LiveMade == {s \in Slots : server[s].live /\ Created(server[s])}

\* Until the receipt is there, each order is one that a restart forgot, a late
\* request's, or the one just made; after that only requests that have looked
\* for the receipt in vain add one.
OrderInv ==
    IF receipts[0] = NoResult
    THEN Len(progress) + Cardinality(LateOnes)
         <= count.restart + count.late + Cardinality(LiveMade)
    ELSE Len(progress) + Cardinality(PastOnes) <= 1 + count.restart + count.late

IInv == DeviceTypes /\ BatchFits /\ SendsSome /\ ServerTypes /\ ShapesFit /\ OneLive /\ OrderInv

---------------------------------------------------------------------------
(* Rows and tables.                                                        *)

LEMMA RowsAre ==
    /\ NoRow \notin Row /\ Empty \in Tables /\ MaxRetry \in Nat /\ MaxFaults \in Nat
    /\ IdleUser \in UserRow /\ IdleReplay \in ReplayRow /\ FreeSlot \in SlotRow
    /\ 0 \in Id /\ Id = 0 .. 1 + MaxFaults /\ 0 \in Actions
    /\ \A a \in Actions : Empty[a] = NoRow
<1>1. MaxRetry \in Nat /\ MaxFaults \in Nat /\ 0 \in Actions
  BY BoundsAssumption, ActionsAre
<1>2. NoRow \notin Row /\ Empty \in Tables /\ \A a \in Actions : Empty[a] = NoRow
  BY DEF NoRow, Row, Empty, Tables
<1>3. IdleUser \in UserRow /\ IdleReplay \in ReplayRow
  BY <1>1, <1>2 DEF IdleUser, UserRow, IdleReplay, ReplayRow
<1>4. FreeSlot \in SlotRow
  BY DEF FreeSlot, SlotRow, Id
<1>5. 0 \in Id /\ Id = 0 .. 1 + MaxFaults
  BY <1>1 DEF Id, Ids
<1> QED
  BY <1>1, <1>2, <1>3, <1>4, <1>5

LEMMA TasksAre ==
    /\ \A a \in Actions, row \in Row \cup {NoRow} : Write(a, row) \in Task
    /\ \A id \in Id : MapTo(id) \in Task /\ Entity(id) \in Task
    /\ \A task \in Task : task.act \in Actions /\ task.row \in Row \cup {NoRow} /\ task.id \in Id
BY RowsAre DEF Write, MapTo, Entity, Task, Id

LEMMA RowEdits ==
    ASSUME NEW row \in Row
    PROVE  /\ \A id \in Id : [row EXCEPT !.id = id] \in Row
           /\ \A status \in {"pending", "syncing", "failed", "conflict", "synced", "yielded"} :
                  [row EXCEPT !.status = status] \in Row
           /\ row.tries < MaxRetry => Failed(row) \in Row
           /\ row.tries \in 0 .. MaxRetry
<1>1. row.tries \in 0 .. MaxRetry /\ \A id \in Id : [row EXCEPT !.id = id] \in Row
  BY DEF Row, Id
<1>2. \A status \in {"pending", "syncing", "failed", "conflict", "synced", "yielded"} :
          [row EXCEPT !.status = status] \in Row
  BY DEF Row
<1>3. ASSUME row.tries < MaxRetry
      PROVE  Failed(row) \in Row
  <2>1. row.tries + 1 \in 0 .. MaxRetry
    BY <1>1, <1>3, RowsAre
  <2> QED
    BY <2>1 DEF Row, Failed
<1> QED
  BY <1>1, <1>2, <1>3

Writes(order, rows) == [i \in DOMAIN order |-> Write(order[i], rows[order[i]])]

LEMMA WritesAre ==
    ASSUME NEW S \in SUBSET Actions, NEW rows, NEW T, \A a \in S : Write(a, rows[a]) \in T
    PROVE  Writes(InOrder(S), rows) \in Seq(T)
<1> PICK order, n : order = InOrder(S) /\ n = Len(order)
  OBVIOUS
<1>1. n \in Nat /\ order \in [1 .. n -> S] /\ DOMAIN order = 1 .. n
  BY InOrderIs
<1>2. \A i \in 1 .. n : Write(order[i], rows[order[i]]) \in T
  BY <1>1
<1> QED
  BY <1>1, <1>2 DEF Writes

LEMMA NoBatch ==
    MayTry(IdleReplay.batch)
BY RowsAre DEF IdleReplay, MayTry

\* A pass takes rows of the table that are about to be sent.
LEMMA PassIs ==
    ASSUME DeviceTypes, NEW phase \in {"create", "update"}, NEW T,
           \A a \in Eligible(phase) : Write(a, [table[a] EXCEPT !.status = "syncing"]) \in T
    PROVE  LET next == Pass(phase)
           IN  /\ next \in [pc : {"idle", "next", "mark"}, phase : {"create", "update"},
                            todo : Seq(T), batch : Tables, snap : {Empty}]
               /\ MayTry(next.batch)
               /\ \A a \in Actions : \/ next.batch[a] = NoRow
                                     \/ next.batch[a] = [table[a] EXCEPT !.status = "syncing"]
<1> PICK set, marked, order : /\ set = Eligible(phase)
                              /\ marked = [a \in Actions |-> IF a \in set
                                           THEN [table[a] EXCEPT !.status = "syncing"]
                                           ELSE NoRow]
                              /\ order = InOrder(set)
  OBVIOUS
<1> DEFINE writes == [i \in DOMAIN order |-> Write(order[i], marked[order[i]])]
<1>1. set \in SUBSET Actions /\ table \in Tables
  BY DEF Eligible, DeviceTypes
<1>2. \A a \in set : /\ table[a] \in Row /\ table[a].tries < MaxRetry
                     /\ phase = "create" => a = 0
                     /\ phase = "update" => a # 0 /\ table[a].id # 0
  BY <1>1 DEF Eligible, Ready, Tables, NoRow
<1>3. \A a \in set : marked[a] = [table[a] EXCEPT !.status = "syncing"] /\ marked[a] \in Row
  BY <1>1, <1>2, RowEdits
<1>4. marked \in Tables
  BY <1>3 DEF Tables
<1>5. writes \in Seq(T)
  <2>1. \A a \in set : Write(a, marked[a]) \in T
    BY <1>3
  <2>2. writes = Writes(order, marked)
    BY DEF Writes
  <2> HIDE DEF writes
  <2> QED
    BY <1>1, <2>1, <2>2, WritesAre
<1>6. MayTry(marked)
  <2>1. \A a \in Actions : marked[a] # NoRow => a \in set
    OBVIOUS
  <2>2. \A a \in set : marked[a].tries = table[a].tries /\ marked[a].id = table[a].id
    <3>1. ASSUME NEW row \in Row
          PROVE  /\ [row EXCEPT !.status = "syncing"].tries = row.tries
                 /\ [row EXCEPT !.status = "syncing"].id = row.id
      BY DEF Row
    <3> QED
      BY <1>2, <1>3, <3>1
  <2>3. phase = "update" => marked[0] = NoRow
    BY <1>2, <2>1, ActionsAre
  <2> QED
    BY <1>2, <2>1, <2>2, <2>3 DEF MayTry
<1>7. CASE set = {}
  <2>1. Pass(phase) = IF phase = "update" THEN IdleReplay ELSE [IdleReplay EXCEPT !.pc = "next"]
    BY <1>7 DEF Pass
  <2>2. /\ Pass(phase) \in [pc : {"idle", "next", "mark"}, phase : {"create", "update"},
                            todo : Seq(T), batch : Tables, snap : {Empty}]
        /\ Pass(phase).batch = Empty
    <3>1. <<>> \in Seq(T) /\ Empty \in Tables
      BY RowsAre
    <3>2. IdleReplay = [pc |-> "idle", phase |-> "create", todo |-> <<>>, batch |-> Empty,
                        snap |-> Empty]
      BY DEF IdleReplay
    <3>3. [IdleReplay EXCEPT !.pc = "next"] = [pc |-> "next", phase |-> "create", todo |-> <<>>,
                                               batch |-> Empty, snap |-> Empty]
      BY <3>2
    <3> DEFINE R == [pc : {"idle", "next", "mark"}, phase : {"create", "update"},
                     todo : Seq(T), batch : Tables, snap : {Empty}]
    <3>4. IdleReplay \in R /\ IdleReplay.batch = Empty
      BY <3>1, <3>2
    <3>5. [IdleReplay EXCEPT !.pc = "next"] \in R
          /\ [IdleReplay EXCEPT !.pc = "next"].batch = Empty
      BY <3>1, <3>3
    <3> HIDE DEF R
    <3>6. Pass(phase) \in R /\ Pass(phase).batch = Empty
      BY <2>1, <3>4, <3>5
    <3> QED
      BY <3>6 DEF R
  <2> QED
    BY <2>2, RowsAre DEF MayTry
<1>8. CASE set # {}
  <2>1. Pass(phase) = [IdleReplay EXCEPT !.pc = "mark", !.phase = phase, !.batch = marked,
                                         !.todo = writes]
    BY <1>8 DEF Pass
  <2> HIDE DEF writes
  <2>2. /\ Pass(phase) \in [pc : {"idle", "next", "mark"}, phase : {"create", "update"},
                            todo : Seq(T), batch : Tables, snap : {Empty}]
        /\ Pass(phase).batch = marked
    BY <1>4, <1>5, <2>1 DEF IdleReplay
  <2>3. \A a \in Actions : marked[a] = NoRow \/ marked[a] = [table[a] EXCEPT !.status = "syncing"]
    BY <1>3
  <2> QED
    BY <1>6, <2>2, <2>3
<1> QED
  BY <1>7, <1>8

---------------------------------------------------------------------------
(* The device: types and the batch.                                        *)

LEMMA FirstOf ==
    ASSUME NEW T, NEW s \in Seq(T), s # <<>>
    PROVE  Head(s) \in T /\ Tail(s) \in Seq(T)
OBVIOUS

\* A row of a table is replaced.
LEMMA TableEdit ==
    ASSUME NEW t \in Tables, NEW a \in Actions, NEW row \in Row \cup {NoRow}
    PROVE  /\ [t EXCEPT ![a] = row] \in Tables
           /\ \A b \in Actions : [t EXCEPT ![a] = row][b] = IF b = a THEN row ELSE t[b]
BY DEF Tables

LEMMA ScreenTypes ==
    ASSUME DeviceTypes,
           Record \/ SaveUser \/ Refresh
             \/ \E a \in Actions, status \in {"pending", "yielded"} : Resolve(a, status)
    PROVE  DeviceTypes' /\ replay' = replay /\ UNCHANGED <<serverVars, count>>
<1>1. /\ table \in Tables /\ made \in 0 .. MaxUpdates + 1 /\ known \in Id /\ stored \in Id
      /\ user \in UserRow /\ replay \in ReplayRow
  BY DEF DeviceTypes
<1>2. ASSUME NEW a \in Actions, NEW row \in Row \cup {NoRow}
      PROVE  [pc |-> "save", act |-> a, snap |-> table, row |-> row] \in UserRow
  BY <1>1 DEF UserRow
<1>3. CASE Record
  <2>1. made \in Actions /\ made + 1 \in 0 .. MaxUpdates + 1
    BY <1>1, <1>3, ActionsAre DEF Record, Actions
  <2>2. [status |-> "pending", tries |-> 0, id |-> IF made = 0 THEN 0 ELSE known] \in Row
    BY <1>1, RowsAre DEF Row, Id
  <2>3. user' \in UserRow
    BY <1>2, <1>3, <2>1, <2>2 DEF Record
  <2> QED
    BY <1>1, <1>3, <2>1, <2>3 DEF Record, DeviceTypes
<1>4. CASE SaveUser
  <2>1. user.snap \in Tables /\ user.act \in Actions /\ user.row \in Row \cup {NoRow}
    BY <1>1 DEF UserRow
  <2>2. table' \in Tables
    BY <1>4, <2>1, TableEdit DEF SaveUser
  <2> QED
    BY <1>1, <1>4, <2>2, RowsAre DEF SaveUser, DeviceTypes
<1>5. CASE Refresh
  BY <1>1, <1>5 DEF Refresh, DeviceTypes
<1>6. ASSUME NEW a \in Actions, NEW status \in {"pending", "yielded"}, Resolve(a, status)
      PROVE  DeviceTypes' /\ replay' = replay /\ UNCHANGED <<serverVars, count>>
  <2>1. table[a] \in Row
    BY <1>1, <1>6 DEF Resolve, Tables, NoRow
  <2>2. [table[a] EXCEPT !.status = status] \in Row
    BY <2>1, RowEdits
  <2>3. user' \in UserRow
    BY <1>2, <1>6, <2>2 DEF Resolve
  <2> QED
    BY <1>1, <1>6, <2>3 DEF Resolve, DeviceTypes
<1> QED
  BY <1>3, <1>4, <1>5, <1>6

\* The steps of a replay between its requests.
LEMMA ReplayTypes ==
    ASSUME DeviceTypes, BatchFits,
           StartReplay \/ NextPass \/ Load \/ Save \/ MapDependents \/ UpdateEntity \/ EndPass
    PROVE  DeviceTypes' /\ BatchFits' /\ replay.pc # "wait" /\ UNCHANGED <<serverVars, count>>
<1>1. /\ table \in Tables /\ made \in 0 .. MaxUpdates + 1 /\ known \in Id /\ stored \in Id
      /\ user \in UserRow /\ replay \in ReplayRow
  BY DEF DeviceTypes
<1>2. /\ replay.todo \in Seq(Task) /\ replay.snap \in Tables /\ replay.batch \in Tables
  BY <1>1 DEF ReplayRow
<1>3. Working => Head(replay.todo) \in Task /\ Tail(replay.todo) \in Seq(Task)
  BY <1>2, FirstOf DEF Working
<1>4. ASSUME NEW phase \in {"create", "update"}, replay' = Pass(phase), replay.pc # "wait",
             UNCHANGED <<table, made, known, stored, user, serverVars, count>>
      PROVE  DeviceTypes' /\ BatchFits'
  <2>1. \A a \in Eligible(phase) : Write(a, [table[a] EXCEPT !.status = "syncing"]) \in Task
    <3>1. \A a \in Eligible(phase) : a \in Actions /\ table[a] \in Row
      BY <1>1 DEF Eligible, Tables, NoRow
    <3> QED
      BY <3>1, RowEdits, TasksAre
  <2>2. /\ Pass(phase) \in [pc : {"idle", "next", "mark"}, phase : {"create", "update"},
                            todo : Seq(Task), batch : Tables, snap : {Empty}]
        /\ MayTry(Pass(phase).batch)
    BY <2>1, PassIs
  <2>3. replay' \in ReplayRow
    BY <1>4, <2>2, RowsAre DEF ReplayRow
  <2> QED
    BY <1>1, <1>4, <2>2, <2>3 DEF DeviceTypes, BatchFits
<1>5. CASE StartReplay
  BY <1>4, <1>5 DEF StartReplay
<1>6. CASE NextPass
  BY <1>4, <1>6 DEF NextPass
<1>7. ASSUME UNCHANGED <<made, known, user>>, table' \in Tables, stored' \in Id,
             replay' \in ReplayRow, replay'.batch = replay.batch
      PROVE  DeviceTypes' /\ BatchFits'
  BY <1>1, <1>7 DEF DeviceTypes, BatchFits
<1>8. CASE Load
  <2>1. replay' \in ReplayRow /\ replay'.batch = replay.batch
    BY <1>1, <1>8 DEF Load, ReplayRow
  <2> QED
    BY <1>1, <1>7, <1>8, <2>1 DEF Load, Working
<1>9. CASE Save
  <2>1. PICK task : task = Head(replay.todo)
    OBVIOUS
  <2>2. task.act \in Actions /\ task.row \in Row \cup {NoRow}
    BY <1>3, <1>9, <2>1, TasksAre DEF Save
  <2>3. table' \in Tables
    BY <1>2, <1>9, <2>1, <2>2, TableEdit DEF Save
  <2>4. replay' \in ReplayRow /\ replay'.batch = replay.batch
    BY <1>1, <1>3, <1>9, RowsAre DEF Save, ReplayRow
  <2> QED
    BY <1>1, <1>7, <1>9, <2>3, <2>4 DEF Save, Working
<1>10. CASE MapDependents
  <2> DEFINE set == {a \in Actions \ {0} : table[a] # NoRow /\ table[a].id = 0}
             order == InOrder(set)
             id == Head(replay.todo).id
             writes == [i \in DOMAIN order |->
                           Write(order[i], [table[order[i]] EXCEPT !.id = id])]
  <2>1. writes \in Seq(Task)
    <3>1. set \in SUBSET Actions
      OBVIOUS
    <3>2. \A a \in set : table[a] \in Row
      BY <1>1 DEF Tables
    <3>3. id \in Id
      BY <1>3, <1>10, TasksAre DEF MapDependents
    <3> HIDE DEF set, id
    <3>4. order \in [1 .. Len(order) -> set] /\ DOMAIN order = 1 .. Len(order) /\ Len(order) \in Nat
      BY <3>1, InOrderIs
    <3> HIDE DEF order
    <3>5. \A i \in 1 .. Len(order) : Write(order[i], [table[order[i]] EXCEPT !.id = id]) \in Task
      BY <3>1, <3>2, <3>3, <3>4, RowEdits, TasksAre
    <3> QED
      BY <3>4, <3>5
  <2>2. replay' = [replay EXCEPT !.todo = writes \o Tail(replay.todo)] /\ Working
    BY <1>10 DEF MapDependents
  <2> HIDE DEF writes
  <2>3. writes \o Tail(replay.todo) \in Seq(Task)
    BY <1>3, <2>1, <2>2, ConcatProperties
  <2>4. replay' \in ReplayRow /\ replay'.batch = replay.batch
    BY <1>1, <2>2, <2>3 DEF ReplayRow
  <2> QED
    BY <1>1, <1>7, <1>10, <2>4 DEF MapDependents, Working
<1>11. CASE UpdateEntity
  <2>1. stored' \in Id
    BY <1>3, <1>11, TasksAre DEF UpdateEntity
  <2>2. replay' \in ReplayRow /\ replay'.batch = replay.batch
    BY <1>1, <1>3, <1>11 DEF UpdateEntity, ReplayRow
  <2> QED
    BY <1>1, <1>7, <1>11, <2>1, <2>2 DEF UpdateEntity, Working
<1>12. CASE EndPass
  <2>1. replay' \in ReplayRow /\ replay'.batch = IdleReplay.batch
    BY <1>12, RowsAre DEF EndPass, ReplayRow
  <2> QED
    BY <1>1, <1>12, <2>1, NoBatch DEF EndPass, DeviceTypes, BatchFits
<1> QED
  BY <1>5, <1>6, <1>8, <1>9, <1>10, <1>11, <1>12
     DEF StartReplay, NextPass, Load, Save, MapDependents, UpdateEntity, EndPass, Working

---------------------------------------------------------------------------
(* The device: a request is sent, is answered, or is lost.                 *)

LEMMA BatchIs ==
    ASSUME DeviceTypes, BatchFits
    PROVE  /\ Batch \in SUBSET Actions
           /\ \A a \in Batch : replay.batch[a] \in Row /\ Failed(replay.batch[a]) \in Row
<1>1. replay.batch \in Tables
  BY DEF DeviceTypes, ReplayRow
<1>2. \A a \in Batch : replay.batch[a] \in Row /\ replay.batch[a].tries < MaxRetry
  BY <1>1 DEF Batch, Tables, BatchFits, MayTry
<1> QED
  BY <1>2, RowEdits DEF Batch

LEMMA BrokenIs ==
    ASSUME DeviceTypes, BatchFits, NEW T,
           \A a \in Batch : Write(a, Failed(replay.batch[a])) \in T
    PROVE  Broken = [replay EXCEPT !.pc = "settle", !.todo = Broken.todo] /\ Broken.todo \in Seq(T)
<1> DEFINE order == InOrder(Batch)
           rows == [a \in Batch |-> Failed(replay.batch[a])]
           todo == [i \in DOMAIN order |-> Write(order[i], Failed(replay.batch[order[i]]))]
<1>1. Batch \in SUBSET Actions
  BY BatchIs
<1>2. \A a \in Batch : Write(a, rows[a]) \in T
  OBVIOUS
<1>3. order \in [1 .. Len(order) -> Batch] /\ DOMAIN order = 1 .. Len(order)
  BY <1>1, InOrderIs
<1> HIDE DEF order
<1>4. \A i \in DOMAIN order : rows[order[i]] = Failed(replay.batch[order[i]])
  BY <1>3
<1>5. todo = Writes(order, rows)
  <2> HIDE DEF rows
  <2> QED
    BY <1>4 DEF Writes
<1> HIDE DEF rows
<1>6. todo \in Seq(T)
  <2> HIDE DEF todo
  <2> QED
    BY <1>1, <1>2, <1>5, WritesAre DEF order
<1>7. Broken = [replay EXCEPT !.pc = "settle", !.todo = todo]
  BY DEF Broken, order
<1> HIDE DEF todo
<1>8. Broken.todo = todo
  BY <1>7 DEF DeviceTypes, ReplayRow
<1> QED
  BY <1>6, <1>7, <1>8

LEMMA SettledIs ==
    ASSUME DeviceTypes, BatchFits, NEW a \in Batch, NEW result
    PROVE  Settled(replay.batch[a], result) \in Row
BY BatchIs, RowEdits DEF Settled

LEMMA TasksOfResult ==
    ASSUME NEW a, NEW result, NEW T,
           Write(a, Settled(replay.batch[a], result)) \in T,
           Settled(replay.batch[a], result).status = "synced" =>
               MapTo(result.ref) \in T /\ Entity(result.ref) \in T
    PROVE  Tasks(a, result) \in Seq(T)
<1> PICK row : row = Settled(replay.batch[a], result)
  OBVIOUS
<1> PICK s, t : /\ s = (IF a = 0 /\ row.status = "synced" THEN <<MapTo(result.ref)>> ELSE <<>>)
                /\ t = (IF row.status = "synced" THEN <<Entity(result.ref)>> ELSE <<>>)
  OBVIOUS
<1>1. <<Write(a, row)>> \in Seq(T) /\ s \in Seq(T) /\ t \in Seq(T)
  OBVIOUS
<1>2. Tasks(a, result) = <<Write(a, row)>> \o s \o t
  BY DEF Tasks
<1> QED
  BY <1>1, <1>2, ConcatProperties

LEMMA AllTasksTyped ==
    ASSUME DeviceTypes, BatchFits, NEW got \in [Actions -> Result \cup {NoResult}]
    PROVE  AllTasks(got) \in Seq(Task)
<1>1. ASSUME NEW a \in Batch PROVE Tasks(a, got[a]) \in Seq(Task)
  <2>1. a \in Actions /\ got[a].ref \in Id
    BY BatchIs DEF Result, NoResult, Id
  <2>2. /\ Write(a, Settled(replay.batch[a], got[a])) \in Task
        /\ MapTo(got[a].ref) \in Task /\ Entity(got[a].ref) \in Task
    BY <2>1, SettledIs, TasksAre
  <2> QED
    BY <2>2, TasksOfResult
<1> QED
  BY <1>1, AllTasksAre

LEMMA BrokenTypes ==
    ASSUME DeviceTypes, BatchFits, replay' = Broken,
           UNCHANGED <<table, made, known, stored, user>>
    PROVE  DeviceTypes' /\ BatchFits'
<1>1. \A a \in Batch : Write(a, Failed(replay.batch[a])) \in Task
  BY BatchIs, TasksAre
<1> PICK todo : todo = Broken.todo
  OBVIOUS
<1>2. replay' = [replay EXCEPT !.pc = "settle", !.todo = todo] /\ todo \in Seq(Task)
  BY <1>1, BrokenIs
<1>3. replay' \in ReplayRow /\ replay'.batch = replay.batch
  BY <1>2 DEF DeviceTypes, ReplayRow
<1> QED
  BY <1>3 DEF DeviceTypes, BatchFits

LEMMA RequestTypes ==
    ASSUME DeviceTypes, ServerTypes, BatchFits,
           \/ \E s \in Slots : Send(s) \/ Receive(s) \/ Lose(s) \/ GiveUp(s)
           \/ Restart \/ Crash
    PROVE  DeviceTypes' /\ BatchFits'
<1>1. ASSUME NEW s \in Slots, Send(s) PROVE DeviceTypes' /\ BatchFits'
  <2>1. replay' \in ReplayRow /\ replay'.batch = replay.batch
    BY <1>1 DEF Send, DeviceTypes, ReplayRow
  <2> QED
    BY <1>1, <2>1 DEF Send, DeviceTypes, BatchFits
<1>2. ASSUME NEW s \in Slots, Receive(s) PROVE DeviceTypes' /\ BatchFits'
  <2> PICK todo : todo = AllTasks(server[s].got)
    OBVIOUS
  <2>1. server[s].got \in [Actions -> Result \cup {NoResult}]
    BY DEF ServerTypes, SlotRow
  <2>2. todo \in Seq(Task)
    BY <2>1, AllTasksTyped
  <2>3. replay' = [replay EXCEPT !.pc = "settle", !.todo = todo]
    BY <1>2 DEF Receive
  <2>4. replay' \in ReplayRow /\ replay'.batch = replay.batch
    BY <2>2, <2>3 DEF DeviceTypes, ReplayRow
  <2> QED
    BY <1>2, <2>4 DEF Receive, DeviceTypes, BatchFits
<1>3. ASSUME NEW s \in Slots, Lose(s) \/ GiveUp(s) PROVE DeviceTypes' /\ BatchFits'
  BY <1>3, BrokenTypes DEF Lose, GiveUp
<1>4. CASE Restart
  <2>1. CASE replay' = Broken
    BY <1>4, <2>1, BrokenTypes DEF Restart
  <2>2. CASE replay' = replay
    BY <1>4, <2>2 DEF Restart, DeviceTypes, BatchFits
  <2> QED
    BY <1>4, <2>1, <2>2 DEF Restart
<1>5. CASE Crash
  BY <1>5, RowsAre, NoBatch DEF Crash, DeviceTypes, BatchFits
<1> QED
  BY <1>1, <1>2, <1>3, <1>4, <1>5

---------------------------------------------------------------------------
(* The server: types and what a request is about.                          *)

\* One request takes a step.
Moves(s, w) == server' = [server EXCEPT ![s] = w]

\* What is left of a sequence.
LEMMA RestOf ==
    ASSUME NEW T, NEW s \in Seq(T), s # <<>>
    PROVE  /\ Len(s) \in Nat \ {0} /\ Tail(s) \in Seq(T) /\ Len(Tail(s)) = Len(s) - 1
           /\ \A i \in 1 .. Len(Tail(s)) : i + 1 \in 1 .. Len(s) /\ Tail(s)[i] = s[i + 1]
           /\ Head(s) = s[1] /\ 1 \in 1 .. Len(s)
           /\ Len(s) # 1 => /\ Tail(s) # <<>> /\ Head(Tail(s)) = Tail(s)[1]
                            /\ 1 \in 1 .. Len(Tail(s))
<1>1. Len(s) \in Nat \ {0}
  BY EmptySeq
<1>2. Tail(s) \in Seq(T) /\ Len(Tail(s)) = Len(s) - 1
  OBVIOUS
<1>3. \A i \in 1 .. Len(Tail(s)) : i + 1 \in 1 .. Len(s) /\ Tail(s)[i] = s[i + 1]
  BY <1>1, <1>2
<1>4. Len(s) # 1 => Len(Tail(s)) \in Nat \ {0}
  BY <1>1, <1>2
<1>5. Len(s) # 1 => Tail(s) # <<>>
  BY <1>4
<1> QED
  BY <1>1, <1>2, <1>3, <1>4, <1>5

\* What a slot is after the result of the action at hand: given back, or at the
\* next action, never the creation.
LEMMA AnswerIs ==
    ASSUME ServerTypes, NEW s \in Slots, AtWork(server[s]), ShapeFits(server[s]),
           NEW result \in Result \cup {NoResult}, Answer(s, result)
    PROVE  \E w \in SlotRow :
               /\ Moves(s, w) /\ ShapeFits(w)
               /\ \/ w = FreeSlot /\ ~server[s].live
                  \/ /\ w.live = server[s].live /\ w.ids = server[s].ids
                     /\ w.got = [server[s].got EXCEPT ![Current(s)] = result]
                     /\ w.pc = "reply" \/ (w.pc = "check" /\ Head(w.todo) # 0)
                     /\ w.pc = "check" => w.todo = Tail(server[s].todo)
<1> PICK slot : slot = server[s]
  OBVIOUS
<1>1. slot \in SlotRow /\ slot.todo \in Seq(Actions) /\ slot.todo # <<>>
  BY DEF ServerTypes, SlotRow, ShapeFits
<1>2. Current(s) = Head(slot.todo) /\ Current(s) \in Actions
  BY <1>1 DEF Current
<1> PICK a : a = Current(s)
  OBVIOUS
<1> DEFINE done == Len(slot.todo) = 1
           got == [slot.got EXCEPT ![a] = result]
           w == IF done /\ ~slot.live THEN FreeSlot
                ELSE [slot EXCEPT !.pc = IF done THEN "reply" ELSE "check",
                                  !.todo = Tail(slot.todo), !.seen = 0, !.got = got]
<1>3. Moves(s, w)
  BY <1>1 DEF Answer, Moves
<1>4. CASE done /\ ~slot.live
  <2>1. w = FreeSlot
    BY <1>4
  <2> HIDE DEF w
  <2>2. ShapeFits(w)
    BY <2>1 DEF ShapeFits, AtWork, FreeSlot
  <2> QED
    BY <1>3, <1>4, <2>1, <2>2, RowsAre
<1>5. CASE ~(done /\ ~slot.live)
  <2>1. got \in [Actions -> Result \cup {NoResult}]
    BY <1>1 DEF SlotRow
  <2>2. Tail(slot.todo) \in Seq(Actions)
    BY <1>1
  <2> PICK todo, pc : todo = Tail(slot.todo) /\ pc = IF done THEN "reply" ELSE "check"
    OBVIOUS
  <2>3. w = [slot EXCEPT !.pc = pc, !.todo = todo, !.seen = 0, !.got = got]
    BY <1>5
  <2> HIDE DEF w, got
  <2>4. /\ w \in SlotRow /\ w.pc = pc /\ w.todo = todo /\ w.got = got
        /\ w.live = slot.live /\ w.ids = slot.ids
    BY <1>1, <2>1, <2>2, <2>3, RowsAre DEF SlotRow
  <2>5. ASSUME ~done
        PROVE  /\ todo # <<>> /\ Head(todo) # 0
               /\ \A i \in 1 .. Len(todo) : todo[i] # 0 /\ slot.ids[todo[i]] # 0
    <3>1. Len(slot.todo) # 1 /\ slot.todo # <<0>>
      BY <2>5
    <3>2. \A i \in 1 .. Len(slot.todo) : slot.todo[i] # 0 /\ slot.ids[slot.todo[i]] # 0
      BY <3>1 DEF ShapeFits
    <3>3. /\ \A i \in 1 .. Len(todo) : i + 1 \in 1 .. Len(slot.todo) /\ todo[i] = slot.todo[i + 1]
          /\ todo # <<>> /\ Head(todo) = todo[1] /\ 1 \in 1 .. Len(todo)
      BY <1>1, <3>1, RestOf
    <3>4. \A i \in 1 .. Len(todo) : todo[i] # 0 /\ slot.ids[todo[i]] # 0
      BY SMTT(30), <3>2, <3>3
    <3> QED
      BY <3>3, <3>4
  <2>6. ShapeFits(w)
    BY <2>4, <2>5 DEF ShapeFits, AtWork
  <2> QED
    BY <1>2, <1>3, <2>4, <2>5, <2>6 DEF got
<1> QED
  BY <1>4, <1>5

---------------------------------------------------------------------------
(* Counting requests.                                                      *)

LEMMA PartsOfSlots ==
    \A A \in SUBSET Slots : IsFiniteSet(A) /\ Cardinality(A) \in Nat
BY BoundsAssumption, FS_Subset, FS_CardinalityType

\* Two sets of requests that differ by one at most.
LEMMA Differ ==
    ASSUME NEW A \in SUBSET Slots, NEW B \in SUBSET Slots, NEW s \in Slots,
           \A q \in Slots : q # s => (q \in B <=> q \in A)
    PROVE  /\ Cardinality(A) \in Nat /\ Cardinality(B) \in Nat
           /\ (s \in A <=> s \in B) => Cardinality(B) = Cardinality(A)
           /\ s \in A /\ s \notin B => Cardinality(B) = Cardinality(A) - 1
           /\ s \notin A /\ s \in B => Cardinality(B) = Cardinality(A) + 1
<1>1. IsFiniteSet(A) /\ Cardinality(A) \in Nat /\ IsFiniteSet(B) /\ Cardinality(B) \in Nat
  BY PartsOfSlots
<1>2. (s \in A <=> s \in B) => A = B
  OBVIOUS
<1>3. s \in A /\ s \notin B => B = A \ {s}
  OBVIOUS
<1>4. s \notin A /\ s \in B => B = A \cup {s}
  OBVIOUS
<1>5. s \in A => Cardinality(A \ {s}) = Cardinality(A) - 1
  BY <1>1, FS_RemoveElement
<1>6. s \notin A => Cardinality(A \cup {s}) = Cardinality(A) + 1
  BY <1>1, FS_AddElement
<1> QED
  BY <1>1, <1>2, <1>3, <1>4, <1>5, <1>6

\* Of requests that look for the receipt in vain at most one is not late.
LEMMA CountsFit ==
    ASSUME ServerTypes, OneLive
    PROVE  /\ Cardinality(LateOnes) \in Nat /\ Cardinality(PastOnes) \in Nat
           /\ Cardinality(LiveMade) \in Nat /\ Cardinality(LiveMade) <= 1
           /\ Cardinality(PastOnes) + Cardinality(LiveMade) <= Cardinality(LateOnes) + 1
<1>1. /\ LateOnes \in SUBSET Slots /\ PastOnes \in SUBSET Slots /\ LiveMade \in SUBSET Slots
      /\ \A A \in SUBSET Slots : IsFiniteSet(A) /\ Cardinality(A) \in Nat
  BY PartsOfSlots DEF LateOnes, PastOnes, LiveMade
<1>2. Cardinality({}) = 0 /\ \A q : Cardinality({q}) = 1
  BY FS_EmptySet, FS_Singleton
<1>3. \A q \in Slots : q \in PastOnes /\ ~server[q].live => q \in LateOnes
  BY DEF PastOnes, LateOnes, Past, Starts
<1>4. \A q \in Slots : q \in LiveMade => server[q].live /\ q \notin PastOnes
  BY DEF PastOnes, LiveMade, Past, Created
<1>5. CASE \E q \in Slots : server[q].live
  <2>1. PICK q \in Slots : server[q].live /\ \A s \in Slots : server[s].live => s = q
    BY <1>5 DEF OneLive
  <2>2. CASE q \in LiveMade
    <3>1. LiveMade = {q} /\ PastOnes \subseteq LateOnes
      BY <1>1, <1>3, <1>4, <2>1, <2>2
    <3>2. Cardinality(PastOnes) <= Cardinality(LateOnes)
      BY <1>1, <3>1, FS_Subset
    <3>3. Cardinality(LiveMade) = 1
      BY <1>2, <3>1, Zenon
    <3> QED
      BY <1>1, <3>2, <3>3
  <2>3. CASE q \notin LiveMade
    <3>1. LiveMade = {} /\ PastOnes \subseteq LateOnes \cup {q}
      BY <1>1, <1>3, <1>4, <2>1, <2>3
    <3>2. LateOnes \cup {q} \in SUBSET Slots
      BY <1>1
    <3>3. Cardinality(PastOnes) <= Cardinality(LateOnes \cup {q})
      BY <1>1, <3>1, <3>2, FS_Subset
    <3>4. Cardinality(LateOnes \cup {q}) <= Cardinality(LateOnes) + 1
      BY <1>1, FS_AddElement
    <3> QED
      BY <1>1, <1>2, <3>1, <3>2, <3>3, <3>4
  <2> QED
    BY <2>2, <2>3
<1>6. CASE ~\E q \in Slots : server[q].live
  <2>1. LiveMade = {} /\ PastOnes \subseteq LateOnes
    BY <1>1, <1>3, <1>4, <1>6
  <2>2. Cardinality(PastOnes) <= Cardinality(LateOnes)
    BY <1>1, <2>1, FS_Subset
  <2> QED
    BY <1>1, <1>2, <2>1, <2>2
<1> QED
  BY <1>5, <1>6

\* What the step of one request does to the counts.
LEMMA SlotCounts ==
    ASSUME ServerTypes, NEW s \in Slots, NEW w, Moves(s, w)
    PROVE  /\ \A q \in Slots : server'[q] = IF q = s THEN w ELSE server[q]
           /\ Cardinality(LateOnes)' \in Nat /\ Cardinality(PastOnes)' \in Nat
           /\ Cardinality(LiveMade)' \in Nat
           /\ LET before == ~server[s].live /\ Starts(server[s])
                  after == ~w.live /\ Starts(w)
              IN  /\ (before <=> after) => Cardinality(LateOnes)' = Cardinality(LateOnes)
                  /\ before /\ ~after => Cardinality(LateOnes)' = Cardinality(LateOnes) - 1
                  /\ ~before /\ after => Cardinality(LateOnes)' = Cardinality(LateOnes) + 1
           /\ LET before == Past(server[s])
                  after == Past(w)
              IN  /\ (before <=> after) => Cardinality(PastOnes)' = Cardinality(PastOnes)
                  /\ before /\ ~after => Cardinality(PastOnes)' = Cardinality(PastOnes) - 1
                  /\ ~before /\ after => Cardinality(PastOnes)' = Cardinality(PastOnes) + 1
           /\ LET before == server[s].live /\ Created(server[s])
                  after == w.live /\ Created(w)
              IN  /\ (before <=> after) => Cardinality(LiveMade)' = Cardinality(LiveMade)
                  /\ before /\ ~after => Cardinality(LiveMade)' = Cardinality(LiveMade) - 1
                  /\ ~before /\ after => Cardinality(LiveMade)' = Cardinality(LiveMade) + 1
<1>1. \A q \in Slots : server'[q] = IF q = s THEN w ELSE server[q]
  BY DEF ServerTypes, Moves
<1> PICK A, A1, B, B1, C, C1 : /\ A = LateOnes /\ A1 = LateOnes'
                               /\ B = PastOnes /\ B1 = PastOnes'
                               /\ C = LiveMade /\ C1 = LiveMade'
  OBVIOUS
<1>2. /\ A \in SUBSET Slots /\ A1 \in SUBSET Slots /\ B \in SUBSET Slots
      /\ B1 \in SUBSET Slots /\ C \in SUBSET Slots /\ C1 \in SUBSET Slots
  BY DEF LateOnes, PastOnes, LiveMade
<1>3. /\ s \in A <=> ~server[s].live /\ Starts(server[s])
      /\ s \in A1 <=> ~w.live /\ Starts(w)
      /\ \A q \in Slots : q # s => (q \in A1 <=> q \in A)
  BY <1>1 DEF LateOnes
<1>4. /\ s \in B <=> Past(server[s])
      /\ s \in B1 <=> Past(w)
      /\ \A q \in Slots : q # s => (q \in B1 <=> q \in B)
  BY <1>1 DEF PastOnes
<1>5. /\ s \in C <=> server[s].live /\ Created(server[s])
      /\ s \in C1 <=> w.live /\ Created(w)
      /\ \A q \in Slots : q # s => (q \in C1 <=> q \in C)
  BY <1>1 DEF LiveMade
<1>6. /\ Cardinality(A1) \in Nat
      /\ (s \in A <=> s \in A1) => Cardinality(A1) = Cardinality(A)
      /\ s \in A /\ s \notin A1 => Cardinality(A1) = Cardinality(A) - 1
      /\ s \notin A /\ s \in A1 => Cardinality(A1) = Cardinality(A) + 1
  BY <1>2, <1>3, Differ
<1>7. /\ Cardinality(B1) \in Nat
      /\ (s \in B <=> s \in B1) => Cardinality(B1) = Cardinality(B)
      /\ s \in B /\ s \notin B1 => Cardinality(B1) = Cardinality(B) - 1
      /\ s \notin B /\ s \in B1 => Cardinality(B1) = Cardinality(B) + 1
  BY <1>2, <1>4, Differ
<1>8. /\ Cardinality(C1) \in Nat
      /\ (s \in C <=> s \in C1) => Cardinality(C1) = Cardinality(C)
      /\ s \in C /\ s \notin C1 => Cardinality(C1) = Cardinality(C) - 1
      /\ s \notin C /\ s \in C1 => Cardinality(C1) = Cardinality(C) + 1
  BY <1>2, <1>5, Differ
<1> QED
  BY <1>1, <1>3, <1>4, <1>5, <1>6, <1>7, <1>8

LEMMA SlotTypes ==
    ASSUME ServerTypes, ShapesFit, NEW s \in Slots, NEW w \in SlotRow, ShapeFits(w), Moves(s, w)
    PROVE  server' \in [Slots -> SlotRow] /\ ShapesFit'
<1>1. \A q \in Slots : server'[q] = IF q = s THEN w ELSE server[q]
  BY DEF ServerTypes, Moves
<1>2. server' \in [Slots -> SlotRow]
  BY DEF ServerTypes, Moves
<1>3. ASSUME NEW q \in Slots PROVE ShapeFits(server'[q])
  BY <1>1 DEF ShapesFit
<1> QED
  BY <1>2, <1>3 DEF ShapesFit

LEMMA FaultIs ==
    ASSUME ServerTypes, NEW kind \in {"late", "restart", "other"}, Fault(kind)
    PROVE  /\ count' \in [late : Nat, restart : Nat, other : Nat] /\ Faults' <= MaxFaults
           /\ count'.late    = IF kind = "late" THEN count.late + 1 ELSE count.late
           /\ count'.restart = IF kind = "restart" THEN count.restart + 1 ELSE count.restart
<1>1. count \in [late : Nat, restart : Nat, other : Nat] /\ MaxFaults \in Nat
  BY RowsAre DEF ServerTypes
<1>2. Faults < MaxFaults /\ count' = [count EXCEPT ![kind] = count[kind] + 1]
  BY DEF Fault
<1>3. /\ count'.late    = IF kind = "late" THEN count.late + 1 ELSE count.late
      /\ count'.restart = IF kind = "restart" THEN count.restart + 1 ELSE count.restart
      /\ count'.other   = IF kind = "other" THEN count.other + 1 ELSE count.other
      /\ count' \in [late : Nat, restart : Nat, other : Nat]
  BY <1>1, <1>2
<1> QED
  BY <1>1, <1>2, <1>3 DEF Faults

\* No request becomes one that may create an order.
LEMMA OrderStays ==
    ASSUME ServerTypes, OrderInv, NEW s \in Slots, NEW w, Moves(s, w),
           Len(progress') = Len(progress), receipts'[0] = NoResult <=> receipts[0] = NoResult,
           count'.restart = count.restart, count'.late = count.late,
           ~w.live /\ Starts(w) => ~server[s].live /\ Starts(server[s]),
           receipts[0] = NoResult \/ (Past(w) => Past(server[s])),
           ~(server[s].live /\ Created(server[s]) /\ receipts[0] = NoResult)
    PROVE  OrderInv'
<1>1. /\ Len(progress) \in Nat /\ count.late \in Nat /\ count.restart \in Nat
      /\ LateOnes \in SUBSET Slots /\ PastOnes \in SUBSET Slots /\ LiveMade \in SUBSET Slots
  BY DEF ServerTypes, LateOnes, PastOnes, LiveMade
<1>2. /\ Cardinality(LateOnes) \in Nat /\ Cardinality(PastOnes) \in Nat
      /\ Cardinality(LiveMade) \in Nat
  BY <1>1, PartsOfSlots
<1>3. CASE receipts[0] = NoResult
  <2>1. /\ Cardinality(LateOnes)' \in Nat /\ Cardinality(LiveMade)' \in Nat
        /\ Cardinality(LateOnes)' <= Cardinality(LateOnes)
        /\ Cardinality(LiveMade)' >= Cardinality(LiveMade)
    BY <1>2, <1>3, SlotCounts
  <2>2. Len(progress) + Cardinality(LateOnes)
        <= count.restart + count.late + Cardinality(LiveMade)
    BY <1>3 DEF OrderInv
  <2>3. Len(progress') + Cardinality(LateOnes)'
        <= count'.restart + count'.late + Cardinality(LiveMade)'
    BY <1>1, <1>2, <2>1, <2>2
  <2> QED
    BY <1>3, <2>3 DEF OrderInv
<1>4. CASE receipts[0] # NoResult
  <2>1. Cardinality(PastOnes)' \in Nat /\ Cardinality(PastOnes)' <= Cardinality(PastOnes)
    BY <1>2, <1>4, SlotCounts
  <2>2. Len(progress) + Cardinality(PastOnes) <= 1 + count.restart + count.late
    BY <1>4 DEF OrderInv
  <2>3. Len(progress') + Cardinality(PastOnes)' <= 1 + count'.restart + count'.late
    BY <1>1, <1>2, <2>1, <2>2
  <2> QED
    BY <1>4, <2>3 DEF OrderInv
<1> QED
  BY <1>3, <1>4

\* Device steps, and all that leave the requests alone.
LEMMA ServerQuiet ==
    ASSUME UNCHANGED <<server, receipts, progress, count>>, ServerTypes, ShapesFit, OrderInv
    PROVE  ServerTypes' /\ ShapesFit' /\ OrderInv'
<1>1. /\ LateOnes' = LateOnes /\ PastOnes' = PastOnes /\ LiveMade' = LiveMade
  BY DEF LateOnes, PastOnes, LiveMade
<1>2. OrderInv'
  BY <1>1 DEF OrderInv
<1> QED
  BY <1>2 DEF ServerTypes, ShapesFit, Faults

---------------------------------------------------------------------------
(* The server, one action at a time.                                       *)

\* The action at hand.
LEMMA AtHand ==
    ASSUME ServerTypes, ShapesFit, NEW s \in Slots, AtWork(server[s])
    PROVE  /\ server[s] \in SlotRow /\ Current(s) \in Actions /\ server[s].todo # <<>>
           /\ Current(s) = Head(server[s].todo) /\ server[s].ids[Current(s)] \in Id
           /\ Current(s) # 0 => server[s].ids[Current(s)] # 0
           /\ ShapeFits(server[s]) /\ server[s].live \in BOOLEAN
           /\ \A a \in Actions : server[s].ids[a] \in Id
<1> PICK slot : slot = server[s]
  OBVIOUS
<1>1. /\ slot \in SlotRow /\ slot.todo \in Seq(Actions) /\ slot.ids \in [Actions -> Id]
      /\ slot.live \in BOOLEAN
  BY DEF ServerTypes, SlotRow
<1>2. slot.todo # <<>> /\ ShapeFits(slot)
  BY DEF ShapesFit, ShapeFits
<1>3. Head(slot.todo) \in Actions /\ Head(slot.todo) = slot.todo[1] /\ 1 \in 1 .. Len(slot.todo)
  BY <1>1, <1>2, RestOf
<1>4. Head(slot.todo) # 0 => slot.ids[Head(slot.todo)] # 0
  <2>1. slot.todo = <<0>> => Head(slot.todo) = 0
    OBVIOUS
  <2> QED
    BY <1>2, <1>3, <2>1 DEF ShapeFits
<1> QED
  BY <1>1, <1>2, <1>3, <1>4 DEF Current

\* A request goes on, the counts of faults as they were.
LEMMA OneLiveStays ==
    ASSUME ServerTypes, OneLive, NEW s \in Slots, NEW w, Moves(s, w), replay' = replay,
           count'.late = count.late, w.live => server[s].live, w.live => w.pc # "free",
           w.pc = "free" \/ (w.live = server[s].live /\ server[s].pc # "free")
    PROVE  OneLive'
<1>1. \A q \in Slots : server'[q] = IF q = s THEN w ELSE server[q]
  BY DEF ServerTypes, Moves
<1> QED
  BY <1>1 DEF OneLive

\* The request that is waited for is given back or given up.
LEMMA OneLiveEnds ==
    ASSUME ServerTypes, OneLive, NEW s \in Slots, NEW w, Moves(s, w), server[s].live, ~w.live,
           count'.late \in Nat, (w.pc = "free" /\ count'.late >= count.late) \/ count'.late > 0
    PROVE  OneLive'
<1>1. \A q \in Slots : server'[q] = IF q = s THEN w ELSE server[q]
  BY DEF ServerTypes, Moves
<1>2. \A q \in Slots : ~server'[q].live
  BY <1>1 DEF OneLive
<1>3. count'.late = 0 => count.late = 0 /\ w.pc = "free"
  BY DEF ServerTypes
<1>4. count.late = 0 => \A q \in Slots : q # s => server[q].pc = "free"
  BY DEF OneLive
<1>5. count'.late = 0 => \A q \in Slots : server'[q].pc = "free"
  BY <1>1, <1>3, <1>4
<1> QED
  BY <1>2, <1>5 DEF OneLive

\* What an answer leaves is neither at the creation nor lost.
LEMMA AnswerKeeps ==
    ASSUME ServerTypes, OneLive, ShapesFit, OrderInv, NEW s \in Slots, AtWork(server[s]),
           NEW result \in Result \cup {NoResult}, Answer(s, result),
           UNCHANGED <<replay, progress>>, count'.late = count.late,
           count'.restart = count.restart
    PROVE  /\ server' \in [Slots -> SlotRow] /\ ShapesFit' /\ OneLive'
           /\ (~(server[s].live /\ Created(server[s])) \/ receipts[0] # NoResult)
              /\ (receipts'[0] = NoResult <=> receipts[0] = NoResult) => OrderInv'
<1>1. ShapeFits(server[s])
  BY DEF ShapesFit
<1>2. PICK w \in SlotRow :
          /\ Moves(s, w) /\ ShapeFits(w)
          /\ \/ w = FreeSlot /\ ~server[s].live
             \/ /\ w.live = server[s].live /\ w.ids = server[s].ids
                /\ w.got = [server[s].got EXCEPT ![Current(s)] = result]
                /\ w.pc = "reply" \/ (w.pc = "check" /\ Head(w.todo) # 0)
                /\ w.pc = "check" => w.todo = Tail(server[s].todo)
  BY <1>1, AnswerIs
<1>3. /\ ~Starts(w) /\ ~Past(w)
      /\ w.live => server[s].live /\ w.pc # "free"
      /\ w.pc = "free" \/ (w.live = server[s].live /\ server[s].pc # "free")
  BY <1>2 DEF Starts, Past, FreeSlot, AtWork
<1>4. server' \in [Slots -> SlotRow] /\ ShapesFit'
  BY <1>2, SlotTypes
<1>5. OneLive'
  BY <1>2, <1>3, OneLiveStays
<1>6. ASSUME ~(server[s].live /\ Created(server[s])) \/ receipts[0] # NoResult,
             receipts'[0] = NoResult <=> receipts[0] = NoResult
      PROVE  OrderInv'
  BY <1>2, <1>3, <1>6, OrderStays
<1> QED
  BY <1>4, <1>5, <1>6

\* The invariant of the server, the replay as it was.
ServerInv == ServerTypes /\ ShapesFit /\ OneLive /\ OrderInv

LEMMA ResultsAre ==
    /\ \A id \in Id : /\ [status |-> "processed", ref |-> id] \in Result
                      /\ [status |-> "conflict", ref |-> id] \in Result
                      /\ [status |-> "failed", ref |-> id] \in Result
    /\ \A result \in Result \cup {NoResult} : result.ref \in Id
    /\ NoResult \notin Result /\ NoResult.status = "none"
BY RowsAre DEF Result, NoResult, Id

\* A slot of which only what it is at and what it has seen change.
At(slot, pc, seen) == [slot EXCEPT !.pc = pc, !.seen = seen]

LEMMA SlotEdit ==
    ASSUME NEW slot \in SlotRow, NEW pc \in {"read", "write", "record"}, NEW seen \in Id
    PROVE  LET w == At(slot, pc, seen)
           IN  /\ w \in SlotRow /\ w.pc = pc /\ w.seen = seen /\ w.todo = slot.todo
               /\ w.ids = slot.ids /\ w.live = slot.live /\ w.got = slot.got
               /\ AtWork(slot) /\ ShapeFits(slot) => ShapeFits(w)
<1> PICK w : w = At(slot, pc, seen)
  OBVIOUS
<1>1. /\ w \in SlotRow /\ w.pc = pc /\ w.seen = seen /\ w.todo = slot.todo
      /\ w.ids = slot.ids /\ w.live = slot.live /\ w.got = slot.got
  BY DEF SlotRow, At
<1> QED
  BY <1>1 DEF ShapeFits

LEMMA LookServer ==
    ASSUME ServerInv, NEW s \in Slots, Look(s)
    PROVE  ServerInv'
<1>0. ServerTypes /\ ShapesFit /\ OneLive /\ OrderInv
  BY DEF ServerInv
<1>1. AtWork(server[s]) /\ ~Created(server[s]) /\ server[s].pc \in {"sent", "check"}
  BY DEF Look, AtWork, Created
<1>2. /\ server[s] \in SlotRow /\ Current(s) \in Actions /\ ShapeFits(server[s])
      /\ server[s].seen \in Id
  BY <1>0, <1>1, AtHand DEF SlotRow
<1>3. UNCHANGED <<replay, receipts, progress, count>>
  BY DEF Look, deviceVars
<1>4. CASE receipts[Current(s)] = NoResult
  <2> PICK w : w = At(server[s], "read", server[s].seen)
    OBVIOUS
  <2>1. /\ w \in SlotRow /\ w.pc = "read" /\ w.todo = server[s].todo /\ w.live = server[s].live
        /\ ShapeFits(w)
    BY <1>1, <1>2, SlotEdit
  <2>2. w = [server[s] EXCEPT !.pc = "read"]
    BY <1>2 DEF SlotRow, At
  <2>3. Moves(s, w)
    BY <1>0, <1>4, <2>2 DEF Look, Moves, ServerTypes
  <2>4. server' \in [Slots -> SlotRow] /\ ShapesFit'
    BY <1>0, <2>1, <2>3, SlotTypes
  <2>5. OneLive'
    BY <1>0, <1>1, <1>3, <2>1, <2>3, OneLiveStays DEF OneLive
  <2>6. receipts[0] = NoResult \/ (Past(w) => Past(server[s]))
    BY <1>0, <1>1, <1>2, <1>4, <2>1, AtHand DEF Past
  <2>7. ~w.live /\ Starts(w) => ~server[s].live /\ Starts(server[s])
    BY <1>1, <2>1 DEF Starts
  <2>8. OrderInv'
    BY <1>0, <1>1, <1>3, <2>3, <2>6, <2>7, OrderStays
  <2> QED
    BY <1>0, <1>3, <2>4, <2>5, <2>8 DEF ServerInv, ServerTypes, Faults
<1>5. CASE receipts[Current(s)] # NoResult
  <2>1. PICK result : Answer(s, result) /\
            \/ result = receipts[Current(s)]
            \/ result = [status |-> "conflict", ref |-> receipts[Current(s)].ref]
    BY <1>5 DEF Look
  <2>2. receipts[Current(s)] \in Result \cup {NoResult}
    BY <1>0, <1>2 DEF ServerTypes
  <2>3. result \in Result \cup {NoResult}
    BY <2>1, <2>2, ResultsAre
  <2>4. server' \in [Slots -> SlotRow] /\ ShapesFit' /\ OneLive' /\ OrderInv'
    BY <1>0, <1>1, <1>3, <2>1, <2>3, AnswerKeeps
  <2> QED
    BY <1>0, <1>3, <2>4 DEF ServerInv, ServerTypes, Faults
<1> QED
  BY <1>4, <1>5

LEMMA ReadServer ==
    ASSUME ServerInv, NEW s \in Slots, Read(s)
    PROVE  ServerInv'
<1>0. ServerTypes /\ ShapesFit /\ OneLive /\ OrderInv
  BY DEF ServerInv
<1>1. AtWork(server[s]) /\ ~Created(server[s]) /\ server[s].pc = "read"
  BY DEF Read, AtWork, Created
<1>2. /\ server[s] \in SlotRow /\ Current(s) \in Actions /\ ShapeFits(server[s])
      /\ server[s].seen \in Id /\ server[s].ids[Current(s)] \in Id
  BY <1>0, <1>1, AtHand DEF SlotRow
<1>3. UNCHANGED <<replay, receipts, progress, count>>
  BY DEF Read, deviceVars
<1>4. CASE server' = [server EXCEPT ![s].pc = "write"]
  <2> PICK w : w = At(server[s], "write", server[s].seen)
    OBVIOUS
  <2>1. /\ w \in SlotRow /\ w.pc = "write" /\ w.todo = server[s].todo /\ w.live = server[s].live
        /\ ShapeFits(w)
    <3>1. server[s] \in SlotRow /\ server[s].seen \in Id /\ "write" \in {"read", "write", "record"}
      BY <1>2
    <3>2. /\ w \in SlotRow /\ w.pc = "write" /\ w.todo = server[s].todo /\ w.live = server[s].live
          /\ AtWork(server[s]) /\ ShapeFits(server[s]) => ShapeFits(w)
      BY <3>1, SlotEdit
    <3> QED
      BY <1>1, <1>2, <3>2
  <2>2. w = [server[s] EXCEPT !.pc = "write"]
    BY <1>2 DEF SlotRow, At
  <2>3. Moves(s, w)
    BY <1>0, <1>4, <2>2 DEF Moves, ServerTypes
  <2>4. server' \in [Slots -> SlotRow] /\ ShapesFit'
    BY <1>0, <2>1, <2>3, SlotTypes
  <2>5. OneLive'
    BY <1>0, <1>1, <1>3, <2>1, <2>3, OneLiveStays DEF OneLive
  <2>6. Past(w) => Past(server[s])
    BY <1>1, <2>1 DEF Past
  <2>7. ~w.live /\ Starts(w) => ~server[s].live /\ Starts(server[s])
    BY <1>1, <2>1 DEF Starts
  <2>8. OrderInv'
    BY <1>0, <1>1, <1>3, <2>3, <2>6, <2>7, OrderStays
  <2> QED
    BY <1>0, <1>3, <2>4, <2>5, <2>8 DEF ServerInv, ServerTypes, Faults
<1>5. CASE Answer(s, [status |-> "conflict", ref |-> server[s].ids[Current(s)]])
  <2>1. PICK result : /\ Answer(s, result)
                      /\ result = [status |-> "conflict", ref |-> server[s].ids[Current(s)]]
    BY <1>5
  <2>2. result \in Result \cup {NoResult}
    BY <1>2, <2>1, ResultsAre
  <2>3. server' \in [Slots -> SlotRow] /\ ShapesFit' /\ OneLive' /\ OrderInv'
    BY <1>0, <1>1, <1>3, <2>1, <2>2, AnswerKeeps
  <2> QED
    BY <1>0, <1>3, <2>3 DEF ServerInv, ServerTypes, Faults
<1> QED
  BY <1>4, <1>5 DEF Read

LEMMA RefuseServer ==
    ASSUME ServerInv, NEW s \in Slots, Refuse(s)
    PROVE  ServerInv'
<1>0. ServerTypes /\ ShapesFit /\ OneLive /\ OrderInv
  BY DEF ServerInv
<1>1. AtWork(server[s]) /\ ~Created(server[s])
  BY DEF Refuse, AtWork, Created
<1>2. UNCHANGED <<replay, receipts, progress>> /\ Fault("other")
  BY DEF Refuse, deviceVars
<1>3. /\ count' \in [late : Nat, restart : Nat, other : Nat] /\ Faults' <= MaxFaults
      /\ count'.late = count.late /\ count'.restart = count.restart
  BY <1>0, <1>2, FaultIs
<1>4. PICK result : Answer(s, result) /\ result = [status |-> "failed", ref |-> 0]
  BY DEF Refuse
<1>5. result \in Result \cup {NoResult}
  BY <1>4, ResultsAre, RowsAre
<1>6. server' \in [Slots -> SlotRow] /\ ShapesFit' /\ OneLive' /\ OrderInv'
  BY <1>0, <1>1, <1>2, <1>3, <1>4, <1>5, AnswerKeeps
<1> QED
  BY <1>0, <1>2, <1>3, <1>6 DEF ServerInv, ServerTypes

\* An update whose receipt is kept changes no count; a creation's ends the time
\* in which requests look for it in vain.
LEMMA AcceptServer ==
    ASSUME ServerInv, NEW s \in Slots, Accept(s)
    PROVE  ServerInv'
<1>0. ServerTypes /\ ShapesFit /\ OneLive /\ OrderInv
  BY DEF ServerInv
<1>1. AtWork(server[s]) /\ server[s].pc = "record"
  BY DEF Accept, AtWork
<1>2. /\ server[s] \in SlotRow /\ Current(s) \in Actions /\ ShapeFits(server[s])
      /\ server[s].seen \in Id /\ Current(s) = Head(server[s].todo)
  BY <1>0, <1>1, AtHand DEF SlotRow
<1> PICK result, a : result = [status |-> "processed", ref |-> server[s].seen] /\ a = Current(s)
  OBVIOUS
<1>3. result \in Result
  BY <1>2, ResultsAre
<1>4. /\ UNCHANGED <<replay, progress, count>> /\ Answer(s, result)
      /\ receipts' = [receipts EXCEPT ![a] = result]
  BY DEF Accept, deviceVars
<1>5. receipts' \in [Actions -> Result \cup {NoResult}] /\ receipts \in [Actions -> Result \cup {NoResult}]
  BY <1>0, <1>2, <1>3, <1>4 DEF ServerTypes
<1>6. /\ server' \in [Slots -> SlotRow] /\ ShapesFit' /\ OneLive'
      /\ (~(server[s].live /\ Created(server[s])) \/ receipts[0] # NoResult)
         /\ (receipts'[0] = NoResult <=> receipts[0] = NoResult) => OrderInv'
  BY <1>0, <1>1, <1>3, <1>4, AnswerKeeps
<1>7. ServerTypes' /\ ShapesFit' /\ OneLive'
  BY <1>0, <1>4, <1>5, <1>6 DEF ServerTypes, Faults
<1>8. CASE receipts[0] # NoResult \/ a # 0
  <2>1. receipts'[0] = NoResult <=> receipts[0] = NoResult
    BY <1>2, <1>3, <1>5, <1>4, <1>8, ResultsAre, ActionsAre
  <2>2. ~(server[s].live /\ Created(server[s])) \/ receipts[0] # NoResult
    BY <1>2, <1>8 DEF Created
  <2> QED
    BY <1>6, <1>7, <2>1, <2>2 DEF ServerInv
<1>9. CASE receipts[0] = NoResult /\ a = 0
  <2>1. receipts'[0] # NoResult
    BY <1>3, <1>4, <1>5, <1>9, ResultsAre, ActionsAre
  <2>2. PastOnes' = PastOnes
    <3>1. PICK w \in SlotRow : Moves(s, w) /\ ~Past(w)
      <4>1. PICK w \in SlotRow :
                /\ Moves(s, w) /\ ShapeFits(w)
                /\ \/ w = FreeSlot /\ ~server[s].live
                   \/ /\ w.live = server[s].live /\ w.ids = server[s].ids
                      /\ w.got = [server[s].got EXCEPT ![Current(s)] = result]
                      /\ w.pc = "reply" \/ (w.pc = "check" /\ Head(w.todo) # 0)
                      /\ w.pc = "check" => w.todo = Tail(server[s].todo)
        BY <1>0, <1>1, <1>2, <1>3, <1>4, AnswerIs
      <4>2. ~Past(w)
        BY <4>1 DEF Past, FreeSlot
      <4> QED
        BY <4>1, <4>2
    <3>2. \A q \in Slots : server'[q] = IF q = s THEN w ELSE server[q]
      BY <1>0, <3>1 DEF Moves, ServerTypes
    <3>3. ~Past(server[s])
      BY <1>1 DEF Past
    <3> QED
      BY <3>1, <3>2, <3>3 DEF PastOnes
  <2>3. Len(progress) + Cardinality(LateOnes)
        <= count.restart + count.late + Cardinality(LiveMade)
    BY <1>0, <1>9 DEF OrderInv
  <2>4. /\ Len(progress) \in Nat /\ count.restart \in Nat /\ count.late \in Nat
        /\ Cardinality(LateOnes) \in Nat /\ Cardinality(PastOnes) \in Nat
        /\ Cardinality(LiveMade) \in Nat
        /\ Cardinality(PastOnes) + Cardinality(LiveMade) <= Cardinality(LateOnes) + 1
    BY <1>0, CountsFit DEF ServerTypes
  <2>5. Len(progress) + Cardinality(PastOnes) <= 1 + count.restart + count.late
    BY SMTT(30), <2>3, <2>4
  <2>6. OrderInv'
    BY <1>4, <2>1, <2>2, <2>5 DEF OrderInv
  <2> QED
    BY <1>7, <2>6 DEF ServerInv
<1> QED
  BY <1>8, <1>9

\* An element of a sequence is replaced.
Put(s, i, e) == [s EXCEPT ![i] = e]

LEMMA PutIs ==
    ASSUME NEW S, NEW s \in Seq(S), NEW i, NEW e \in S
    PROVE  /\ Put(s, i, e) \in Seq(S) /\ Len(Put(s, i, e)) = Len(s)
           /\ \A j \in 1 .. Len(s) : Put(s, i, e)[j] = IF j = i THEN e ELSE s[j]
<1> PICK n, t : n = Len(s) /\ t = Put(s, i, e)
  OBVIOUS
<1>1. n \in Nat /\ s \in [1 .. n -> S] /\ DOMAIN s = 1 .. n
  OBVIOUS
<1>2. t \in [1 .. n -> S] /\ \A j \in 1 .. n : t[j] = IF j = i THEN e ELSE s[j]
  BY <1>1 DEF Put
<1>3. t \in Seq(S) /\ Len(t) = n
  BY <1>1, <1>2
<1> QED
  BY <1>2, <1>3

\* A creation adds an order, and there is room for it; an update adds none.
LEMMA ApplyCounts ==
    ASSUME ServerInv, NEW s \in Slots, NEW w, Moves(s, w), server[s].pc = "write",
           w.pc = "record", w.todo = server[s].todo, w.live = server[s].live,
           Len(progress') = IF Current(s) = 0 THEN Len(progress) + 1 ELSE Len(progress),
           UNCHANGED <<receipts, count>>
    PROVE  OrderInv' /\ (Current(s) = 0 => Len(progress) + 1 \in Id /\ Len(progress) + 1 # 0)
<1>0. ServerTypes /\ ShapesFit /\ OneLive /\ OrderInv
  BY DEF ServerInv
<1>1. /\ Len(progress) \in Nat /\ count.late \in Nat /\ count.restart \in Nat
      /\ count.late + count.restart <= MaxFaults /\ MaxFaults \in Nat
      /\ Cardinality(LateOnes) \in Nat /\ Cardinality(PastOnes) \in Nat
      /\ Cardinality(LiveMade) \in Nat /\ Cardinality(LiveMade) <= 1
      /\ Cardinality(LateOnes)' \in Nat /\ Cardinality(PastOnes)' \in Nat
      /\ Cardinality(LiveMade)' \in Nat
  <2>1. /\ Cardinality(LateOnes)' \in Nat /\ Cardinality(PastOnes)' \in Nat
        /\ Cardinality(LiveMade)' \in Nat
    BY <1>0, SlotCounts
  <2>2. /\ Cardinality(LateOnes) \in Nat /\ Cardinality(PastOnes) \in Nat
        /\ Cardinality(LiveMade) \in Nat /\ Cardinality(LiveMade) <= 1
    BY <1>0, CountsFit
  <2>3. /\ Len(progress) \in Nat /\ count.late \in Nat /\ count.restart \in Nat
        /\ count.late + count.restart <= MaxFaults /\ MaxFaults \in Nat
    BY <1>0, RowsAre DEF ServerTypes, Faults
  <2> QED
    BY <2>1, <2>2, <2>3
<1>2. ~Past(w) /\ ~Starts(w) /\ ~Created(server[s]) /\ Current(s) = Head(server[s].todo)
  BY DEF Past, Starts, Created, Current
<1>3. CASE Current(s) # 0
  <2>1. ~Created(w)
    BY <1>2, <1>3 DEF Created
  <2> QED
    BY <1>0, <1>2, <1>3, <2>1, OrderStays
<1>4. CASE Current(s) = 0
  <2>1. Past(server[s]) /\ Starts(server[s]) /\ Created(w)
    BY <1>2, <1>4 DEF Past, Starts, Created
  <2>2. Cardinality(PastOnes)' = Cardinality(PastOnes) - 1
    BY <1>0, <1>2, <2>1, SlotCounts
  <2>3. CASE receipts[0] # NoResult
    <3>1. Len(progress) + Cardinality(PastOnes) <= 1 + count.restart + count.late
      BY <1>0, <2>3 DEF OrderInv
    <3>2. Len(progress) + 1 <= 1 + MaxFaults
      BY SMTT(30), <1>1, <2>2, <3>1
    <3>3. Len(progress') + Cardinality(PastOnes)' <= 1 + count'.restart + count'.late
      BY <1>1, <1>4, <2>2, <3>1
    <3>4. receipts'[0] # NoResult
      BY <2>3
    <3>5. OrderInv'
      BY <3>3, <3>4 DEF OrderInv
    <3> QED
      BY <1>1, <3>2, <3>5, RowsAre
  <2>4. CASE receipts[0] = NoResult
    <3>1. Len(progress) + Cardinality(LateOnes)
          <= count.restart + count.late + Cardinality(LiveMade)
      BY <1>0, <2>4 DEF OrderInv
    <3>2. receipts'[0] = NoResult
      BY <2>4
    <3>3. CASE server[s].live
      <4>1. LiveMade = {}
        BY <1>0, <1>2, <3>3 DEF LiveMade, OneLive
      <4>2. Cardinality(LiveMade) = 0
        BY <4>1, FS_EmptySet
      <4>3. /\ Cardinality(LateOnes)' = Cardinality(LateOnes)
            /\ Cardinality(LiveMade)' = Cardinality(LiveMade) + 1
        BY <1>0, <1>2, <2>1, <3>3, SlotCounts
      <4>4. Len(progress) + 1 <= 1 + MaxFaults
        BY <1>1, <3>1, <4>2
      <4>5. Len(progress') + Cardinality(LateOnes)'
            <= count'.restart + count'.late + Cardinality(LiveMade)'
        BY SMTT(30), <1>1, <1>4, <3>1, <4>3
      <4>6. OrderInv'
        BY <3>2, <4>5 DEF OrderInv
      <4> QED
        BY <1>1, <4>4, <4>6, RowsAre
    <3>4. CASE ~server[s].live
      <4>1. /\ Cardinality(LateOnes)' = Cardinality(LateOnes) - 1
            /\ Cardinality(LiveMade)' = Cardinality(LiveMade)
        BY <1>0, <1>2, <2>1, <3>4, SlotCounts
      <4>2. Len(progress) + 1 <= 1 + MaxFaults
        BY <1>1, <3>1, <4>1
      <4>3. Len(progress') + Cardinality(LateOnes)'
            <= count'.restart + count'.late + Cardinality(LiveMade)'
        BY <1>1, <1>4, <3>1, <4>1
      <4>4. OrderInv'
        BY <3>2, <4>3 DEF OrderInv
      <4> QED
        BY <1>1, <4>2, <4>4, RowsAre
    <3> QED
      BY <3>3, <3>4
  <2> QED
    BY <2>3, <2>4
<1> QED
  BY <1>3, <1>4

LEMMA ApplyServer ==
    ASSUME ServerInv, NEW s \in Slots, Apply(s)
    PROVE  ServerInv'
<1>0. ServerTypes /\ ShapesFit /\ OneLive /\ OrderInv
  BY DEF ServerInv
<1>1. AtWork(server[s]) /\ server[s].pc = "write"
  BY DEF Apply, AtWork
<1>2. /\ server[s] \in SlotRow /\ Current(s) \in Actions /\ ShapeFits(server[s])
      /\ server[s].ids[Current(s)] \in Id /\ progress \in Seq(Actions)
  BY <1>0, <1>1, AtHand DEF ServerTypes
<1> PICK a, id, w : /\ a = Current(s)
                    /\ id = IF a = 0 THEN Len(progress) + 1 ELSE server[s].ids[a]
                    /\ w = At(server[s], "record", id)
  OBVIOUS
<1>3. UNCHANGED <<replay, receipts, count>>
  BY DEF Apply, deviceVars
<1>4. progress' = IF a = 0 THEN Append(progress, 0) ELSE [progress EXCEPT ![id] = a]
  BY DEF Apply
<1>5. progress' \in Seq(Actions) /\ Len(progress') = IF a = 0 THEN Len(progress) + 1 ELSE Len(progress)
  <2>1. a = 0 => /\ Append(progress, 0) \in Seq(Actions)
                 /\ Len(Append(progress, 0)) = Len(progress) + 1
    BY <1>2, ActionsAre
  <2>2. [progress EXCEPT ![id] = a] \in Seq(Actions)
        /\ Len([progress EXCEPT ![id] = a]) = Len(progress)
    <3>1. progress \in Seq(Actions) /\ a \in Actions
      BY <1>2
    <3>2. Put(progress, id, a) \in Seq(Actions) /\ Len(Put(progress, id, a)) = Len(progress)
      BY <3>1, PutIs
    <3> QED
      BY <3>2 DEF Put
  <2> QED
    BY <1>4, <2>1, <2>2
<1>6. w = [server[s] EXCEPT !.pc = "record", !.seen = id]
  BY DEF At
<1>7. Moves(s, w)
  BY <1>0, <1>6 DEF Apply, Moves, ServerTypes
<1>8. w.pc = "record" /\ w.todo = server[s].todo /\ w.live = server[s].live
  BY <1>2, <1>6 DEF SlotRow
<1>9. OrderInv' /\ id \in Id
  BY <1>1, <1>2, <1>3, <1>5, <1>7, <1>8, ApplyCounts
<1>10. server[s] \in SlotRow /\ "record" \in {"read", "write", "record"}
  BY <1>2
<1>11. w \in SlotRow /\ ShapeFits(w)
  BY <1>1, <1>2, <1>9, <1>10, SlotEdit
<1>12. server' \in [Slots -> SlotRow] /\ ShapesFit'
  BY <1>0, <1>7, <1>11, SlotTypes
<1>13. OneLive'
  BY <1>0, <1>1, <1>3, <1>7, <1>8, OneLiveStays DEF OneLive
<1> QED
  BY <1>0, <1>3, <1>5, <1>9, <1>12, <1>13 DEF ServerInv, ServerTypes, Faults

---------------------------------------------------------------------------
(* Requests are sent, answered, lost and given up; the server restarts.    *)

LEMMA SentIs ==
    ASSUME DeviceTypes, BatchFits, SendsSome, replay.pc = "mark",
           NEW w, w = [FreeSlot EXCEPT !.pc = "sent", !.todo = InOrder(Batch), !.live = TRUE,
                                       !.ids = [a \in Actions |-> replay.batch[a].id]]
    PROVE  /\ w \in SlotRow /\ ShapeFits(w) /\ w.pc = "sent" /\ w.live = TRUE
           /\ w.ids = [a \in Actions |-> replay.batch[a].id]
           /\ w.got = [a \in Actions |-> NoResult] /\ w.todo \in Seq(Batch)
<1> PICK ids, todo : /\ ids = [a \in Actions |-> replay.batch[a].id]
                     /\ todo = InOrder(Batch)
  OBVIOUS
<1>1. replay.batch \in Tables /\ Batch \in SUBSET Actions
  BY BatchIs DEF DeviceTypes, ReplayRow
<1>2. ids \in [Actions -> Id]
  BY <1>1 DEF Tables, Row, NoRow, Id
<1>3. /\ todo \in Seq(Batch) /\ todo \in [1 .. Len(todo) -> Batch] /\ Len(todo) \in Nat
      /\ todo # <<>>
      /\ Batch = {0} => todo = <<0>>
  BY <1>1, InOrderIs DEF SendsSome
<1>4. w = [FreeSlot EXCEPT !.pc = "sent", !.todo = todo, !.live = TRUE, !.ids = ids]
  OBVIOUS
<1>5. todo \in Seq(Actions)
  BY <1>1, <1>3
<1>6. /\ w \in SlotRow /\ w.pc = "sent" /\ w.live = TRUE /\ w.ids = ids /\ w.todo = todo
      /\ w.got = FreeSlot.got
  BY <1>2, <1>4, <1>5, RowsAre DEF SlotRow
<1>7. FreeSlot.got = [a \in Actions |-> NoResult]
  BY DEF FreeSlot
<1>8. CASE 0 \in Batch
  <2>1. Batch = {0}
    BY <1>1, <1>8 DEF Batch, BatchFits, MayTry
  <2>2. w.todo = <<0>> /\ w.todo # <<>>
    BY <1>3, <1>6, <2>1
  <2>3. ShapeFits(w)
    BY <2>2 DEF ShapeFits
  <2> QED
    BY <1>3, <1>6, <1>7, <2>3
<1>9. CASE 0 \notin Batch
  <2>1. \A a \in Batch : a # 0 /\ ids[a] # 0
    BY <1>1, <1>9 DEF Batch, BatchFits, MayTry
  <2>2. \A i \in 1 .. Len(todo) : todo[i] # 0 /\ ids[todo[i]] # 0
    BY <1>3, <2>1
  <2>3. w.todo # <<>>
    BY <1>3, <1>6
  <2>4. ShapeFits(w)
    BY <1>6, <2>2, <2>3 DEF ShapeFits
  <2> QED
    BY <1>3, <1>6, <1>7, <2>4
<1> QED
  BY <1>8, <1>9

LEMMA SendServer ==
    ASSUME ServerInv, DeviceTypes, BatchFits, SendsSome, NEW s \in Slots, Send(s)
    PROVE  ServerInv'
<1>0. ServerTypes /\ ShapesFit /\ OneLive /\ OrderInv
  BY DEF ServerInv
<1>1. /\ replay.pc = "mark" /\ replay.pc # "wait" /\ server[s].pc = "free"
      /\ UNCHANGED <<receipts, progress, count>>
  BY DEF Send
<1> PICK w : w = [FreeSlot EXCEPT !.pc = "sent", !.todo = InOrder(Batch), !.live = TRUE,
                                  !.ids = [a \in Actions |-> replay.batch[a].id]]
  OBVIOUS
<1>2. w \in SlotRow /\ ShapeFits(w) /\ w.pc = "sent" /\ w.live = TRUE
  BY <1>1, SentIs
<1>3. Moves(s, w)
  BY DEF Send, Moves
<1>4. server' \in [Slots -> SlotRow] /\ ShapesFit'
  BY <1>0, <1>2, <1>3, SlotTypes
<1>5. OneLive'
  <2>1. \A q \in Slots : server'[q] = IF q = s THEN w ELSE server[q]
    BY <1>0, <1>3 DEF Moves, ServerTypes
  <2>2. \A q \in Slots : ~server[q].live
    BY <1>0, <1>1 DEF OneLive
  <2>3. replay'.pc = "wait"
    BY DEF Send, DeviceTypes, ReplayRow
  <2> QED
    BY <1>0, <1>1, <1>2, <2>1, <2>2, <2>3 DEF OneLive
<1>6. ~Past(w) /\ ~Created(server[s])
  BY <1>1, <1>2 DEF Past, Created
<1>7. OrderInv'
  BY <1>0, <1>1, <1>2, <1>3, <1>6, OrderStays
<1> QED
  BY <1>0, <1>1, <1>4, <1>5, <1>7 DEF ServerInv, ServerTypes, Faults

\* A request that gets its reply, or is lost before or after the server's work.
LEMMA FreeServer ==
    ASSUME ServerInv, NEW s \in Slots, Receive(s) \/ Lose(s)
    PROVE  ServerInv'
<1>0. ServerTypes /\ ShapesFit /\ OneLive /\ OrderInv
  BY DEF ServerInv
<1>1. /\ server[s].live /\ server[s].pc \in {"sent", "reply"}
      /\ UNCHANGED <<receipts, progress>> /\ Moves(s, FreeSlot)
  BY DEF Receive, Lose, Moves
<1>2. /\ count' \in [late : Nat, restart : Nat, other : Nat] /\ Faults' <= MaxFaults
      /\ count'.late = count.late /\ count'.restart = count.restart
  <2>1. CASE Receive(s)
    BY <1>0, <2>1 DEF Receive, ServerTypes, Faults
  <2>2. CASE Lose(s)
    BY <1>0, <2>2, FaultIs DEF Lose
  <2> QED
    BY <2>1, <2>2
<1>3. FreeSlot \in SlotRow /\ ShapeFits(FreeSlot) /\ FreeSlot.pc = "free" /\ ~FreeSlot.live
  BY RowsAre DEF ShapeFits, AtWork, FreeSlot
<1>4. server' \in [Slots -> SlotRow] /\ ShapesFit'
  BY <1>0, <1>1, <1>3, SlotTypes
<1>5. count.late \in Nat /\ count'.late \in Nat /\ count'.late >= count.late
  BY <1>0, <1>2 DEF ServerTypes
<1>6. OneLive'
  BY <1>0, <1>1, <1>3, <1>5, OneLiveEnds
<1>7. ~Past(FreeSlot) /\ ~Starts(FreeSlot) /\ ~Created(server[s])
  BY <1>1, <1>3 DEF Past, Starts, Created
<1>8. OrderInv'
  BY <1>0, <1>1, <1>2, <1>7, OrderStays
<1> QED
  BY <1>0, <1>1, <1>2, <1>4, <1>6, <1>8 DEF ServerInv, ServerTypes

LEMMA GiveUpServer ==
    ASSUME ServerInv, NEW s \in Slots, GiveUp(s)
    PROVE  ServerInv'
<1>0. ServerTypes /\ ShapesFit /\ OneLive /\ OrderInv
  BY DEF ServerInv
<1> PICK w : w = [server[s] EXCEPT !.live = FALSE]
  OBVIOUS
<1>1. /\ server[s].live /\ server[s].pc # "reply" /\ Fault("late")
      /\ UNCHANGED <<receipts, progress>> /\ server[s] \in SlotRow
  BY <1>0 DEF GiveUp, ServerTypes
<1>2. Moves(s, w)
  BY <1>0 DEF GiveUp, Moves, ServerTypes
<1>3. /\ w \in SlotRow /\ w.pc = server[s].pc /\ w.todo = server[s].todo /\ w.live = FALSE
      /\ w.ids = server[s].ids
  BY <1>1 DEF SlotRow
<1>4. /\ count' \in [late : Nat, restart : Nat, other : Nat] /\ Faults' <= MaxFaults
      /\ count'.late = count.late + 1 /\ count'.restart = count.restart
  BY <1>0, <1>1, FaultIs
<1>5. ShapeFits(w)
  BY <1>0, <1>3 DEF ShapesFit, ShapeFits, AtWork
<1>6. server' \in [Slots -> SlotRow] /\ ShapesFit'
  BY <1>0, <1>2, <1>3, <1>5, SlotTypes
<1>7. count'.late \in Nat /\ count'.late > 0
  BY <1>0, <1>4 DEF ServerTypes
<1>8. OneLive'
  BY <1>0, <1>1, <1>2, <1>3, <1>7, OneLiveEnds
<1>9. /\ Starts(w) <=> Starts(server[s])
      /\ Past(w) <=> Past(server[s])
      /\ ~(Starts(server[s]) /\ Created(server[s]))
  BY <1>3 DEF Starts, Past, Created
<1>10. /\ Len(progress) \in Nat /\ count.late \in Nat /\ count.restart \in Nat
       /\ Cardinality(LateOnes) \in Nat /\ Cardinality(PastOnes) \in Nat
       /\ Cardinality(LiveMade) \in Nat
  BY <1>0, CountsFit DEF ServerTypes
<1>11. OrderInv'
  <2>1. CASE receipts[0] # NoResult
    <3>1. Cardinality(PastOnes)' = Cardinality(PastOnes)
      BY <1>0, <1>2, <1>9, SlotCounts
    <3>2. Len(progress) + Cardinality(PastOnes) <= 1 + count.restart + count.late
      BY <1>0, <2>1 DEF OrderInv
    <3>3. Len(progress') + Cardinality(PastOnes)' <= 1 + count'.restart + count'.late
      BY SMTT(30), <1>1, <1>4, <1>10, <3>1, <3>2
    <3> QED
      BY <1>1, <2>1, <3>3 DEF OrderInv
  <2>2. CASE receipts[0] = NoResult
    <3>1. Len(progress) + Cardinality(LateOnes)
          <= count.restart + count.late + Cardinality(LiveMade)
      BY <1>0, <2>2 DEF OrderInv
    <3>2. Starts(server[s]) => /\ Cardinality(LateOnes)' = Cardinality(LateOnes) + 1
                               /\ Cardinality(LiveMade)' = Cardinality(LiveMade)
      BY <1>0, <1>1, <1>2, <1>3, <1>9, SlotCounts
    <3>3. Created(server[s]) => /\ Cardinality(LateOnes)' = Cardinality(LateOnes)
                                /\ Cardinality(LiveMade)' = Cardinality(LiveMade) - 1
      BY <1>0, <1>1, <1>2, <1>3, <1>9, SlotCounts
    <3>4. ~Starts(server[s]) /\ ~Created(server[s]) =>
              /\ Cardinality(LateOnes)' = Cardinality(LateOnes)
              /\ Cardinality(LiveMade)' = Cardinality(LiveMade)
      BY <1>0, <1>1, <1>2, <1>3, <1>9, SlotCounts
    <3>5. Len(progress') + Cardinality(LateOnes)'
          <= count'.restart + count'.late + Cardinality(LiveMade)'
      <4>1. Len(progress') = Len(progress)
        BY <1>1
      <4>2. CASE Starts(server[s])
        <5>1. /\ Cardinality(LateOnes)' = Cardinality(LateOnes) + 1
              /\ Cardinality(LiveMade)' = Cardinality(LiveMade)
          BY <3>2, <4>2
        <5> PICK n, l, c, r, m : /\ n = Len(progress) /\ l = Cardinality(LateOnes)
                                 /\ c = Cardinality(LiveMade) /\ r = count.restart
                                 /\ m = count.late
          OBVIOUS
        <5>2. n \in Nat /\ l \in Nat /\ c \in Nat /\ r \in Nat /\ m \in Nat
          BY <1>10
        <5>3. n + (l + 1) <= r + (m + 1) + c
          BY SMTT(30), <3>1, <5>2
        <5> QED
          BY <1>4, <4>1, <5>1, <5>3
      <4>3. CASE Created(server[s])
        BY SMTT(30), <1>4, <1>10, <3>1, <3>3, <4>1, <4>3
      <4>4. CASE ~Starts(server[s]) /\ ~Created(server[s])
        BY SMTT(30), <1>4, <1>10, <3>1, <3>4, <4>1, <4>4
      <4> QED
        BY <4>2, <4>3, <4>4
    <3> QED
      BY <1>1, <2>2, <3>5 DEF OrderInv
  <2> QED
    BY <2>1, <2>2
<1> QED
  BY <1>0, <1>1, <1>4, <1>6, <1>8, <1>11 DEF ServerInv, ServerTypes

LEMMA RestartServer ==
    ASSUME ServerInv, Restart
    PROVE  ServerInv'
<1>0. ServerTypes /\ ShapesFit /\ OneLive /\ OrderInv
  BY DEF ServerInv
<1>1. /\ \A s \in Slots : server'[s] = FreeSlot
      /\ progress' = progress /\ receipts' = [a \in Actions |-> NoResult] /\ Fault("restart")
  BY DEF Restart
<1>2. /\ count' \in [late : Nat, restart : Nat, other : Nat] /\ Faults' <= MaxFaults
      /\ count'.late = count.late /\ count'.restart = count.restart + 1
  BY <1>0, <1>1, FaultIs
<1>3. FreeSlot \in SlotRow /\ ShapeFits(FreeSlot) /\ FreeSlot.pc = "free" /\ ~FreeSlot.live
  BY RowsAre DEF ShapeFits, AtWork, FreeSlot
<1>4. /\ server' \in [Slots -> SlotRow] /\ ShapesFit' /\ OneLive'
      /\ receipts' \in [Actions -> Result \cup {NoResult}] /\ receipts'[0] = NoResult
  BY <1>1, <1>3, RowsAre DEF Restart, ShapesFit, OneLive
<1>5. LateOnes' = {} /\ LiveMade' = {}
  BY <1>1, <1>3 DEF LateOnes, LiveMade, Starts, Created
<1>6. Cardinality(LateOnes)' = 0 /\ Cardinality(LiveMade)' = 0
  BY <1>5, FS_EmptySet
<1>7. /\ Len(progress) \in Nat /\ count.late \in Nat /\ count.restart \in Nat
      /\ Cardinality(LateOnes) \in Nat /\ Cardinality(PastOnes) \in Nat
      /\ Cardinality(LiveMade) \in Nat /\ Cardinality(LiveMade) <= 1
  BY <1>0, CountsFit DEF ServerTypes
<1>8. Len(progress) <= 1 + count.restart + count.late
  BY <1>0, <1>7 DEF OrderInv
<1>9. Len(progress') + Cardinality(LateOnes)'
      <= count'.restart + count'.late + Cardinality(LiveMade)'
  BY <1>1, <1>2, <1>6, <1>7, <1>8
<1>10. OrderInv'
  BY <1>4, <1>9 DEF OrderInv
<1> QED
  BY <1>0, <1>1, <1>2, <1>4, <1>10 DEF ServerInv, ServerTypes

\* What one request more adds on either side.
LEMMA CarriedOver ==
    ASSUME NEW n \in Nat, NEW l \in Nat, NEW l1 \in Nat, NEW c \in Nat, NEW c1,
           NEW r \in Nat, NEW m \in Nat, NEW k \in Nat,
           c1 = 0, l1 + c <= l + k, n + l <= r + m + c
    PROVE  n + l1 <= r + (m + k) + c1
OBVIOUS

LEMMA CrashServer ==
    ASSUME ServerInv, Crash
    PROVE  ServerInv'
<1>0. ServerTypes /\ ShapesFit /\ OneLive /\ OrderInv
  BY DEF ServerInv
<1> PICK busy, k : /\ busy = {s \in Slots : server[s].live /\ server[s].pc # "reply"}
                   /\ k = Cardinality(busy)
  OBVIOUS
<1>1. /\ Faults + k < MaxFaults
      /\ count' = [count EXCEPT !.other = count.other + 1, !.late = count.late + k]
      /\ server' = [s \in Slots |-> IF server[s].pc = "reply" THEN FreeSlot
                                    ELSE [server[s] EXCEPT !.live = FALSE]]
      /\ UNCHANGED <<receipts, progress>>
  BY DEF Crash
<1>2. /\ Len(progress) \in Nat /\ count.late \in Nat /\ count.restart \in Nat
      /\ Cardinality(LateOnes) \in Nat /\ Cardinality(PastOnes) \in Nat
      /\ Cardinality(LiveMade) \in Nat /\ Cardinality(LiveMade) <= 1
      /\ MaxFaults \in Nat /\ count \in [late : Nat, restart : Nat, other : Nat]
  BY <1>0, CountsFit, RowsAre DEF ServerTypes
<1>3. /\ busy \in SUBSET Slots /\ IsFiniteSet(busy) /\ k \in Nat
      /\ k = 0 <=> busy = {}
  BY PartsOfSlots, FS_EmptySet
<1>4. /\ count' \in [late : Nat, restart : Nat, other : Nat] /\ Faults' <= MaxFaults
      /\ count'.late = count.late + k /\ count'.restart = count.restart
  <2>1. /\ count' \in [late : Nat, restart : Nat, other : Nat]
        /\ count'.late = count.late + k /\ count'.restart = count.restart
        /\ count'.other = count.other + 1
    <3>1. count' = [count EXCEPT !.other = count.other + 1, !.late = count.late + k]
      BY <1>1
    <3>2. /\ count \in [late : Nat, restart : Nat, other : Nat]
          /\ count.late + k \in Nat /\ count.other + 1 \in Nat
      BY <1>2, <1>3
    <3> QED
      BY <3>1, <3>2
  <2>2. count.late \in Nat /\ count.restart \in Nat /\ count.other \in Nat
    BY <1>2
  <2>3. count.late + count.restart + count.other + k < MaxFaults
    BY <1>1 DEF Faults
  <2>4. count'.late + count'.restart + count'.other <= MaxFaults
    <3>1. (count.late + k) + count.restart + (count.other + 1) <= MaxFaults
      BY SMTT(60), <1>2, <1>3, <2>2, <2>3
    <3> QED
      BY <2>1, <3>1
  <2> QED
    BY <2>1, <2>4 DEF Faults
<1>5. ASSUME NEW s \in Slots
      PROVE  /\ server'[s] \in SlotRow /\ ShapeFits(server'[s]) /\ ~server'[s].live
             /\ Starts(server'[s]) <=> Starts(server[s])
             /\ Past(server'[s]) <=> Past(server[s])
             /\ server'[s].pc # "free" => server[s].pc \notin {"free", "reply"}
  <2>1. server[s] \in SlotRow /\ ShapeFits(server[s])
    BY <1>0 DEF ServerTypes, ShapesFit
  <2>2. CASE server[s].pc = "reply"
    <3>1. server'[s] = FreeSlot
      BY <1>1, <2>2
    <3>2. FreeSlot \in SlotRow /\ FreeSlot.pc = "free" /\ FreeSlot.live = FALSE
      BY RowsAre DEF FreeSlot
    <3> QED
      BY <2>2, <3>1, <3>2 DEF ShapeFits, AtWork, Starts, Past
  <2>3. CASE server[s].pc # "reply"
    <3> PICK w : w = [server[s] EXCEPT !.live = FALSE]
      OBVIOUS
    <3>1. server'[s] = w
      BY <1>1, <2>3
    <3>2. /\ w \in SlotRow /\ w.pc = server[s].pc /\ w.todo = server[s].todo /\ w.live = FALSE
          /\ w.ids = server[s].ids
      BY <2>1 DEF SlotRow
    <3>3. ShapeFits(w) /\ (Starts(w) <=> Starts(server[s])) /\ (Past(w) <=> Past(server[s]))
      BY <2>1, <3>2 DEF ShapeFits, AtWork, Starts, Past
    <3> QED
      BY <2>3, <3>1, <3>2, <3>3
  <2> QED
    BY <2>2, <2>3
<1>6. server' \in [Slots -> SlotRow] /\ ShapesFit'
  <2>1. server' = [s \in Slots |-> server'[s]]
    BY <1>1
  <2> QED
    BY <1>5, <2>1 DEF ShapesFit
<1>7. OneLive'
  <2>1. ASSUME count'.late = 0, NEW s \in Slots PROVE server'[s].pc = "free"
    <3>1. count.late = 0 /\ busy = {}
      BY <1>2, <1>3, <1>4, <2>1
    <3>2. server[s].pc # "free" => server[s].live
      BY <1>0, <3>1 DEF OneLive
    <3> QED
      BY <1>5, <3>1, <3>2
  <2> QED
    BY <1>5, <2>1 DEF OneLive
<1>8. PastOnes' = PastOnes
  BY <1>5 DEF PastOnes
<1>9. LiveMade' = {} /\ LateOnes' = {s \in Slots : Starts(server[s])}
  BY <1>5 DEF LiveMade, LateOnes
<1>10. Cardinality(LiveMade)' = 0
  BY <1>9, FS_EmptySet
<1>11. Cardinality(LateOnes)' + Cardinality(LiveMade) <= Cardinality(LateOnes) + k
  <2> PICK L : L = {s \in Slots : Starts(server[s])}
    OBVIOUS
  <2>1. \A s \in Slots : Starts(server[s]) /\ server[s].live => s \in busy
    BY DEF Starts
  <2>2. \A s \in LiveMade : s \in busy /\ s \notin L
    BY DEF LiveMade, Created, Starts
  <2>3. L \subseteq LateOnes \cup busy /\ L \in SUBSET Slots /\ LateOnes \in SUBSET Slots
    BY <2>1 DEF LateOnes
  <2>4. CASE busy = {}
    <3>1. L \subseteq LateOnes /\ LiveMade = {}
      BY <2>2, <2>3, <2>4
    <3>2. Cardinality(L) <= Cardinality(LateOnes) /\ Cardinality(L) \in Nat
      BY <2>3, <3>1, PartsOfSlots, FS_Subset
    <3>3. Cardinality(LiveMade) = 0
      BY <3>1, FS_EmptySet
    <3> QED
      BY <1>2, <1>3, <1>9, <3>2, <3>3
  <2>5. CASE busy # {}
    <3>1. PICK b \in Slots : busy = {b}
      BY <1>0, <2>5 DEF OneLive
    <3>2. k = 1
      BY <3>1, FS_Singleton
    <3>3. CASE b \in LiveMade
      <4>1. L \subseteq LateOnes
        BY <2>2, <2>3, <3>1, <3>3
      <4>2. Cardinality(L) <= Cardinality(LateOnes) /\ Cardinality(L) \in Nat
        BY <2>3, <4>1, PartsOfSlots, FS_Subset
      <4> QED
        BY <1>2, <1>9, <3>2, <4>2
    <3>4. CASE b \notin LiveMade
      <4>1. LiveMade = {} /\ L \subseteq LateOnes \cup {b}
        BY <2>2, <2>3, <3>1, <3>4
      <4>2. LateOnes \cup {b} \in SUBSET Slots
        BY <2>3
      <4>3. Cardinality(L) <= Cardinality(LateOnes \cup {b}) /\ Cardinality(L) \in Nat
        BY <2>3, <4>1, <4>2, PartsOfSlots, FS_Subset
      <4>4. Cardinality(LateOnes \cup {b}) <= Cardinality(LateOnes) + 1
        BY <1>2, <2>3, PartsOfSlots, FS_AddElement
      <4>5. Cardinality(LiveMade) = 0
        BY <4>1, FS_EmptySet
      <4>6. Cardinality(LateOnes \cup {b}) \in Nat
        BY <4>2, PartsOfSlots
      <4> QED
        BY <1>2, <1>9, <3>2, <4>3, <4>4, <4>5, <4>6
    <3> QED
      BY <3>3, <3>4
  <2> QED
    BY <2>4, <2>5
<1>12. Cardinality(LateOnes)' \in Nat
  <2>1. LateOnes' \in SUBSET Slots
    BY <1>9
  <2> QED
    BY <2>1, PartsOfSlots
<1>13. OrderInv'
  <2>1. CASE receipts[0] # NoResult
    <3>1. Len(progress) + Cardinality(PastOnes) <= 1 + count.restart + count.late
      BY <1>0, <2>1 DEF OrderInv
    <3>2. Len(progress') + Cardinality(PastOnes)' <= 1 + count'.restart + count'.late
      BY SMTT(30), <1>1, <1>2, <1>3, <1>4, <1>8, <3>1
    <3> QED
      BY <1>1, <2>1, <3>2 DEF OrderInv
  <2>2. CASE receipts[0] = NoResult
    <3>1. Len(progress) + Cardinality(LateOnes)
          <= count.restart + count.late + Cardinality(LiveMade)
      BY <1>0, <2>2 DEF OrderInv
    <3>2. Len(progress') + Cardinality(LateOnes)'
          <= count'.restart + count'.late + Cardinality(LiveMade)'
      <4>1. Len(progress') = Len(progress)
        BY <1>1
      <4> PICK n, l, l1, c, c1 : /\ n = Len(progress)
                                 /\ l = Cardinality(LateOnes) /\ l1 = Cardinality(LateOnes)'
                                 /\ c = Cardinality(LiveMade) /\ c1 = Cardinality(LiveMade)'
        OBVIOUS
      <4> PICK r, m : r = count.restart /\ m = count.late
        OBVIOUS
      <4>2. n \in Nat /\ l \in Nat /\ c \in Nat /\ r \in Nat /\ m \in Nat
        BY <1>2
      <4>3. l1 \in Nat /\ c1 = 0
        BY <1>10, <1>12
      <4>4. l1 + c <= l + k
        BY <1>11
      <4>5. n + l <= r + m + c
        BY <3>1
      <4>6. k \in Nat
        BY <1>3
      <4>7. n + l1 <= r + (m + k) + c1
        BY ZenonT(120), <4>2, <4>3, <4>4, <4>5, <4>6, CarriedOver
      <4> QED
        BY <1>4, <4>1, <4>7
    <3> QED
      BY <1>1, <2>2, <3>2 DEF OrderInv
  <2> QED
    BY <2>1, <2>2
<1> QED
  BY <1>0, <1>1, <1>4, <1>6, <1>7, <1>13 DEF ServerInv, ServerTypes

---------------------------------------------------------------------------
(* The invariant holds in every step.                                      *)

LEMMA SendsSomeStays ==
    ASSUME DeviceTypes, BatchFits, SendsSome, [Next]_vars
    PROVE  SendsSome'
<1>0. replay \in ReplayRow
  BY DEF DeviceTypes
<1>1. CASE replay' = replay
  BY <1>1 DEF SendsSome, Batch
<1>2. CASE replay'.pc # "mark"
  BY <1>2 DEF SendsSome
<1>3. ASSUME NEW phase \in {"create", "update"}, replay' = Pass(phase) PROVE SendsSome'
  <2> PICK set, marked : /\ set = Eligible(phase)
                         /\ marked = [a \in Actions |-> IF a \in set
                                                        THEN [table[a] EXCEPT !.status = "syncing"]
                                                        ELSE NoRow]
    OBVIOUS
  <2>1. CASE set = {}
    <3>1. replay' = IdleReplay \/ replay' = [IdleReplay EXCEPT !.pc = "next"]
      BY <1>3, <2>1 DEF Pass
    <3> QED
      BY <1>2, <3>1 DEF IdleReplay
  <2>2. CASE set # {}
    <3>1. replay'.batch = marked
      BY <1>3, <2>2 DEF Pass, IdleReplay
    <3>2. PICK a \in set : a \in Actions /\ table[a] \in Row
      BY <2>2 DEF Eligible, DeviceTypes, Tables, NoRow
    <3>3. marked[a].status = "syncing"
      BY <3>2 DEF Row
    <3>4. a \in Batch'
      BY <3>1, <3>2, <3>3 DEF Batch, NoRow
    <3> QED
      BY <3>4 DEF SendsSome
  <2> QED
    BY <2>1, <2>2
<1>4. CASE Load \/ Save \/ MapDependents \/ UpdateEntity
  <2>1. replay'.pc = replay.pc /\ replay'.batch = replay.batch
    BY <1>0, <1>4 DEF Load, Save, MapDependents, UpdateEntity, ReplayRow
  <2> QED
    BY <2>1 DEF SendsSome, Batch
<1>5. CASE replay' = Broken
  <2>1. replay'.pc = "settle"
    BY <1>0, <1>5 DEF Broken, ReplayRow
  <2> QED
    BY <1>2, <2>1
<1>6. CASE EndPass \/ Crash \/ \E s \in Slots : Send(s) \/ Receive(s)
  <2>1. replay'.pc # "mark"
    <3>1. /\ IdleReplay.pc # "mark" /\ [IdleReplay EXCEPT !.pc = "next"].pc = "next"
          /\ [replay EXCEPT !.pc = "wait"].pc = "wait"
          /\ \A todo : [replay EXCEPT !.pc = "settle", !.todo = todo].pc = "settle"
      BY <1>0 DEF IdleReplay, ReplayRow
    <3>2. CASE EndPass \/ Crash
      BY <3>1, <3>2 DEF EndPass, Crash
    <3>3. ASSUME NEW s \in Slots, Send(s) PROVE replay'.pc # "mark"
      BY <3>1, <3>3 DEF Send
    <3>4. ASSUME NEW s \in Slots, Receive(s) PROVE replay'.pc # "mark"
      <4> PICK todo : todo = AllTasks(server[s].got)
        OBVIOUS
      <4>1. replay' = [replay EXCEPT !.pc = "settle", !.todo = todo]
        BY <3>4 DEF Receive
      <4> QED
        BY <1>0, <4>1 DEF ReplayRow
    <3> QED
      BY <1>6, <3>2, <3>3, <3>4
  <2> QED
    BY <1>2, <2>1
<1>7. CASE UNCHANGED vars
  BY <1>1, <1>7 DEF vars, deviceVars
<1>8. CASE StartReplay \/ NextPass
  BY <1>3, <1>8 DEF StartReplay, NextPass
<1>9. CASE \/ Record \/ SaveUser \/ Refresh
           \/ \E a \in Actions, status \in {"pending", "yielded"} : Resolve(a, status)
           \/ \E s \in Slots : Look(s) \/ Read(s) \/ Refuse(s) \/ Apply(s) \/ Accept(s)
  BY <1>1, <1>9 DEF Record, SaveUser, Refresh, Resolve, Look, Read, Refuse, Apply, Accept,
                    deviceVars
<1>10. CASE Restart \/ \E s \in Slots : Lose(s) \/ GiveUp(s)
  BY <1>1, <1>5, <1>10 DEF Restart, Lose, GiveUp
<1> QED
  BY <1>4, <1>6, <1>7, <1>8, <1>9, <1>10 DEF Next

LEMMA DeviceKeepsServer ==
    ASSUME ServerInv, UNCHANGED <<serverVars, count>>, replay' = replay \/ replay.pc # "wait"
    PROVE  ServerInv'
<1>1. UNCHANGED <<server, receipts, progress, count>>
  BY DEF serverVars
<1>2. ServerTypes' /\ ShapesFit' /\ OrderInv'
  BY <1>1, ServerQuiet DEF ServerInv
<1>3. OneLive'
  BY <1>1 DEF OneLive, ServerInv
<1> QED
  BY <1>2, <1>3 DEF ServerInv

LEMMA IInvIsInductive ==
    ASSUME IInv, [Next]_vars
    PROVE  IInv'
<1>0. ServerInv /\ DeviceTypes /\ BatchFits /\ SendsSome /\ ServerTypes
  BY DEF IInv, ServerInv
<1>1. SendsSome'
  BY <1>0, SendsSomeStays
<1>2. SUFFICES DeviceTypes' /\ BatchFits' /\ ServerInv'
  BY <1>1 DEF IInv, ServerInv
<1>3. CASE Record \/ SaveUser \/ Refresh
             \/ \E a \in Actions, status \in {"pending", "yielded"} : Resolve(a, status)
  <2>1. DeviceTypes' /\ replay' = replay /\ UNCHANGED <<serverVars, count>>
    BY <1>0, <1>3, ScreenTypes
  <2>2. BatchFits'
    BY <1>0, <2>1 DEF BatchFits
  <2> QED
    BY <1>0, <2>1, <2>2, DeviceKeepsServer
<1>4. CASE StartReplay \/ NextPass \/ Load \/ Save \/ MapDependents \/ UpdateEntity \/ EndPass
  <2>1. DeviceTypes' /\ BatchFits' /\ replay.pc # "wait" /\ UNCHANGED <<serverVars, count>>
    BY <1>0, <1>4, ReplayTypes
  <2> QED
    BY <1>0, <2>1, DeviceKeepsServer
<1>5. CASE \/ \E s \in Slots : Send(s) \/ Receive(s) \/ Lose(s) \/ GiveUp(s)
           \/ Restart \/ Crash
  <2>1. DeviceTypes' /\ BatchFits'
    BY <1>0, <1>5, RequestTypes
  <2>2. ServerInv'
    BY <1>0, <1>5, SendServer, FreeServer, GiveUpServer, RestartServer, CrashServer
  <2> QED
    BY <2>1, <2>2
<1>6. CASE \E s \in Slots : Look(s) \/ Read(s) \/ Refuse(s) \/ Apply(s) \/ Accept(s)
  <2>1. UNCHANGED deviceVars
    BY <1>6 DEF Look, Read, Refuse, Apply, Accept
  <2>2. DeviceTypes' /\ BatchFits'
    BY <1>0, <2>1 DEF deviceVars, DeviceTypes, BatchFits
  <2>3. ServerInv'
    BY <1>0, <1>6, LookServer, ReadServer, RefuseServer, ApplyServer, AcceptServer
  <2> QED
    BY <2>2, <2>3
<1>7. CASE UNCHANGED vars
  <2>1. UNCHANGED <<serverVars, count, deviceVars>>
    BY <1>7 DEF vars
  <2>2. DeviceTypes' /\ BatchFits' /\ replay' = replay
    BY <1>0, <2>1 DEF deviceVars, DeviceTypes, BatchFits
  <2> QED
    BY <1>0, <2>1, <2>2, DeviceKeepsServer
<1> QED
  BY <1>3, <1>4, <1>5, <1>6, <1>7 DEF Next

LEMMA IInvInitially ==
    ASSUME Init
    PROVE  IInv
<1>1. DeviceTypes /\ BatchFits /\ SendsSome
  <2>1. replay.pc # "mark"
    BY DEF Init, IdleReplay
  <2>2. SendsSome
    BY <2>1 DEF SendsSome
  <2>3. BatchFits
    BY NoBatch DEF Init, BatchFits
  <2>4. made \in 0 .. MaxUpdates + 1
    BY ActionsAre DEF Init
  <2>5. DeviceTypes
    BY <2>4, RowsAre DEF Init, DeviceTypes
  <2> QED
    BY <2>2, <2>3, <2>5
<1>2. /\ \A s \in Slots : server[s] = FreeSlot /\ FreeSlot.pc = "free" /\ ~FreeSlot.live
  BY DEF Init, FreeSlot
<1>3. ShapesFit /\ OneLive
  BY <1>2 DEF ShapesFit, ShapeFits, AtWork, OneLive
<1>4. ServerTypes
  <2>1. server \in [Slots -> SlotRow] /\ progress \in Seq(Actions)
    BY RowsAre DEF Init
  <2>2. receipts \in [Actions -> Result \cup {NoResult}]
    BY DEF Init
  <2>3. count \in [late : Nat, restart : Nat, other : Nat] /\ Faults <= MaxFaults
    BY RowsAre DEF Init, Faults
  <2> QED
    BY <2>1, <2>2, <2>3 DEF ServerTypes
<1>5. OrderInv
  <2>1. LateOnes = {} /\ LiveMade = {}
    BY <1>2 DEF LateOnes, LiveMade, Starts, Created
  <2>2. Cardinality(LateOnes) = 0 /\ Cardinality(LiveMade) = 0
    BY <2>1, FS_EmptySet
  <2>3. receipts[0] = NoResult /\ Len(progress) = 0 /\ count.restart = 0 /\ count.late = 0
    BY RowsAre DEF Init
  <2> QED
    BY <2>2, <2>3 DEF OrderInv
<1> QED
  BY <1>1, <1>3, <1>4, <1>5 DEF IInv

LEMMA IInvHolds == Spec => []IInv
<1>1. Init => IInv
  BY IInvInitially
<1>2. IInv /\ [Next]_vars => IInv'
  BY IInvIsInductive
<1> QED
  BY <1>1, <1>2, PTL DEF Spec

\* The device and the server keep the types of what they hold, the queue of
\* the replay and the orders at the server among them, for any number of
\* statuses, retries, requests and faults.
THEOREM SyncTypeCorrect == Spec => []TypeOK
<1>1. IInv => TypeOK
  BY DEF IInv, DeviceTypes, ServerTypes, TypeOK, UserRow, ReplayRow, SlotRow, Id, Actions
<1> QED
  BY <1>1, IInvHolds, PTL

\* The order of an action recorded once is created once at the server, and once
\* more at most for every restart and every request the device gave up: the
\* receipts of syncMobileWorkOrderActions, whatever is lost, saved over or
\* sent again.
THEOREM OrdersStayFew == Spec => []OrdersBounded
<1>1. IInv => OrdersBounded
  <2> SUFFICES ASSUME IInv PROVE OrdersBounded
    OBVIOUS
  <2>1. ServerTypes /\ OneLive /\ OrderInv
    BY DEF IInv
  <2>2. /\ Len(progress) \in Nat /\ count.late \in Nat /\ count.restart \in Nat
        /\ Cardinality(LateOnes) \in Nat /\ Cardinality(PastOnes) \in Nat
        /\ Cardinality(LiveMade) \in Nat /\ Cardinality(LiveMade) <= 1
    BY <2>1, CountsFit DEF ServerTypes
  <2> QED
    BY <2>1, <2>2 DEF OrderInv, OrdersBounded
<1> QED
  BY <1>1, IInvHolds, PTL

---------------------------------------------------------------------------
(* What the device and the server say of an order is so.                   *)

Orders == 0 .. Len(progress)

\* An action is applied to the order of this id; requests given up may undo it.
Applied(a, id) ==
    count.late = 0 => IF a = 0 THEN Len(progress) > 0 ELSE id # 0 /\ progress[id] >= a

RowFits(a, row) == row.id \in Orders /\ (row.status = "synced" => Applied(a, row.id))
TableFits(t)    == \A a \in Actions : RowFits(a, t[a])
FitTasks        == {task \in Task : RowFits(task.act, task.row) /\ task.id \in Orders}

ReplayFits(r) == TableFits(r.batch) /\ TableFits(r.snap) /\ r.todo \in Seq(FitTasks)
ScreenFits(u) == TableFits(u.snap) /\ RowFits(u.act, u.row)
DeviceSays(k, d, t, u, r) ==
    k \in Orders /\ d \in Orders /\ TableFits(t) /\ ScreenFits(u) /\ ReplayFits(r)

DeviceFits == DeviceSays(known, stored, table, user, replay)

ResultFits(a, id, result) ==
    result.ref \in Orders /\ (result.status = "processed" => result.ref # 0 /\ Applied(a, id))

SlotFits(slot) ==
    /\ \A a \in Actions : slot.ids[a] \in Orders /\ ResultFits(a, slot.ids[a], slot.got[a])
    /\ slot.pc = "record" =>
           /\ slot.seen \in Orders \ {0}
           /\ Applied(Head(slot.todo), slot.seen)
           /\ Head(slot.todo) # 0 => slot.seen = slot.ids[Head(slot.todo)]

\* What was read of the order is still so when it is written, but for late requests.
WriteFits(slot) ==
    slot.pc = "write" /\ count.late = 0 /\ Head(slot.todo) # 0 =>
        progress[slot.ids[Head(slot.todo)]] <= Head(slot.todo)

SlotsFit == \A s \in Slots : SlotFits(server[s]) /\ WriteFits(server[s])

\* The request that is waited for is about the batch.
Matches ==
    \A s \in Slots, a \in Actions : server[s].live => server[s].ids[a] = replay.batch[a].id

ReceiptsFit ==
    \A a \in Actions : /\ ResultFits(a, receipts[a].ref, receipts[a])
                       /\ receipts[a] # NoResult => receipts[a].status = "processed"

FitInv == DeviceFits /\ SlotsFit /\ Matches /\ ReceiptsFit

---------------------------------------------------------------------------
(* What was so of an order stays so.                                       *)

\* Orders are added and move on; once a request is given up, they are only kept.
Grown ==
    /\ Len(progress) <= Len(progress')
    /\ count'.late = 0 => /\ count.late = 0
                          /\ \A i \in 1 .. Len(progress) : progress[i] <= progress'[i]

LEMMA AppliedGrows ==
    ASSUME ServerTypes, ServerTypes', Grown, NEW a \in Actions, NEW id \in Orders, Applied(a, id)
    PROVE  id \in Orders' /\ Applied(a, id)'
<1>0. progress \in Seq(Actions) /\ progress' \in Seq(Actions) /\ Len(progress) <= Len(progress')
  BY DEF ServerTypes, Grown
<1>1. /\ Len(progress) \in Nat /\ Len(progress') \in Nat /\ Len(progress) <= Len(progress')
      /\ \A i \in 1 .. Len(progress) : progress[i] \in Nat
      /\ \A i \in 1 .. Len(progress') : progress'[i] \in Nat
  <2>1. Actions \subseteq Nat
    BY ActionsAre
  <2>2. /\ Len(progress) \in Nat /\ \A i \in 1 .. Len(progress) : progress[i] \in Actions
        /\ Len(progress') \in Nat /\ \A i \in 1 .. Len(progress') : progress'[i] \in Actions
    BY <1>0
  <2> QED
    BY <1>0, <2>1, <2>2
<1>2. id \in Orders'
  BY <1>1 DEF Orders
<1>3. ASSUME count'.late = 0, a = 0 PROVE Len(progress') > 0
  BY <1>1, <1>3 DEF Grown, Applied
<1>4. ASSUME count'.late = 0, a # 0 PROVE id # 0 /\ progress'[id] >= a
  <2>1. id # 0 /\ progress[id] >= a /\ id \in 1 .. Len(progress)
    BY <1>1, <1>4 DEF Grown, Applied, Orders
  <2>2. progress[id] <= progress'[id] /\ id \in 1 .. Len(progress')
    BY <1>1, <1>4, <2>1 DEF Grown
  <2> QED
    BY <1>1, <2>1, <2>2, ActionsAre
<1> QED
  BY <1>2, <1>3, <1>4 DEF Applied

LEMMA OrdersGrow ==
    ASSUME ServerTypes, ServerTypes', Grown
    PROVE  Orders \subseteq Orders'
BY DEF ServerTypes, Grown, Orders

LEMMA RowGrows ==
    ASSUME ServerTypes, ServerTypes', Grown, NEW a \in Actions, NEW row, RowFits(a, row)
    PROVE  RowFits(a, row)'
BY AppliedGrows, OrdersGrow DEF RowFits

LEMMA TableGrows ==
    ASSUME ServerTypes, ServerTypes', Grown, NEW t, TableFits(t)
    PROVE  TableFits(t)'
BY RowGrows DEF TableFits

LEMMA TodoGrows ==
    ASSUME ServerTypes, ServerTypes', Grown, NEW todo \in Seq(FitTasks)
    PROVE  todo \in Seq(FitTasks')
<1>1. ASSUME NEW task \in FitTasks PROVE task \in FitTasks'
  <2>1. task \in Task /\ task.act \in Actions /\ RowFits(task.act, task.row) /\ task.id \in Orders
    BY TasksAre DEF FitTasks
  <2>2. RowFits(task.act, task.row)' /\ task.id \in Orders'
    BY <2>1, RowGrows, OrdersGrow
  <2> QED
    BY <2>1, <2>2 DEF FitTasks
<1> QED
  BY <1>1

LEMMA ResultGrows ==
    ASSUME ServerTypes, ServerTypes', Grown, NEW a \in Actions, NEW id \in Orders, NEW result,
           ResultFits(a, id, result)
    PROVE  ResultFits(a, id, result)'
BY AppliedGrows, OrdersGrow DEF ResultFits

LEMMA SlotGrows ==
    ASSUME ServerTypes, ServerTypes', Grown, NEW slot \in SlotRow, SlotFits(slot),
           ShapeFits(slot)
    PROVE  SlotFits(slot)'
<1>1. ASSUME NEW a \in Actions
      PROVE  slot.ids[a] \in Orders' /\ ResultFits(a, slot.ids[a], slot.got[a])'
  <2> PICK id, result : id = slot.ids[a] /\ result = slot.got[a]
    OBVIOUS
  <2>1. id \in Orders /\ ResultFits(a, id, result)
    BY DEF SlotFits
  <2> QED
    BY <2>1, ResultGrows, OrdersGrow
<1>2. ASSUME slot.pc = "record"
      PROVE  /\ slot.seen \in Orders' \ {0}
             /\ Applied(Head(slot.todo), slot.seen)'
             /\ Head(slot.todo) # 0 => slot.seen = slot.ids[Head(slot.todo)]
  <2> PICK a, id : a = Head(slot.todo) /\ id = slot.seen
    OBVIOUS
  <2>1. a \in Actions
    BY <1>2, RestOf DEF ShapeFits, AtWork, SlotRow
  <2>2. id \in Orders \ {0} /\ Applied(a, id) /\ (a # 0 => id = slot.ids[a])
    BY <1>2 DEF SlotFits
  <2> QED
    BY <2>1, <2>2, AppliedGrows
<1> QED
  BY <1>1, <1>2 DEF SlotFits

LEMMA DeviceGrows ==
    ASSUME ServerTypes, ServerTypes', DeviceTypes', Grown,
           DeviceSays(known', stored', table', user', replay')
    PROVE  DeviceFits'
<1> PICK k, d, t, u, r : k = known' /\ d = stored' /\ t = table' /\ u = user' /\ r = replay'
  OBVIOUS
<1>1. DeviceSays(k, d, t, u, r) /\ u.act \in Actions
  BY DEF DeviceTypes, UserRow
<1>2. (k \in Orders)' /\ (d \in Orders)'
  BY <1>1, OrdersGrow DEF DeviceSays
<1>3. TableFits(t)' /\ TableFits(u.snap)' /\ TableFits(r.batch)' /\ TableFits(r.snap)'
  BY <1>1, TableGrows DEF DeviceSays, ScreenFits, ReplayFits
<1>4. RowFits(u.act, u.row)'
  BY <1>1, RowGrows DEF DeviceSays, ScreenFits
<1>5. (r.todo \in Seq(FitTasks))'
  BY <1>1, TodoGrows DEF DeviceSays, ReplayFits
<1>6. DeviceSays(k, d, t, u, r)'
  BY <1>2, <1>3, <1>4, <1>5 DEF DeviceSays, ScreenFits, ReplayFits
<1> QED
  BY <1>6 DEF DeviceFits

\* No order is added or moved, and requests given up are not taken back.
Keeps == progress' = progress /\ count'.late >= count.late

LEMMA KeepsGrows ==
    ASSUME ServerTypes, ServerTypes', Keeps
    PROVE  Grown
<1>1. count.late \in Nat /\ count'.late \in Nat /\ progress \in Seq(Actions)
  BY DEF ServerTypes
<1>2. Len(progress) \in Nat /\ \A i \in 1 .. Len(progress) : progress[i] \in Nat
  <2>1. Len(progress) \in Nat /\ \A i \in 1 .. Len(progress) : progress[i] \in Actions
    BY <1>1
  <2>2. Actions \subseteq Nat
    BY ActionsAre
  <2> QED
    BY <2>1, <2>2
<1> QED
  BY <1>1, <1>2 DEF Keeps, Grown

LEMMA SlotsKeep ==
    ASSUME ServerTypes, ServerTypes', ShapesFit', Keeps,
           \A q \in Slots : SlotFits(server'[q]) /\ WriteFits(server'[q])
    PROVE  SlotsFit'
<1>1. Grown
  BY KeepsGrows
<1>2. ASSUME NEW q \in Slots PROVE (SlotFits(server[q]) /\ WriteFits(server[q]))'
  <2> PICK w : w = server'[q]
    OBVIOUS
  <2>1. w \in SlotRow /\ ShapeFits(w) /\ SlotFits(w) /\ WriteFits(w)
    BY <1>2 DEF ServerTypes, ShapesFit
  <2>2. SlotFits(w)'
    BY <1>1, <2>1, SlotGrows
  <2>3. WriteFits(w)'
    <3>1. count.late \in Nat /\ count'.late \in Nat
      BY DEF ServerTypes
    <3> QED
      BY <2>1, <3>1 DEF WriteFits, Keeps
  <2> QED
    BY <2>2, <2>3
<1> QED
  BY <1>2 DEF SlotsFit

LEMMA ReceiptsGrow ==
    ASSUME ServerTypes, ServerTypes', Grown, ReceiptsFit, receipts' = receipts
    PROVE  ReceiptsFit'
<1>1. ASSUME NEW a \in Actions
      PROVE  /\ ResultFits(a, receipts[a].ref, receipts[a])'
             /\ (receipts[a] # NoResult => receipts[a].status = "processed")'
  <2> PICK result : result = receipts[a]
    OBVIOUS
  <2>1. ResultFits(a, result.ref, result) /\ (result # NoResult => result.status = "processed")
    BY DEF ReceiptsFit
  <2>2. result.ref \in Orders
    BY <2>1 DEF ResultFits
  <2>3. ResultFits(a, result.ref, result)'
    BY <2>1, <2>2, ResultGrows
  <2> QED
    BY <2>1, <2>3
<1> QED
  BY <1>1 DEF ReceiptsFit

---------------------------------------------------------------------------
(* What the device knows of an order it was told.                          *)

\* The empty row, the empty table and an idle device say nothing.
LEMMA NothingFits ==
    ASSUME ServerTypes
    PROVE  /\ 0 \in Orders /\ \A a \in Actions : RowFits(a, NoRow)
           /\ TableFits(Empty) /\ ScreenFits(IdleUser) /\ ReplayFits(IdleReplay)
           /\ ReplayFits([IdleReplay EXCEPT !.pc = "next"])
<1>1. 0 \in Orders
  BY DEF ServerTypes, Orders
<1>2. \A a \in Actions : RowFits(a, NoRow)
  BY <1>1 DEF RowFits, NoRow
<1>3. TableFits(Empty)
  BY <1>2, RowsAre DEF TableFits
<1>4. ScreenFits(IdleUser)
  BY <1>2, <1>3, RowsAre DEF ScreenFits, IdleUser
<1>5. ASSUME NEW r, r.batch = Empty, r.snap = Empty, r.todo = <<>>
      PROVE  ReplayFits(r)
  BY <1>3, <1>5 DEF ReplayFits
<1>6. /\ IdleReplay.batch = Empty /\ IdleReplay.snap = Empty /\ IdleReplay.todo = <<>>
      /\ [IdleReplay EXCEPT !.pc = "next"].batch = Empty
      /\ [IdleReplay EXCEPT !.pc = "next"].snap = Empty
      /\ [IdleReplay EXCEPT !.pc = "next"].todo = <<>>
  BY DEF IdleReplay
<1> QED
  BY <1>1, <1>2, <1>3, <1>4, <1>5, <1>6

\* A row in a table of rows that fit.
LEMMA TableFitsEdit ==
    ASSUME NEW t \in Tables, TableFits(t), NEW a \in Actions, NEW row \in Row \cup {NoRow},
           RowFits(a, row)
    PROVE  TableFits([t EXCEPT ![a] = row])
<1> PICK w : w = [t EXCEPT ![a] = row]
  OBVIOUS
<1>1. \A b \in Actions : w[b] = IF b = a THEN row ELSE t[b]
  BY TableEdit
<1>2. TableFits(w)
  BY <1>1 DEF TableFits
<1> QED
  BY <1>2

\* Only a row that is said to be synchronised says that it is applied.
LEMMA RowFitsStatus ==
    ASSUME NEW a \in Actions, NEW row \in Row, RowFits(a, row)
    PROVE  /\ \A status \in {"pending", "syncing", "failed", "conflict", "yielded"} :
                  RowFits(a, [row EXCEPT !.status = status])
           /\ RowFits(a, Failed(row))
           /\ Applied(a, row.id) => RowFits(a, [row EXCEPT !.status = "synced"])
           /\ row.id \in Orders
<1>1. ASSUME NEW status \in {"pending", "syncing", "failed", "conflict", "yielded", "synced"}
      PROVE  /\ [row EXCEPT !.status = status].id = row.id
             /\ [row EXCEPT !.status = status].status = status
  BY DEF Row
<1>2. Failed(row).id = row.id /\ Failed(row).status = "failed"
  BY DEF Row, Failed
<1> QED
  BY <1>1, <1>2 DEF RowFits

LEMMA ScreenSays ==
    ASSUME IInv, FitInv,
           Record \/ SaveUser \/ Refresh
             \/ \E a \in Actions, status \in {"pending", "yielded"} : Resolve(a, status)
    PROVE  DeviceSays(known', stored', table', user', replay')
<1>1. /\ known \in Orders /\ stored \in Orders /\ TableFits(table) /\ ScreenFits(user)
      /\ ReplayFits(replay) /\ ServerTypes /\ DeviceTypes
  BY DEF IInv, FitInv, DeviceFits, DeviceSays
<1>2. /\ table \in Tables /\ user \in UserRow /\ 0 \in Orders
  BY <1>1, NothingFits DEF DeviceTypes
<1>3. ASSUME NEW a \in Actions, NEW row, RowFits(a, row),
             user' = [pc |-> "save", act |-> a, snap |-> table, row |-> row]
      PROVE  ScreenFits(user')
  BY <1>1, <1>3 DEF ScreenFits
<1>4. CASE Record
  <2> PICK row : row = [status |-> "pending", tries |-> 0, id |-> IF made = 0 THEN 0 ELSE known]
    OBVIOUS
  <2>1. RowFits(made, row)
    BY <1>1, <1>2 DEF RowFits
  <2>2. made \in Actions
    BY <1>1, <1>4, ActionsAre DEF Record, DeviceTypes, Actions
  <2>3. user' = [pc |-> "save", act |-> made, snap |-> table, row |-> row]
    BY <1>4 DEF Record
  <2>4. ScreenFits(user')
    BY <1>3, <2>1, <2>2, <2>3
  <2> QED
    BY <1>1, <1>4, <2>4 DEF Record, DeviceSays
<1>5. CASE SaveUser
  <2>1. /\ user.snap \in Tables /\ user.act \in Actions /\ user.row \in Row \cup {NoRow}
        /\ TableFits(user.snap) /\ RowFits(user.act, user.row)
    BY <1>1, <1>2 DEF UserRow, ScreenFits
  <2>2. TableFits(table')
    BY <1>5, <2>1, TableFitsEdit DEF SaveUser
  <2> QED
    BY <1>1, <1>5, <2>2, NothingFits DEF SaveUser, DeviceSays
<1>6. CASE Refresh
  BY <1>1, <1>6 DEF Refresh, DeviceSays
<1>7. ASSUME NEW a \in Actions, NEW status \in {"pending", "yielded"}, Resolve(a, status)
      PROVE  DeviceSays(known', stored', table', user', replay')
  <2> PICK row : row = [table[a] EXCEPT !.status = status]
    OBVIOUS
  <2>1. table[a] \in Row /\ RowFits(a, table[a])
    BY <1>1, <1>2, <1>7 DEF Resolve, Tables, NoRow, TableFits
  <2>2. RowFits(a, row)
    BY <2>1, RowFitsStatus
  <2>3. user' = [pc |-> "save", act |-> a, snap |-> table, row |-> row]
    BY <1>7 DEF Resolve
  <2>4. ScreenFits(user')
    BY <1>3, <2>2, <2>3
  <2> QED
    BY <1>1, <1>7, <2>4 DEF Resolve, DeviceSays
<1> QED
  BY <1>4, <1>5, <1>6, <1>7

LEMMA TasksFit ==
    ASSUME ServerTypes
    PROVE  /\ \A a \in Actions, row \in Row \cup {NoRow} :
                  RowFits(a, row) => Write(a, row) \in FitTasks
           /\ \A id \in Id : id \in Orders => MapTo(id) \in FitTasks /\ Entity(id) \in FitTasks
           /\ FitTasks \subseteq Task
<1>1. 0 \in Orders /\ RowFits(0, NoRow)
  BY NothingFits, RowsAre
<1>2. ASSUME NEW a \in Actions, NEW row \in Row \cup {NoRow}, RowFits(a, row)
      PROVE  Write(a, row) \in FitTasks
  <2>1. Write(a, row) \in Task
    BY TasksAre
  <2>2. Write(a, row).act = a /\ Write(a, row).row = row /\ Write(a, row).id = 0
    BY DEF Write
  <2> QED
    BY <1>1, <1>2, <2>1, <2>2 DEF FitTasks
<1>3. ASSUME NEW id \in Id, id \in Orders
      PROVE  MapTo(id) \in FitTasks /\ Entity(id) \in FitTasks
  <2>1. MapTo(id) \in Task /\ Entity(id) \in Task
    BY TasksAre
  <2>2. /\ MapTo(id).act = 0 /\ MapTo(id).row = NoRow /\ MapTo(id).id = id
        /\ Entity(id).act = 0 /\ Entity(id).row = NoRow /\ Entity(id).id = id
    BY DEF MapTo, Entity
  <2> QED
    BY <1>1, <1>3, <2>1, <2>2 DEF FitTasks
<1> QED
  BY <1>2, <1>3 DEF FitTasks

LEMMA PassFits ==
    ASSUME IInv, FitInv, NEW phase \in {"create", "update"}
    PROVE  ReplayFits(Pass(phase))
<1>1. ServerTypes /\ DeviceTypes /\ TableFits(table) /\ table \in Tables
  BY DEF IInv, FitInv, DeviceFits, DeviceSays, DeviceTypes
<1>2. ASSUME NEW a \in Eligible(phase)
      PROVE  Write(a, [table[a] EXCEPT !.status = "syncing"]) \in FitTasks
  <2>1. a \in Actions /\ table[a] \in Row /\ RowFits(a, table[a])
    BY <1>1 DEF Eligible, Tables, NoRow, TableFits
  <2> PICK row : row = [table[a] EXCEPT !.status = "syncing"]
    OBVIOUS
  <2>2. row \in Row /\ RowFits(a, row)
    BY <2>1, RowEdits, RowFitsStatus
  <2> QED
    BY <1>1, <2>1, <2>2, TasksFit
<1>3. LET next == Pass(phase)
      IN  /\ next \in [pc : {"idle", "next", "mark"}, phase : {"create", "update"},
                       todo : Seq(FitTasks), batch : Tables, snap : {Empty}]
          /\ MayTry(next.batch)
          /\ \A a \in Actions : \/ next.batch[a] = NoRow
                                \/ next.batch[a] = [table[a] EXCEPT !.status = "syncing"]
  BY <1>1, <1>2, PassIs
<1> PICK next : next = Pass(phase)
  OBVIOUS
<1>4. next.todo \in Seq(FitTasks) /\ next.batch \in Tables /\ next.snap = Empty
  BY <1>3
<1>5. ASSUME NEW a \in Actions PROVE RowFits(a, next.batch[a])
  <2>1. CASE next.batch[a] = NoRow
    BY <1>1, <2>1, NothingFits
  <2>2. CASE next.batch[a] # NoRow /\ table[a] \in Row
    <3>1. next.batch[a] = [table[a] EXCEPT !.status = "syncing"] /\ RowFits(a, table[a])
      BY <1>1, <1>3, <2>2 DEF TableFits
    <3> QED
      BY ZenonT(60), <2>2, <3>1, RowFitsStatus
  <2>3. CASE next.batch[a] # NoRow /\ table[a] = NoRow
    <3>1. next.batch[a] = [NoRow EXCEPT !.status = "syncing"]
      BY <1>3, <2>3
    <3>2. RowFits(a, [NoRow EXCEPT !.status = "syncing"])
      BY <1>1, NothingFits DEF RowFits, NoRow
    <3> QED
      BY <3>1, <3>2
  <2> QED
    BY <1>1, <2>1, <2>2, <2>3 DEF Tables
<1>6. TableFits(next.batch)
  BY <1>5 DEF TableFits
<1> QED
  BY <1>1, <1>4, <1>6, NothingFits DEF ReplayFits

\* The rows that wait for a creation know no order yet.
LEMMA MapFits ==
    ASSUME IInv, FitInv, MapDependents
    PROVE  ReplayFits(replay')
<1>1. /\ ServerTypes /\ TableFits(table) /\ table \in Tables /\ replay \in ReplayRow
      /\ replay.todo \in Seq(FitTasks) /\ ReplayFits(replay)
  BY DEF IInv, FitInv, DeviceFits, DeviceSays, DeviceTypes, ReplayFits
<1> DEFINE set == {a \in Actions \ {0} : table[a] # NoRow /\ table[a].id = 0}
           order == InOrder(set)
           id == Head(replay.todo).id
           rows == [a \in set |-> [table[a] EXCEPT !.id = id]]
           writes == [i \in DOMAIN order |->
                         Write(order[i], [table[order[i]] EXCEPT !.id = id])]
<1>2. Working /\ replay' = [replay EXCEPT !.todo = writes \o Tail(replay.todo)]
  BY DEF MapDependents
<1>3. id \in Id /\ id \in Orders /\ Tail(replay.todo) \in Seq(FitTasks)
  <2>1. replay.todo # <<>>
    BY <1>2 DEF Working
  <2>2. Head(replay.todo) \in FitTasks /\ Tail(replay.todo) \in Seq(FitTasks)
    BY <1>1, <2>1, FirstOf
  <2> QED
    BY <2>2, TasksAre DEF FitTasks
<1>4. set \in SUBSET Actions
  OBVIOUS
<1>5. ASSUME NEW a \in set PROVE Write(a, [table[a] EXCEPT !.id = id]) \in FitTasks
  <2>1. a \in Actions /\ a # 0 /\ table[a] \in Row /\ table[a].id = 0 /\ RowFits(a, table[a])
    BY <1>1 DEF Tables, TableFits
  <2> PICK row : row = [table[a] EXCEPT !.id = id]
    OBVIOUS
  <2> HIDE DEF id
  <2>2. row \in Row
    BY <1>3, <2>1, RowEdits
  <2>3. row.id = id /\ row.status = table[a].status
    BY <2>1 DEF Row
  <2>4. RowFits(a, row)
    BY <1>3, <2>1, <2>3 DEF RowFits, Applied
  <2> QED
    BY <1>1, <2>1, <2>2, <2>4, TasksFit
<1> HIDE DEF set, id
<1>6. \A a \in set : Write(a, rows[a]) \in FitTasks
  BY <1>5
<1>7. order \in [1 .. Len(order) -> set] /\ DOMAIN order = 1 .. Len(order)
  BY <1>4, InOrderIs
<1>8. writes = Writes(order, rows)
  <2>1. \A i \in DOMAIN order : rows[order[i]] = [table[order[i]] EXCEPT !.id = id]
    BY <1>7
  <2> HIDE DEF rows, order
  <2> QED
    BY <2>1 DEF Writes
<1> HIDE DEF rows, writes
<1>9. writes \in Seq(FitTasks)
  BY <1>4, <1>6, <1>8, WritesAre
<1>10. writes \o Tail(replay.todo) \in Seq(FitTasks)
  BY <1>3, <1>9, ConcatProperties
<1> QED
  BY <1>1, <1>2, <1>10 DEF ReplayFits, ReplayRow

LEMMA ReplaySays ==
    ASSUME IInv, FitInv,
           StartReplay \/ NextPass \/ Load \/ Save \/ MapDependents \/ UpdateEntity \/ EndPass
    PROVE  DeviceSays(known', stored', table', user', replay')
<1>1. /\ known \in Orders /\ stored \in Orders /\ TableFits(table) /\ ScreenFits(user)
      /\ ReplayFits(replay) /\ ServerTypes
  BY DEF IInv, FitInv, DeviceFits, DeviceSays
<1>2. /\ replay \in ReplayRow /\ replay.todo \in Seq(FitTasks) /\ TableFits(replay.batch)
      /\ TableFits(replay.snap) /\ replay.snap \in Tables
  BY <1>1 DEF IInv, DeviceTypes, ReplayFits, ReplayRow
<1>3. Working => Head(replay.todo) \in FitTasks /\ Tail(replay.todo) \in Seq(FitTasks)
  BY <1>2, FirstOf DEF Working
<1>4. /\ ReplayFits(IdleReplay) /\ ReplayFits([IdleReplay EXCEPT !.pc = "next"])
      /\ TableFits(Empty)
  BY <1>1, NothingFits
<1>5. CASE StartReplay \/ NextPass \/ EndPass
  <2>1. ReplayFits(replay')
    BY <1>4, <1>5, PassFits DEF StartReplay, NextPass, EndPass
  <2> QED
    BY <1>1, <1>5, <2>1 DEF StartReplay, NextPass, EndPass, DeviceSays
<1>6. CASE Load
  <2>1. replay' = [replay EXCEPT !.snap = table]
    BY <1>6 DEF Load
  <2>2. replay'.batch = replay.batch /\ replay'.todo = replay.todo /\ replay'.snap = table
    BY <1>2, <2>1 DEF ReplayRow
  <2>3. ReplayFits(replay')
    BY <1>1, <1>2, <2>2 DEF ReplayFits
  <2> QED
    BY <1>1, <1>6, <2>3 DEF Load, DeviceSays
<1>7. CASE Save
  <2> PICK task, todo : task = Head(replay.todo) /\ todo = Tail(replay.todo)
    OBVIOUS
  <2>1. /\ replay' = [replay EXCEPT !.todo = todo, !.snap = Empty] /\ Working
        /\ table' = [replay.snap EXCEPT ![task.act] = IF replay.snap[task.act] = NoRow
                                                      THEN NoRow ELSE task.row]
    BY <1>7 DEF Save
  <2>2. replay'.batch = replay.batch /\ replay'.todo = todo /\ replay'.snap = Empty
    BY <1>2, <2>1 DEF ReplayRow
  <2>3. todo \in Seq(FitTasks) /\ task \in FitTasks
    BY <1>3, <2>1
  <2>4. ReplayFits(replay')
    BY <1>2, <1>4, <2>2, <2>3 DEF ReplayFits
  <2>5. task.act \in Actions /\ task.row \in Row \cup {NoRow} /\ RowFits(task.act, task.row)
    BY <2>3, TasksAre DEF FitTasks
  <2> PICK row : row = IF replay.snap[task.act] = NoRow THEN NoRow ELSE task.row
    OBVIOUS
  <2>6. row \in Row \cup {NoRow} /\ RowFits(task.act, row)
    BY <1>1, <2>5, NothingFits
  <2>7. TableFits([replay.snap EXCEPT ![task.act] = row])
    BY <1>2, <2>5, <2>6, TableFitsEdit
  <2>8. TableFits(table')
    BY <2>1, <2>7
  <2> QED
    BY <1>1, <1>7, <2>4, <2>8 DEF Save, DeviceSays
<1>8. CASE MapDependents
  <2>1. ReplayFits(replay')
    BY <1>8, MapFits
  <2> QED
    BY <1>1, <1>8, <2>1 DEF MapDependents, DeviceSays
<1>9. CASE UpdateEntity
  <2> PICK todo : todo = Tail(replay.todo)
    OBVIOUS
  <2>1. stored' \in Orders /\ todo \in Seq(FitTasks)
    BY <1>3, <1>9 DEF UpdateEntity, FitTasks
  <2>2. replay' = [replay EXCEPT !.todo = todo]
    BY <1>9 DEF UpdateEntity
  <2>3. replay'.batch = replay.batch /\ replay'.todo = todo /\ replay'.snap = replay.snap
    BY <1>2, <2>2 DEF ReplayRow
  <2>4. ReplayFits(replay')
    BY <1>2, <2>1, <2>3 DEF ReplayFits
  <2> QED
    BY <1>1, <1>9, <2>1, <2>4 DEF UpdateEntity, DeviceSays
<1> QED
  BY <1>5, <1>6, <1>7, <1>8, <1>9

---------------------------------------------------------------------------
(* What a request brings back.                                             *)

LEMMA BrokenFits ==
    ASSUME IInv, FitInv
    PROVE  ReplayFits(Broken)
<1>1. /\ ServerTypes /\ DeviceTypes /\ BatchFits /\ replay \in ReplayRow
      /\ TableFits(replay.batch) /\ TableFits(replay.snap)
  BY DEF IInv, FitInv, DeviceFits, DeviceSays, ReplayFits, DeviceTypes
<1>2. ASSUME NEW a \in Batch PROVE Write(a, Failed(replay.batch[a])) \in FitTasks
  <2>1. a \in Actions /\ replay.batch[a] \in Row /\ Failed(replay.batch[a]) \in Row
    BY <1>1, BatchIs
  <2>2. RowFits(a, Failed(replay.batch[a]))
    BY <1>1, <2>1, RowFitsStatus DEF TableFits
  <2> QED
    BY <1>1, <2>1, <2>2, TasksFit
<1> PICK todo : todo = Broken.todo
  OBVIOUS
<1>3. Broken = [replay EXCEPT !.pc = "settle", !.todo = todo] /\ todo \in Seq(FitTasks)
  BY <1>1, <1>2, BrokenIs
<1>4. Broken.batch = replay.batch /\ Broken.snap = replay.snap /\ Broken.todo = todo
  BY <1>1, <1>3 DEF ReplayRow
<1> QED
  BY <1>1, <1>3, <1>4 DEF ReplayFits

\* The reply of the request that is waited for is about the rows of the batch.
LEMMA ReplyFits ==
    ASSUME IInv, FitInv, NEW s \in Slots, server[s].live
    PROVE  AllTasks(server[s].got) \in Seq(FitTasks)
<1>1. /\ ServerTypes /\ DeviceTypes /\ BatchFits /\ TableFits(replay.batch)
      /\ SlotFits(server[s]) /\ server[s] \in SlotRow
  BY DEF IInv, FitInv, DeviceFits, DeviceSays, ReplayFits, SlotsFit, ServerTypes
<1> PICK got : got = server[s].got
  OBVIOUS
<1>2. ASSUME NEW a \in Batch PROVE Tasks(a, got[a]) \in Seq(FitTasks)
  <2> PICK row, result : row = replay.batch[a] /\ result = got[a]
    OBVIOUS
  <2>1. /\ a \in Actions /\ row \in Row /\ Settled(row, result) \in Row /\ RowFits(a, row)
    BY <1>1, BatchIs, SettledIs DEF TableFits
  <2>2. ResultFits(a, row.id, result)
    BY <1>1, <2>1 DEF SlotFits, FitInv, Matches
  <2>3. result.ref \in Id
    BY <1>1, <2>1, ResultsAre DEF SlotRow
  <2>4. RowFits(a, Settled(row, result))
    <3>1. CASE result.status = "processed"
      BY <2>1, <2>2, <3>1, RowFitsStatus DEF Settled, ResultFits
    <3>2. CASE result.status = "conflict"
      BY <2>1, <3>2, RowFitsStatus DEF Settled
    <3>3. CASE result.status \notin {"processed", "conflict"}
      BY <2>1, <3>3, RowFitsStatus DEF Settled
    <3> QED
      BY <3>1, <3>2, <3>3
  <2>5. Write(a, Settled(row, result)) \in FitTasks
    BY <1>1, <2>1, <2>4, TasksFit
  <2>6. MapTo(result.ref) \in FitTasks /\ Entity(result.ref) \in FitTasks
    BY <1>1, <2>2, <2>3, TasksFit DEF ResultFits
  <2> QED
    BY <2>5, <2>6, TasksOfResult
<1> QED
  BY <1>2, AllTasksAre

LEMMA RequestSays ==
    ASSUME IInv, FitInv,
           \/ \E s \in Slots : Send(s) \/ Receive(s) \/ Lose(s) \/ GiveUp(s)
           \/ Restart \/ Crash
    PROVE  DeviceSays(known', stored', table', user', replay')
<1>1. /\ known \in Orders /\ stored \in Orders /\ TableFits(table) /\ ScreenFits(user)
      /\ ReplayFits(replay) /\ ServerTypes
  BY DEF IInv, FitInv, DeviceFits, DeviceSays
<1>2. /\ replay \in ReplayRow /\ replay.todo \in Seq(FitTasks) /\ TableFits(replay.batch)
      /\ TableFits(replay.snap)
  BY <1>1 DEF IInv, DeviceTypes, ReplayFits
<1>3. ASSUME NEW s \in Slots, Send(s) PROVE DeviceSays(known', stored', table', user', replay')
  <2>1. replay' = [replay EXCEPT !.pc = "wait"]
    BY <1>3 DEF Send
  <2>2. /\ replay'.batch = replay.batch /\ replay'.snap = replay.snap
        /\ replay'.todo = replay.todo
    BY <1>2, <2>1 DEF ReplayRow
  <2>3. ReplayFits(replay')
    BY <1>2, <2>2 DEF ReplayFits
  <2> QED
    BY <1>1, <1>3, <2>3 DEF Send, DeviceSays
<1>4. ASSUME NEW s \in Slots, Receive(s)
      PROVE  DeviceSays(known', stored', table', user', replay')
  <2> PICK todo : todo = AllTasks(server[s].got)
    OBVIOUS
  <2>1. todo \in Seq(FitTasks)
    BY <1>4, ReplyFits DEF Receive
  <2>2. replay' = [replay EXCEPT !.pc = "settle", !.todo = todo]
    BY <1>4 DEF Receive
  <2>3. replay'.batch = replay.batch /\ replay'.snap = replay.snap /\ replay'.todo = todo
    BY <1>2, <2>2 DEF ReplayRow
  <2>4. ReplayFits(replay')
    BY <1>2, <2>1, <2>3 DEF ReplayFits
  <2> QED
    BY <1>1, <1>4, <2>4 DEF Receive, DeviceSays
<1>5. ReplayFits(Broken)
  BY BrokenFits
<1>6. ASSUME NEW s \in Slots, Lose(s) \/ GiveUp(s)
      PROVE  DeviceSays(known', stored', table', user', replay')
  BY <1>1, <1>5, <1>6 DEF Lose, GiveUp, DeviceSays
<1>7. CASE Restart
  <2>1. ReplayFits(replay')
    BY <1>1, <1>5, <1>7 DEF Restart
  <2> QED
    BY <1>1, <1>7, <2>1 DEF Restart, DeviceSays
<1>8. CASE Crash
  <2>1. ReplayFits(IdleReplay) /\ ScreenFits(IdleUser)
    BY <1>1, NothingFits
  <2> QED
    BY <1>1, <1>8, <2>1 DEF Crash, DeviceSays
<1> QED
  BY <1>3, <1>4, <1>6, <1>7, <1>8

---------------------------------------------------------------------------
(* What a request is told, and what it tells.                              *)

LEMMA FreeFits ==
    ASSUME ServerTypes
    PROVE  SlotFits(FreeSlot) /\ WriteFits(FreeSlot) /\ ~FreeSlot.live
<1>1. 0 \in Orders
  BY NothingFits
<1>2. ASSUME NEW a \in Actions
      PROVE  FreeSlot.ids[a] = 0 /\ FreeSlot.got[a] = NoResult
  BY DEF FreeSlot
<1>3. ASSUME NEW a \in Actions
      PROVE  FreeSlot.ids[a] \in Orders /\ ResultFits(a, FreeSlot.ids[a], FreeSlot.got[a])
  BY <1>1, <1>2 DEF ResultFits, NoResult
<1>4. FreeSlot.pc = "free" /\ ~FreeSlot.live
  BY DEF FreeSlot
<1> QED
  BY <1>3, <1>4 DEF SlotFits, WriteFits

\* A request that is only asked, or that goes on with what it was told.
LEMMA SameFits ==
    ASSUME NEW slot, SlotFits(slot), NEW w, w.ids = slot.ids, w.got = slot.got,
           w.todo = slot.todo, w.seen = slot.seen
    PROVE  /\ w.pc # "record" \/ w.pc = slot.pc => SlotFits(w)
           /\ w.pc = slot.pc /\ WriteFits(slot) => WriteFits(w)
           /\ w.pc # "write" => WriteFits(w)
BY DEF SlotFits, WriteFits

LEMMA SentFits ==
    ASSUME IInv, FitInv, NEW s \in Slots, Send(s)
    PROVE  \E w : /\ Moves(s, w) /\ SlotFits(w) /\ WriteFits(w) /\ w.live = TRUE
                  /\ \A a \in Actions : w.ids[a] = replay.batch[a].id
<1>1. /\ ServerTypes /\ DeviceTypes /\ BatchFits /\ SendsSome /\ replay.pc = "mark"
      /\ TableFits(replay.batch)
  BY DEF IInv, FitInv, DeviceFits, DeviceSays, ReplayFits, Send
<1> PICK w : w = [FreeSlot EXCEPT !.pc = "sent", !.todo = InOrder(Batch), !.live = TRUE,
                                  !.ids = [a \in Actions |-> replay.batch[a].id]]
  OBVIOUS
<1>2. /\ w.pc = "sent" /\ w.live = TRUE /\ w.got = [a \in Actions |-> NoResult]
      /\ w.ids = [a \in Actions |-> replay.batch[a].id]
  BY <1>1, SentIs
<1>3. Moves(s, w)
  BY DEF Send, Moves
<1>4. 0 \in Orders
  BY <1>1, NothingFits
<1>5. ASSUME NEW a \in Actions
      PROVE  w.ids[a] = replay.batch[a].id /\ w.ids[a] \in Orders
             /\ ResultFits(a, w.ids[a], w.got[a])
  <2>1. w.ids[a] = replay.batch[a].id /\ w.got[a] = NoResult /\ replay.batch[a].id \in Orders
    BY <1>1, <1>2 DEF TableFits, RowFits
  <2> QED
    BY <1>4, <2>1 DEF ResultFits, NoResult
<1>6. SlotFits(w) /\ WriteFits(w)
  BY <1>2, <1>5 DEF SlotFits, WriteFits
<1>7. /\ Moves(s, w) /\ SlotFits(w) /\ WriteFits(w) /\ w.live = TRUE
      /\ \A a \in Actions : w.ids[a] = replay.batch[a].id
  BY <1>2, <1>3, <1>5, <1>6
<1> QED
  BY <1>7

\* What a request is after an answer that fits.
LEMMA AnswerFits ==
    ASSUME IInv, FitInv, NEW s \in Slots, AtWork(server[s]),
           NEW result \in Result \cup {NoResult}, Answer(s, result),
           ResultFits(Current(s), server[s].ids[Current(s)], result)
    PROVE  \E w : /\ Moves(s, w) /\ SlotFits(w) /\ WriteFits(w)
                  /\ w.live => server[s].live /\ w.ids = server[s].ids
<1>1. ServerTypes /\ ShapesFit /\ ShapeFits(server[s]) /\ SlotFits(server[s])
  BY DEF IInv, ShapesFit, FitInv, SlotsFit
<1>2. Current(s) \in Actions /\ server[s] \in SlotRow
  BY <1>1, AtHand
<1>3. PICK w \in SlotRow :
          /\ Moves(s, w) /\ ShapeFits(w)
          /\ \/ w = FreeSlot /\ ~server[s].live
             \/ /\ w.live = server[s].live /\ w.ids = server[s].ids
                /\ w.got = [server[s].got EXCEPT ![Current(s)] = result]
                /\ w.pc = "reply" \/ (w.pc = "check" /\ Head(w.todo) # 0)
                /\ w.pc = "check" => w.todo = Tail(server[s].todo)
  BY <1>1, AnswerIs
<1>4. CASE w = FreeSlot
  BY <1>1, <1>3, <1>4, FreeFits
<1>5. CASE w # FreeSlot
  <2> PICK c, got : c = Current(s) /\ got = server[s].got
    OBVIOUS
  <2>1. got \in [Actions -> Result \cup {NoResult}] /\ w.got = [got EXCEPT ![c] = result]
    BY <1>2, <1>3, <1>5 DEF SlotRow
  <2>2. \A a \in Actions : w.got[a] = IF a = c THEN result ELSE got[a]
    BY <2>1
  <2>3. w.ids = server[s].ids /\ w.live = server[s].live /\ w.pc \in {"reply", "check"}
    BY <1>3, <1>5
  <2>4. ASSUME NEW a \in Actions
        PROVE  w.ids[a] \in Orders /\ ResultFits(a, w.ids[a], w.got[a])
    BY <1>1, <2>2, <2>3 DEF SlotFits
  <2>5. SlotFits(w) /\ WriteFits(w)
    BY <2>3, <2>4 DEF SlotFits, WriteFits
  <2> QED
    BY <1>3, <2>3, <2>5
<1> QED
  BY <1>4, <1>5

---------------------------------------------------------------------------
(* The second invariant holds in every step.                               *)

\* One request takes a step, and no order moves.
LEMMA MoveFits ==
    ASSUME IInv, IInv', FitInv, Keeps, NEW s \in Slots, NEW w, Moves(s, w), SlotFits(w),
           WriteFits(w)
    PROVE  SlotsFit'
<1>1. ServerTypes /\ ServerTypes' /\ ShapesFit' /\ SlotsFit
  BY DEF IInv, FitInv
<1>2. \A q \in Slots : server'[q] = IF q = s THEN w ELSE server[q]
  BY <1>1 DEF ServerTypes, Moves
<1>3. \A q \in Slots : SlotFits(server'[q]) /\ WriteFits(server'[q])
  BY <1>1, <1>2 DEF SlotsFit
<1> QED
  BY <1>1, <1>3, SlotsKeep

LEMMA MatchStays ==
    ASSUME ServerTypes, Matches, replay' = replay, NEW s \in Slots, NEW w, Moves(s, w),
           w.live => server[s].live /\ w.ids = server[s].ids
    PROVE  Matches'
<1>1. \A q \in Slots : server'[q] = IF q = s THEN w ELSE server[q]
  BY DEF ServerTypes, Moves
<1> QED
  BY <1>1 DEF Matches

\* The device alone.
LEMMA DeviceKeepsFit ==
    ASSUME IInv, IInv', FitInv, UNCHANGED <<serverVars, count>>,
           replay' = replay \/ replay.pc # "wait",
           DeviceSays(known', stored', table', user', replay')
    PROVE  FitInv'
<1>1. /\ ServerTypes /\ ServerTypes' /\ ShapesFit' /\ DeviceTypes' /\ OneLive
      /\ SlotsFit /\ Matches /\ ReceiptsFit
  BY DEF IInv, FitInv
<1>2. server' = server /\ receipts' = receipts /\ progress' = progress /\ count' = count
  BY DEF serverVars
<1>3. Keeps
  BY <1>1, <1>2 DEF Keeps, ServerTypes
<1>4. Grown
  BY <1>1, <1>3, KeepsGrows
<1>5. DeviceFits'
  BY <1>1, <1>4, DeviceGrows
<1>6. SlotsFit'
  BY <1>1, <1>2, <1>3, SlotsKeep DEF SlotsFit
<1>7. Matches'
  BY <1>1, <1>2 DEF Matches, OneLive
<1>8. ReceiptsFit'
  BY <1>1, <1>2, <1>4, ReceiptsGrow
<1> QED
  BY <1>5, <1>6, <1>7, <1>8 DEF FitInv

LEMMA RequestKeepsFit ==
    ASSUME IInv, IInv', FitInv,
           \/ \E s \in Slots : Send(s) \/ Receive(s) \/ Lose(s) \/ GiveUp(s)
           \/ Restart \/ Crash
    PROVE  FitInv'
<1>1. /\ ServerTypes /\ ServerTypes' /\ ShapesFit' /\ DeviceTypes' /\ OneLive
      /\ SlotsFit /\ Matches /\ ReceiptsFit /\ replay \in ReplayRow
  BY DEF IInv, FitInv, DeviceTypes
<1>2. progress' = progress
  BY DEF Send, Receive, Lose, GiveUp, Restart, Crash
<1>3. count'.late >= count.late
  <2>1. count \in [late : Nat, restart : Nat, other : Nat] /\ count.late \in Nat
    BY <1>1 DEF ServerTypes
  <2>2. ASSUME NEW kind \in {"late", "restart", "other"}, Fault(kind)
        PROVE  count'.late >= count.late
    BY <1>1, <2>1, <2>2, FaultIs
  <2>3. CASE \E s \in Slots : Send(s) \/ Receive(s)
    <3>1. count' = count
      BY <2>3 DEF Send, Receive
    <3> QED
      BY <2>1, <3>1
  <2>4. CASE Restart \/ \E s \in Slots : Lose(s) \/ GiveUp(s)
    BY <2>2, <2>4 DEF Lose, GiveUp, Restart
  <2>5. CASE Crash
    <3> PICK busy, k : /\ busy = {s \in Slots : server[s].live /\ server[s].pc # "reply"}
                       /\ k = Cardinality(busy)
      OBVIOUS
    <3>1. k \in Nat
      BY PartsOfSlots
    <3>2. count' = [count EXCEPT !.other = count.other + 1, !.late = count.late + k]
      BY <2>5 DEF Crash
    <3>3. count'.late = count.late + k
      BY <2>1, <3>2
    <3> QED
      BY <2>1, <3>1, <3>3
  <2> QED
    BY <2>3, <2>4, <2>5
<1>4. Keeps /\ Grown
  BY <1>1, <1>2, <1>3, KeepsGrows DEF Keeps
<1>5. DeviceFits'
  BY <1>1, <1>4, RequestSays, DeviceGrows
<1>6. ReceiptsFit'
  <2>1. CASE receipts' = receipts
    BY <1>1, <1>4, <2>1, ReceiptsGrow
  <2>2. CASE Restart
    <3>1. \A a \in Actions : receipts'[a] = NoResult /\ NoResult.ref = 0
                             /\ NoResult.status = "none"
      BY <2>2 DEF Restart, NoResult
    <3>2. 0 \in Orders'
      BY <1>1 DEF ServerTypes, Orders
    <3> QED
      BY <3>1, <3>2 DEF ReceiptsFit, ResultFits
  <2> QED
    BY <2>1, <2>2 DEF Send, Receive, Lose, GiveUp, Crash
<1>7. ASSUME NEW s \in Slots, Send(s) PROVE SlotsFit' /\ Matches'
  <2>1. PICK w : /\ Moves(s, w) /\ SlotFits(w) /\ WriteFits(w) /\ w.live = TRUE
                 /\ \A a \in Actions : w.ids[a] = replay.batch[a].id
    BY <1>7, SentFits
  <2>2. \A q \in Slots : server'[q] = IF q = s THEN w ELSE server[q]
    BY <1>1, <2>1 DEF ServerTypes, Moves
  <2>3. replay'.batch = replay.batch /\ \A q \in Slots : ~server[q].live
    BY <1>1, <1>7 DEF Send, ReplayRow, OneLive
  <2>4. Matches'
    BY <2>1, <2>2, <2>3 DEF Matches
  <2> QED
    BY <1>4, <2>1, <2>4, MoveFits
<1>8. ASSUME \A q \in Slots : ~server'[q].live PROVE Matches'
  BY <1>8 DEF Matches
<1>9. ASSUME NEW s \in Slots, Receive(s) \/ Lose(s) \/ GiveUp(s) PROVE SlotsFit' /\ Matches'
  <2> PICK w : w = server'[s]
    OBVIOUS
  <2>1. server[s].live /\ server[s] \in SlotRow /\ SlotFits(server[s]) /\ WriteFits(server[s])
    BY <1>1, <1>9 DEF Receive, Lose, GiveUp, SlotsFit, ServerTypes
  <2>2. w = FreeSlot \/ w = [server[s] EXCEPT !.live = FALSE]
    BY <1>1, <1>9 DEF Receive, Lose, GiveUp, ServerTypes
  <2>3. Moves(s, w)
    BY <1>1, <1>9 DEF Receive, Lose, GiveUp, ServerTypes, Moves
  <2>4. SlotFits(w) /\ WriteFits(w) /\ ~w.live
    <3>1. CASE w = FreeSlot
      BY <1>1, <3>1, FreeFits
    <3>2. CASE w = [server[s] EXCEPT !.live = FALSE]
      <4>1. /\ w.ids = server[s].ids /\ w.got = server[s].got /\ w.todo = server[s].todo
            /\ w.seen = server[s].seen /\ w.pc = server[s].pc /\ ~w.live
        BY <2>1, <3>2 DEF SlotRow
      <4> QED
        BY <2>1, <4>1, SameFits
    <3> QED
      BY <2>2, <3>1, <3>2
  <2>5. \A q \in Slots : server'[q] = IF q = s THEN w ELSE server[q]
    BY <1>1, <2>3 DEF ServerTypes, Moves
  <2>6. \A q \in Slots : ~server'[q].live
    BY <1>1, <2>1, <2>4, <2>5 DEF OneLive
  <2> QED
    BY <1>4, <1>8, <2>3, <2>4, <2>6, MoveFits
<1>10. ASSUME Restart \/ Crash PROVE SlotsFit' /\ Matches'
  <2>1. ASSUME NEW q \in Slots
        PROVE  /\ SlotFits(server'[q]) /\ WriteFits(server'[q]) /\ ~server'[q].live
    <3> PICK w : w = server'[q]
      OBVIOUS
    <3>1. w = FreeSlot \/ w = [server[q] EXCEPT !.live = FALSE]
      BY <1>10 DEF Restart, Crash
    <3>2. CASE w = FreeSlot
      BY <1>1, <3>2, FreeFits
    <3>3. CASE w = [server[q] EXCEPT !.live = FALSE]
      <4>1. SlotFits(server[q]) /\ WriteFits(server[q]) /\ server[q] \in SlotRow
        BY <1>1 DEF SlotsFit, ServerTypes
      <4>2. /\ w.ids = server[q].ids /\ w.got = server[q].got /\ w.todo = server[q].todo
            /\ w.seen = server[q].seen /\ w.pc = server[q].pc /\ ~w.live
        BY <3>3, <4>1 DEF SlotRow
      <4> QED
        BY <4>1, <4>2, SameFits
    <3> QED
      BY <3>1, <3>2, <3>3
  <2> QED
    BY <1>1, <1>4, <1>8, <2>1, SlotsKeep
<1>11. SlotsFit' /\ Matches'
  BY <1>7, <1>9, <1>10
<1> QED
  BY <1>5, <1>6, <1>11 DEF FitInv

\* The server answers, and no order moves.
LEMMA AnswerKeepsFit ==
    ASSUME IInv, IInv', FitInv, NEW s \in Slots, AtWork(server[s]),
           NEW result \in Result \cup {NoResult}, Answer(s, result),
           ResultFits(Current(s), server[s].ids[Current(s)], result),
           UNCHANGED <<deviceVars, progress>>, count'.late = count.late
    PROVE  SlotsFit' /\ Matches' /\ DeviceFits' /\ Grown
<1>1. ServerTypes /\ ServerTypes' /\ DeviceTypes' /\ Matches /\ DeviceFits
  BY DEF IInv, FitInv
<1>2. Keeps
  BY <1>1 DEF Keeps, ServerTypes
<1>3. Grown
  BY <1>1, <1>2, KeepsGrows
<1>4. /\ known' = known /\ stored' = stored /\ table' = table /\ user' = user
      /\ replay' = replay
  BY DEF deviceVars
<1>5. DeviceSays(known', stored', table', user', replay')
  BY <1>1, <1>4 DEF DeviceFits
<1>6. DeviceFits'
  BY <1>1, <1>3, <1>5, DeviceGrows
<1>7. PICK w : /\ Moves(s, w) /\ SlotFits(w) /\ WriteFits(w)
               /\ w.live => server[s].live /\ w.ids = server[s].ids
  BY AnswerFits
<1>8. SlotsFit'
  BY <1>2, <1>7, MoveFits
<1>9. Matches'
  BY <1>1, <1>4, <1>7, MatchStays
<1> QED
  BY <1>3, <1>6, <1>8, <1>9

\* The server goes on with an action, and no order moves.
LEMMA AtKeepsFit ==
    ASSUME IInv, IInv', FitInv, NEW s \in Slots, AtWork(server[s]),
           NEW pc \in {"read", "write"}, server' = [server EXCEPT ![s].pc = pc],
           pc = "write" /\ Head(server[s].todo) # 0 =>
               progress[server[s].ids[Head(server[s].todo)]] <= Head(server[s].todo),
           UNCHANGED <<deviceVars, receipts, progress, count>>
    PROVE  FitInv'
<1>1. /\ ServerTypes /\ ServerTypes' /\ DeviceTypes' /\ Matches /\ DeviceFits /\ ReceiptsFit
      /\ SlotFits(server[s]) /\ server[s] \in SlotRow
  BY DEF IInv, FitInv, SlotsFit, ServerTypes
<1>2. Keeps
  BY <1>1 DEF Keeps, ServerTypes
<1>3. Grown
  BY <1>1, <1>2, KeepsGrows
<1>4. /\ known' = known /\ stored' = stored /\ table' = table /\ user' = user
      /\ replay' = replay
  BY DEF deviceVars
<1>5. DeviceSays(known', stored', table', user', replay')
  BY <1>1, <1>4 DEF DeviceFits
<1>6. DeviceFits'
  BY <1>1, <1>3, <1>5, DeviceGrows
<1>7. ReceiptsFit'
  BY <1>1, <1>3, ReceiptsGrow
<1> PICK slot, w : slot = server[s] /\ w = [slot EXCEPT !.pc = pc]
  OBVIOUS
<1>8. /\ w.ids = slot.ids /\ w.got = slot.got /\ w.todo = slot.todo /\ w.seen = slot.seen
      /\ w.pc = pc /\ w.live = slot.live
  BY <1>1 DEF SlotRow
<1>9. SlotFits(w)
  BY <1>1, <1>8, SameFits
<1>10. WriteFits(w)
  BY <1>8 DEF WriteFits
<1>11. Moves(s, w)
  BY <1>1 DEF Moves, ServerTypes
<1>12. SlotsFit'
  BY <1>2, <1>9, <1>10, <1>11, MoveFits
<1>13. Matches'
  BY <1>1, <1>4, <1>8, <1>11, MatchStays
<1> QED
  BY <1>6, <1>7, <1>12, <1>13 DEF FitInv

LEMMA LookKeepsFit ==
    ASSUME IInv, IInv', FitInv, NEW s \in Slots, Look(s)
    PROVE  FitInv'
<1>1. /\ ServerTypes /\ ServerTypes' /\ ShapesFit /\ ReceiptsFit
      /\ UNCHANGED <<deviceVars, receipts, progress, count>>
  BY DEF IInv, FitInv, Look
<1>2. server[s].pc \in {"sent", "check"} /\ AtWork(server[s])
  BY DEF Look, AtWork
<1> PICK a, id : a = Current(s) /\ id = server[s].ids[a]
  OBVIOUS
<1>3. a \in Actions
  BY <1>1, <1>2, AtHand
<1>4. CASE receipts[a] = NoResult
  <2>1. server' = [server EXCEPT ![s].pc = "read"]
    BY <1>4 DEF Look
  <2>2. "read" \in {"read", "write"} /\ "read" # "write"
    OBVIOUS
  <2> QED
    BY <1>1, <1>2, <2>1, <2>2, AtKeepsFit
<1>5. CASE receipts[a] # NoResult
  <2> PICK receipt, result :
          /\ receipt = receipts[a]
          /\ result = IF a = 0 \/ receipt.ref = id THEN receipt
                      ELSE [status |-> "conflict", ref |-> receipt.ref]
    OBVIOUS
  <2>1. Answer(s, result)
    BY <1>5 DEF Look
  <2>2. receipt \in Result \cup {NoResult} /\ ResultFits(a, receipt.ref, receipt)
    BY <1>1, <1>3 DEF ServerTypes, ReceiptsFit
  <2>3. result \in Result \cup {NoResult}
    BY <2>2, ResultsAre
  <2>4. ResultFits(a, id, result)
    BY <2>2 DEF ResultFits, Applied
  <2>5. SlotsFit' /\ Matches' /\ DeviceFits' /\ Grown
    BY <1>1, <1>2, <2>1, <2>3, <2>4, AnswerKeepsFit
  <2>6. ReceiptsFit'
    BY <1>1, <2>5, ReceiptsGrow
  <2> QED
    BY <2>5, <2>6 DEF FitInv
<1> QED
  BY <1>4, <1>5

LEMMA ReadKeepsFit ==
    ASSUME IInv, IInv', FitInv, NEW s \in Slots, Read(s)
    PROVE  FitInv'
<1>1. /\ ServerTypes /\ ServerTypes' /\ ShapesFit /\ ReceiptsFit /\ SlotFits(server[s])
      /\ UNCHANGED <<deviceVars, receipts, progress, count>>
  BY DEF IInv, FitInv, Read, SlotsFit
<1>2. server[s].pc = "read" /\ AtWork(server[s])
  BY DEF Read, AtWork
<1> PICK a, id : a = Current(s) /\ id = server[s].ids[a]
  OBVIOUS
<1>3. a \in Actions /\ a = Head(server[s].todo) /\ id \in Id
  BY <1>1, <1>2, AtHand
<1>4. CASE a = 0 \/ progress[id] \in {a - 1, a}
  <2>1. server' = [server EXCEPT ![s].pc = "write"] /\ "write" \in {"read", "write"}
    BY <1>4 DEF Read
  <2>2. a # 0 => progress[id] <= a
    BY <1>3, <1>4, ActionsAre
  <2>3. Head(server[s].todo) # 0 =>
            progress[server[s].ids[Head(server[s].todo)]] <= Head(server[s].todo)
    BY <1>3, <2>2
  <2> QED
    BY <1>1, <1>2, <2>1, <2>3, AtKeepsFit
<1>5. CASE ~(a = 0 \/ progress[id] \in {a - 1, a})
  <2> PICK result : result = [status |-> "conflict", ref |-> id]
    OBVIOUS
  <2>1. Answer(s, result)
    BY <1>5 DEF Read
  <2>2. result \in Result \cup {NoResult}
    BY <1>3, ResultsAre
  <2>3. ResultFits(a, id, result)
    BY <1>1, <1>3 DEF ResultFits, SlotFits
  <2>4. SlotsFit' /\ Matches' /\ DeviceFits' /\ Grown
    BY <1>1, <1>2, <2>1, <2>2, <2>3, AnswerKeepsFit
  <2>5. ReceiptsFit'
    BY <1>1, <2>4, ReceiptsGrow
  <2> QED
    BY <2>4, <2>5 DEF FitInv
<1> QED
  BY <1>4, <1>5

LEMMA RefuseKeepsFit ==
    ASSUME IInv, IInv', FitInv, NEW s \in Slots, Refuse(s)
    PROVE  FitInv'
<1>1. /\ ServerTypes /\ ServerTypes' /\ ShapesFit /\ ReceiptsFit /\ 0 \in Orders
      /\ UNCHANGED <<deviceVars, receipts, progress>> /\ Fault("other")
  BY NothingFits DEF IInv, FitInv, Refuse
<1>2. AtWork(server[s]) /\ count'.late = count.late
  BY <1>1, FaultIs DEF Refuse, AtWork
<1> PICK result : result = [status |-> "failed", ref |-> 0]
  OBVIOUS
<1>3. Answer(s, result) /\ result \in Result \cup {NoResult}
  BY ResultsAre, RowsAre DEF Refuse
<1>4. ResultFits(Current(s), server[s].ids[Current(s)], result)
  BY <1>1 DEF ResultFits
<1>5. SlotsFit' /\ Matches' /\ DeviceFits' /\ Grown
  BY <1>1, <1>2, <1>3, <1>4, AnswerKeepsFit
<1>6. ReceiptsFit'
  BY <1>1, <1>5, ReceiptsGrow
<1> QED
  BY <1>5, <1>6 DEF FitInv

\* A receipt is kept of what was applied to the order it names.
LEMMA AcceptKeepsFit ==
    ASSUME IInv, IInv', FitInv, NEW s \in Slots, Accept(s)
    PROVE  FitInv'
<1>1. /\ ServerTypes /\ ServerTypes' /\ ShapesFit /\ ReceiptsFit /\ SlotFits(server[s])
      /\ UNCHANGED <<deviceVars, progress, count>>
  BY DEF IInv, FitInv, Accept, SlotsFit
<1>2. AtWork(server[s]) /\ server[s].pc = "record"
  BY DEF Accept, AtWork
<1> PICK a, id, seen, result : /\ a = Current(s) /\ id = server[s].ids[a]
                               /\ seen = server[s].seen
                               /\ result = [status |-> "processed", ref |-> seen]
  OBVIOUS
<1>3. a \in Actions /\ a = Head(server[s].todo) /\ server[s] \in SlotRow /\ seen \in Id
  BY <1>1, <1>2, AtHand DEF SlotRow
<1>4. seen \in Orders /\ seen # 0 /\ Applied(a, seen) /\ (a # 0 => seen = id)
  BY <1>1, <1>2, <1>3 DEF SlotFits
<1>5. ResultFits(a, id, result) /\ ResultFits(a, seen, result)
  BY <1>4 DEF ResultFits, Applied
<1>6. Answer(s, result) /\ receipts' = [receipts EXCEPT ![a] = result]
  BY DEF Accept
<1>7. result \in Result \cup {NoResult}
  BY <1>3, ResultsAre
<1>8. SlotsFit' /\ Matches' /\ DeviceFits' /\ Grown
  BY <1>1, <1>2, <1>5, <1>6, <1>7, AnswerKeepsFit
<1>9. ASSUME NEW b \in Actions
      PROVE  /\ ResultFits(b, receipts[b].ref, receipts[b])'
             /\ (receipts[b] # NoResult => receipts[b].status = "processed")'
  <2> PICK kept : kept = receipts'[b]
    OBVIOUS
  <2>1. kept = IF b = a THEN result ELSE receipts[b]
    BY <1>1, <1>6 DEF ServerTypes
  <2>2. ResultFits(b, kept.ref, kept) /\ (kept # NoResult => kept.status = "processed")
    BY <1>1, <1>5, <2>1 DEF ReceiptsFit
  <2>3. kept.ref \in Orders
    BY <2>2 DEF ResultFits
  <2>4. ResultFits(b, kept.ref, kept)'
    BY <1>1, <1>8, <2>2, <2>3, ResultGrows
  <2> QED
    BY <2>2, <2>4
<1>10. ReceiptsFit'
  BY <1>9 DEF ReceiptsFit
<1> QED
  BY <1>8, <1>10 DEF FitInv

\* Orders are added, or moved on by the one request there is if none was given up.
LEMMA ApplyGrows ==
    ASSUME IInv, IInv', FitInv, NEW s \in Slots, Apply(s)
    PROVE  /\ Grown
           /\ \E a, id : /\ a = Current(s)
                         /\ id = IF a = 0 THEN Len(progress) + 1 ELSE server[s].ids[a]
                         /\ id \in Orders' \ {0} /\ Applied(a, id)'
<1>1. /\ ServerTypes /\ ServerTypes' /\ ShapesFit /\ SlotFits(server[s])
      /\ WriteFits(server[s]) /\ count' = count /\ MaxUpdates \in Nat
  BY ActionsAre DEF IInv, FitInv, Apply, SlotsFit
<1>2. server[s].pc = "write" /\ AtWork(server[s])
  BY DEF Apply, AtWork
<1> PICK a, id, n : /\ a = Current(s) /\ n = Len(progress)
                    /\ id = IF a = 0 THEN n + 1 ELSE server[s].ids[a]
  OBVIOUS
<1>3. /\ a \in Actions /\ a = Head(server[s].todo) /\ progress \in Seq(Actions) /\ n \in Nat
      /\ a # 0 => server[s].ids[a] # 0
      /\ server[s].ids[a] \in Orders
  BY <1>1, <1>2, AtHand DEF ServerTypes, SlotFits
<1>4. /\ progress' = IF a = 0 THEN Append(progress, 0) ELSE Put(progress, id, a)
      /\ Actions \subseteq Nat
  BY ActionsAre DEF Apply, Put
<1>5. \A i \in 1 .. n : progress[i] \in Nat
  <2>1. \A i \in 1 .. n : progress[i] \in Actions
    BY <1>3
  <2> QED
    BY <1>4, <2>1
<1>6. CASE a = 0
  <2>1. /\ Len(progress') = n + 1 /\ \A i \in 1 .. n : progress'[i] = progress[i]
    BY <1>3, <1>4, <1>6
  <2>2. Grown
    BY <1>1, <1>3, <1>5, <2>1 DEF Grown
  <2>3. id \in Orders' \ {0} /\ Applied(a, id)'
    BY <1>3, <1>6, <2>1 DEF Orders, Applied
  <2> QED
    BY <2>2, <2>3
<1>7. CASE a # 0
  <2>1. id \in 1 .. n
    BY <1>3, <1>7 DEF Orders
  <2>2. /\ Len(progress') = n
        /\ \A i \in 1 .. n : progress'[i] = IF i = id THEN a ELSE progress[i]
    <3>1. /\ Len(Put(progress, id, a)) = Len(progress)
          /\ \A i \in 1 .. Len(progress) :
                 Put(progress, id, a)[i] = IF i = id THEN a ELSE progress[i]
      BY <1>3, PutIs
    <3> QED
      BY <1>4, <1>7, <3>1
  <2>3. count.late = 0 => progress[id] <= a
    BY <1>2, <1>3, <1>1, <1>7 DEF WriteFits
  <2>4. a \in Nat
    BY <1>3, <1>4
  <2>5. Grown
    BY <1>1, <1>3, <1>5, <2>2, <2>3, <2>4 DEF Grown
  <2>6. id \in Orders' \ {0}
    BY <1>3, <2>1, <2>2 DEF Orders
  <2>7. progress'[id] = a /\ id # 0
    BY <2>1, <2>2
  <2>8. Applied(a, id)'
    BY <1>7, <2>4, <2>7 DEF Applied
  <2> QED
    BY <2>5, <2>6, <2>8
<1> QED
  BY <1>6, <1>7

LEMMA ApplyKeepsFit ==
    ASSUME IInv, IInv', FitInv, NEW s \in Slots, Apply(s)
    PROVE  FitInv'
<1>1. /\ ServerTypes /\ ServerTypes' /\ ShapesFit /\ ShapesFit' /\ DeviceTypes' /\ SlotsFit
      /\ Matches /\ DeviceFits /\ ReceiptsFit /\ OneLive
      /\ UNCHANGED <<deviceVars, receipts, count>>
  BY DEF IInv, FitInv, Apply
<1>2. server[s].pc = "write" /\ AtWork(server[s])
  BY DEF Apply, AtWork
<1> PICK a, id, slot, w : /\ a = Current(s) /\ slot = server[s]
                          /\ id = IF a = 0 THEN Len(progress) + 1 ELSE slot.ids[a]
                          /\ w = [slot EXCEPT !.pc = "record", !.seen = id]
  OBVIOUS
<1>3. Grown /\ id \in Orders' \ {0} /\ Applied(a, id)'
  BY ApplyGrows
<1>4. slot \in SlotRow /\ a = Head(slot.todo) /\ SlotFits(slot) /\ ShapeFits(slot)
  BY <1>1, <1>2, AtHand DEF SlotsFit
<1>5. Moves(s, w)
  BY <1>1 DEF Apply, Moves, ServerTypes
<1>6. /\ w.ids = slot.ids /\ w.got = slot.got /\ w.todo = slot.todo /\ w.seen = id
      /\ w.pc = "record" /\ w.live = slot.live
  BY <1>4 DEF SlotRow
<1>7. /\ known' = known /\ stored' = stored /\ table' = table /\ user' = user
      /\ replay' = replay
  BY <1>1 DEF deviceVars
<1>8. DeviceSays(known', stored', table', user', replay')
  BY <1>1, <1>7 DEF DeviceFits
<1>9. DeviceFits'
  BY <1>1, <1>3, <1>8, DeviceGrows
<1>10. ReceiptsFit'
  BY <1>1, <1>3, ReceiptsGrow
<1>11. Matches'
  BY <1>1, <1>5, <1>6, <1>7, MatchStays
<1>12. \A q \in Slots : server'[q] = IF q = s THEN w ELSE server[q]
  BY <1>1, <1>5 DEF ServerTypes, Moves
<1>13. SlotFits(w)'
  <2>1. SlotFits(slot)'
    BY <1>1, <1>3, <1>4, SlotGrows
  <2>2. \A b \in Actions : slot.ids[b] \in Orders' /\ ResultFits(b, slot.ids[b], slot.got[b])'
    BY <2>1 DEF SlotFits
  <2>3. a # 0 => id = slot.ids[a]
    OBVIOUS
  <2> QED
    BY <1>3, <1>4, <1>6, <2>2, <2>3 DEF SlotFits
<1>14. ASSUME NEW q \in Slots PROVE (SlotFits(server[q]) /\ WriteFits(server[q]))'
  <2> PICK v : v = server'[q]
    OBVIOUS
  <2>1. CASE q = s
    <3>1. v = w
      BY <1>12, <2>1
    <3>2. WriteFits(w)'
      BY <1>6 DEF WriteFits
    <3> QED
      BY <1>13, <3>1, <3>2
  <2>2. CASE q # s
    <3>1. v = server[q] /\ v \in SlotRow /\ SlotFits(v) /\ ShapeFits(v)
      BY <1>1, <1>12, <2>2 DEF ServerTypes, SlotsFit, ShapesFit
    <3>2. SlotFits(v)'
      BY <1>1, <1>3, <3>1, SlotGrows
    <3>3. v.pc = "write" => count'.late # 0
      BY <1>1, <1>2, <2>2, <3>1 DEF OneLive
    <3>4. WriteFits(v)'
      BY <3>3 DEF WriteFits
    <3> QED
      BY <3>2, <3>4
  <2> QED
    BY <2>1, <2>2
<1>15. SlotsFit'
  BY <1>14 DEF SlotsFit
<1> QED
  BY <1>9, <1>10, <1>11, <1>15 DEF FitInv

LEMMA FitInvIsInductive ==
    ASSUME IInv, IInv', FitInv, [Next]_vars
    PROVE  FitInv'
<1>1. CASE Record \/ SaveUser \/ Refresh
             \/ \E a \in Actions, status \in {"pending", "yielded"} : Resolve(a, status)
  <2>1. DeviceTypes
    BY DEF IInv
  <2>2. replay' = replay /\ UNCHANGED <<serverVars, count>>
    BY <1>1, <2>1, ScreenTypes
  <2>3. DeviceSays(known', stored', table', user', replay')
    BY <1>1, ScreenSays
  <2> QED
    BY <2>2, <2>3, DeviceKeepsFit
<1>2. CASE StartReplay \/ NextPass \/ Load \/ Save \/ MapDependents \/ UpdateEntity \/ EndPass
  <2>1. DeviceTypes /\ BatchFits
    BY DEF IInv
  <2>2. replay.pc # "wait" /\ UNCHANGED <<serverVars, count>>
    BY <1>2, <2>1, ReplayTypes
  <2>3. DeviceSays(known', stored', table', user', replay')
    BY <1>2, ReplaySays
  <2> QED
    BY <2>2, <2>3, DeviceKeepsFit
<1>3. CASE \/ \E s \in Slots : Send(s) \/ Receive(s) \/ Lose(s) \/ GiveUp(s)
           \/ Restart \/ Crash
  BY <1>3, RequestKeepsFit
<1>4. CASE \E s \in Slots : Look(s) \/ Read(s) \/ Refuse(s) \/ Apply(s) \/ Accept(s)
  BY <1>4, LookKeepsFit, ReadKeepsFit, RefuseKeepsFit, ApplyKeepsFit, AcceptKeepsFit
<1>5. CASE UNCHANGED vars
  <2>1. UNCHANGED <<serverVars, count>> /\ replay' = replay
    BY <1>5 DEF vars, deviceVars
  <2>2. /\ known' = known /\ stored' = stored /\ table' = table /\ user' = user
    BY <1>5 DEF vars, deviceVars
  <2>3. DeviceSays(known', stored', table', user', replay')
    BY <2>1, <2>2 DEF FitInv, DeviceFits
  <2> QED
    BY <2>1, <2>3, DeviceKeepsFit
<1> QED
  BY <1>1, <1>2, <1>3, <1>4, <1>5 DEF Next

LEMMA FitInvInitially ==
    ASSUME Init
    PROVE  FitInv
<1>1. ServerTypes
  BY IInvInitially DEF IInv
<1>2. DeviceFits
  BY <1>1, NothingFits DEF Init, DeviceFits, DeviceSays
<1>3. \A s \in Slots : server[s] = FreeSlot
  BY DEF Init
<1>4. SlotsFit /\ Matches
  BY <1>1, <1>3, FreeFits DEF SlotsFit, Matches
<1>5. \A a \in Actions : receipts[a] = NoResult /\ NoResult.ref = 0 /\ NoResult.status = "none"
  BY DEF Init, NoResult
<1>6. ReceiptsFit
  BY <1>1, <1>5, NothingFits DEF ReceiptsFit, ResultFits
<1> QED
  BY <1>2, <1>4, <1>6 DEF FitInv

LEMMA FitInvHolds == Spec => [](IInv /\ FitInv)
<1>1. Init => IInv /\ FitInv
  BY IInvInitially, FitInvInitially
<1>2. (IInv /\ FitInv) /\ [Next]_vars => (IInv /\ FitInv)'
  BY IInvIsInductive, FitInvIsInductive
<1> QED
  BY <1>1, <1>2, PTL DEF Spec

\* An update knows an order only if the server has created one of that number:
\* the id the device has in memory, what _mapDependentActions writes, and what
\* is saved over it, in any order.
THEOREM UpdatesFollow == Spec => []UpdateFollowsOrder
<1>1. IInv /\ FitInv => UpdateFollowsOrder
  <2> SUFFICES ASSUME IInv, FitInv PROVE UpdateFollowsOrder
    OBVIOUS
  <2>1. TableFits(table) /\ progress \in Seq(Actions)
    BY DEF IInv, ServerTypes, FitInv, DeviceFits, DeviceSays
  <2>2. \A a \in Actions : table[a].id \in 0 .. Len(progress)
    BY <2>1 DEF TableFits, RowFits, Orders
  <2> QED
    BY <2>1, <2>2 DEF UpdateFollowsOrder
<1> QED
  BY <1>1, FitInvHolds, PTL

\* What the device shows as synchronised has been applied to the order it names
\* and has not been set back, as long as no request was given up: replies are
\* about the batch that was sent, receipts about what was done, and a late save
\* of the table puts back only rows that were so.
THEOREM SyncedIsApplied == Spec => []SyncedMeansApplied
<1>1. IInv /\ FitInv => SyncedMeansApplied
  <2> SUFFICES ASSUME IInv, FitInv PROVE SyncedMeansApplied
    OBVIOUS
  <2>1. TableFits(table)
    BY DEF FitInv, DeviceFits, DeviceSays
  <2> QED
    BY <2>1 DEF TableFits, RowFits, Applied, SyncedMeansApplied
<1> QED
  BY <1>1, FitInvHolds, PTL
=============================================================================
