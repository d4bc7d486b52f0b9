--------------------- MODULE FinancialSettlementProofs ---------------------
(***************************************************************************)
(* Machine-checked theorems about FinancialSettlement, for any titles,     *)
(* cheques, requests, months, amounts and number of units.                 *)
(***************************************************************************)
EXTENDS FinancialSettlement, FiniteSetTheorems, TLAPS

---------------------------------------------------------------------------
(* The sum of the amounts of a set of rows.                                *)

\* h gives the sum of each part of D, the way the fold of the community modules
\* computes it: one element chosen, and the rest.
Folds(rows, D, h) ==
    h = [s \in SUBSET D |-> IF s = {} THEN 0
                            ELSE LET x == CHOOSE x \in s : TRUE
                                 IN  rows[x].amount + h[s \ {x}]]

\* What the provers see of the fold: one symbol for each of its operators.
Plus(m, n) == m + n
Some(s)    == CHOOSE x \in s : TRUE

Total(rows, D) == (CHOOSE h : Folds(rows, D, h))[D]

\* Of some parts of a finite set one contains no other.
LEMMA LeastPart ==
    ASSUME NEW D, IsFiniteSet(D), NEW B \in SUBSET (SUBSET D), B # {}
    PROVE  \E E \in B : IsFiniteSet(E) /\ \A F \in SUBSET E : F # E => F \notin B
<1> DEFINE K == {Cardinality(E) : E \in B}
           R == OpToRel(<, Nat)
<1>1. \A E \in SUBSET D : IsFiniteSet(E) /\ Cardinality(E) \in Nat
  BY FS_Subset, FS_CardinalityType
<1>2. IsWellFoundedOn(R, Nat)
  BY NatLessThanWellFounded
<1>3. \A x, y \in Nat : y < x => <<y, x>> \in R
  BY DEF OpToRel
<1> HIDE DEF R
<1>4. K \subseteq Nat /\ K # {}
  BY <1>1
<1> HIDE DEF K
<1>5. PICK m \in K : \A k \in K : ~(<<k, m>> \in R)
  BY <1>2, <1>4, WFMin
<1>6. \A k \in K : ~(k < m)
  BY <1>3, <1>4, <1>5
<1>7. PICK E \in B : m = Cardinality(E)
  BY <1>5 DEF K
<1>8. ASSUME NEW F \in SUBSET E, F # E, F \in B PROVE FALSE
  <2>1. IsFiniteSet(E) /\ Cardinality(E) \in Nat /\ Cardinality(F) \in Nat
    BY <1>1, <1>8
  <2>2. Cardinality(F) <= Cardinality(E) /\ Cardinality(E) # Cardinality(F)
    BY <1>8, <2>1, FS_Subset
  <2>3. Cardinality(F) \in K
    BY <1>8 DEF K
  <2> QED
    BY <1>6, <1>7, <2>1, <2>2, <2>3
<1> QED
  BY <1>1, <1>7, <1>8

\* The element that is chosen, and what a fold says of a part.
LEMMA SomeIn == \A s : s # {} => Some(s) \in s
BY DEF Some

LEMMA FoldEmpty ==
    ASSUME NEW rows, NEW D, NEW h, Folds(rows, D, h)
    PROVE  h[{}] = 0
BY DEF Folds

LEMMA FoldStep ==
    ASSUME NEW rows, NEW D, NEW h, Folds(rows, D, h), NEW s \in SUBSET D, s # {}
    PROVE  h[s] = Plus(rows[Some(s)].amount, h[s \ {Some(s)}])
BY DEF Folds, Some, Plus

\* Two folds agree where both are defined, also of rows that differ elsewhere.
LEMMA FoldsAgree ==
    ASSUME NEW rows, NEW others, NEW D, NEW E, NEW g, NEW h,
           Folds(rows, D, g), Folds(others, E, h),
           NEW s \in SUBSET D, s \in SUBSET E, IsFiniteSet(s),
           \A i \in s : rows[i].amount = others[i].amount
    PROVE  g[s] = h[s]
<1> DEFINE B == {r \in SUBSET s : g[r] # h[r]}
<1> SUFFICES ASSUME B # {} PROVE FALSE
  OBVIOUS
<1>0. B \in SUBSET (SUBSET s)
  OBVIOUS
<1>1. PICK r \in B : \A q \in SUBSET r : q # r => q \notin B
  <2> HIDE DEF B
  <2> QED
    BY <1>0, LeastPart
<1>2. r \in SUBSET D /\ r \in SUBSET E /\ r \in SUBSET s /\ g[r] # h[r]
  BY <1>1
<1>3. r # {}
  <2>1. g[{}] = 0 /\ h[{}] = 0
    BY FoldEmpty
  <2> QED
    BY <1>2, <2>1
<1> HIDE DEF B
<1> DEFINE x == Some(r)
<1>4. x \in r /\ g[r] = Plus(rows[x].amount, g[r \ {x}])
  <2>1. g[r] = Plus(rows[x].amount, g[r \ {x}])
    BY <1>2, <1>3, FoldStep
  <2> QED
    BY <1>3, <2>1, SomeIn
<1>5. h[r] = Plus(others[x].amount, h[r \ {x}])
  BY <1>2, <1>3, FoldStep
<1> HIDE DEF x
<1>6. g[r \ {x}] = h[r \ {x}]
  <2>1. r \ {x} \in SUBSET r /\ r \ {x} # r /\ r \ {x} \in SUBSET s
    BY <1>2, <1>4
  <2>2. r \ {x} \notin B
    BY <1>1, <2>1
  <2> QED
    BY <2>1, <2>2 DEF B
<1> QED
  BY <1>2, <1>4, <1>5, <1>6

\* The fold of a finite set exists.
LEMMA FoldExists ==
    ASSUME NEW rows, NEW D, IsFiniteSet(D)
    PROVE  \E h : Folds(rows, D, h)
<1> DEFINE B == {E \in SUBSET D : ~ \E h : Folds(rows, E, h)}
<1> SUFFICES ASSUME B # {} PROVE FALSE
  OBVIOUS
<1>0. B \in SUBSET (SUBSET D)
  OBVIOUS
<1>1. PICK E \in B : IsFiniteSet(E) /\ \A F \in SUBSET E : F # E => F \notin B
  <2> HIDE DEF B
  <2> QED
    BY <1>0, LeastPart
<1>2. E \in SUBSET D /\ ~ \E h : Folds(rows, E, h)
  BY <1>1
<1>9. \A F \in SUBSET E : F # E => IsFiniteSet(F) /\ \E g : Folds(rows, F, g)
  BY <1>1, <1>2, FS_Subset
<1> HIDE DEF B
<1> DEFINE h == [s \in SUBSET E |-> IF s = {} THEN 0
                                    ELSE Plus(rows[Some(s)].amount, Total(rows, s \ {Some(s)}))]
<1>3. ASSUME NEW F \in SUBSET E, F # E
      PROVE  IsFiniteSet(F) /\ Folds(rows, F, CHOOSE g : Folds(rows, F, g))
  BY <1>3, <1>9
<1>4. ASSUME NEW F \in SUBSET E, F # E
      PROVE  h[F] = Total(rows, F)
  <2> DEFINE g == CHOOSE g : Folds(rows, F, g)
  <2>1. Folds(rows, F, g) /\ Total(rows, F) = g[F]
    BY <1>3, <1>4 DEF Total
  <2> HIDE DEF g
  <2>2. CASE F = {}
    <3>1. g[F] = 0
      BY <2>1, <2>2, FoldEmpty
    <3> QED
      BY <2>1, <2>2, <3>1
  <2>3. CASE F # {}
    <3> DEFINE x == Some(F)
               k == CHOOSE k : Folds(rows, F \ {x}, k)
    <3>1. x \in F /\ g[F] = Plus(rows[x].amount, g[F \ {x}])
      <4> HIDE DEF h, k
      <4>1. g[F] = Plus(rows[x].amount, g[F \ {x}])
        BY <2>1, <2>3, FoldStep
      <4> QED
        BY <2>3, <4>1, SomeIn
    <3>2. h[F] = Plus(rows[x].amount, Total(rows, F \ {x}))
      BY <2>3
    <3>3. F \ {x} \in SUBSET E /\ F \ {x} # E /\ F \ {x} \in SUBSET F
      BY <3>1
    <3>4. /\ Folds(rows, F \ {x}, k) /\ IsFiniteSet(F \ {x})
          /\ Total(rows, F \ {x}) = k[F \ {x}]
      BY <1>3, <3>3 DEF Total
    <3> HIDE DEF x, k
    <3>5. g[F \ {x}] = k[F \ {x}]
      BY <2>1, <3>3, <3>4, FoldsAgree
    <3> QED
      BY <2>1, <3>1, <3>2, <3>4, <3>5
  <2> QED
    BY <2>2, <2>3
<1>5. ASSUME NEW s \in SUBSET E, s # {}
      PROVE  h[s \ {Some(s)}] = Total(rows, s \ {Some(s)})
  <2>1. Some(s) \in s
    BY <1>5 DEF Some
  <2>2. s \ {Some(s)} \in SUBSET E /\ s \ {Some(s)} # E
    BY <2>1
  <2> HIDE DEF h
  <2> QED
    BY <1>4, <2>2
<1>6. h = [s \in SUBSET E |-> IF s = {} THEN 0 ELSE Plus(rows[Some(s)].amount, h[s \ {Some(s)}])]
  BY <1>5
<1>7. Folds(rows, E, h)
  <2> HIDE DEF h
  <2> QED
    BY <1>6 DEF Folds, Some, Plus
<1> QED
  BY <1>2, <1>7

\* The sum is the one any fold gives, of rows with these amounts.
LEMMA TotalIs ==
    ASSUME NEW rows, NEW others, NEW D, NEW E, NEW h, Folds(others, E, h),
           D \in SUBSET E, IsFiniteSet(D), \A i \in D : rows[i].amount = others[i].amount
    PROVE  Total(rows, D) = h[D]
<1> DEFINE g == CHOOSE g : Folds(rows, D, g)
<1>1. Folds(rows, D, g) /\ Total(rows, D) = g[D]
  BY FoldExists DEF Total
<1> HIDE DEF g
<1> QED
  BY <1>1, FoldsAgree

\* Rows with the same amounts have the same sum.
LEMMA TotalSame ==
    ASSUME NEW rows, NEW others, NEW D, IsFiniteSet(D),
           \A i \in D : rows[i].amount = others[i].amount
    PROVE  Total(rows, D) = Total(others, D)
<1> DEFINE h == CHOOSE h : Folds(others, D, h)
<1>1. Folds(others, D, h) /\ Total(others, D) = h[D]
  BY FoldExists DEF Total
<1> HIDE DEF h
<1> QED
  BY <1>1, TotalIs

\* One element chosen, and the rest.
LEMMA TotalChosen ==
    ASSUME NEW rows, NEW D, IsFiniteSet(D), D # {}
    PROVE  \E x \in D : Total(rows, D) = Plus(rows[x].amount, Total(rows, D \ {x}))
<1> DEFINE h == CHOOSE h : Folds(rows, D, h)
<1>1. Folds(rows, D, h) /\ Total(rows, D) = h[D]
  BY FoldExists DEF Total
<1> HIDE DEF h
<1> DEFINE x == Some(D)
<1>2. x \in D /\ h[D] = Plus(rows[x].amount, h[D \ {x}])
  <2>1. h[D] = Plus(rows[x].amount, h[D \ {x}])
    BY <1>1, FoldStep
  <2> QED
    BY <2>1, SomeIn
<1> HIDE DEF x
<1>3. IsFiniteSet(D \ {x}) /\ D \ {x} \in SUBSET D
  BY FS_RemoveElement
<1>4. Total(rows, D \ {x}) = h[D \ {x}]
  BY <1>1, <1>3, TotalIs
<1> QED
  BY <1>1, <1>2, <1>4

\* Any element may be taken out first.
LEMMA TotalWithout ==
    ASSUME NEW rows, NEW D, IsFiniteSet(D), \A i \in D : rows[i].amount \in Nat
    PROVE  /\ Total(rows, D) \in Nat /\ Total(rows, {}) = 0
           /\ \A y \in D : Total(rows, D) = rows[y].amount + Total(rows, D \ {y})
<1>1. Total(rows, {}) = 0
  <2> DEFINE h == CHOOSE h : Folds(rows, {}, h)
  <2>1. Folds(rows, {}, h) /\ Total(rows, {}) = h[{}]
    BY FoldExists, FS_EmptySet DEF Total
  <2> HIDE DEF h
  <2>2. h[{}] = 0
    BY <2>1, FoldEmpty
  <2> QED
    BY <2>1, <2>2
<1> DEFINE Good(E) == /\ Total(rows, E) \in Nat
                      /\ \A y \in E : Total(rows, E) = rows[y].amount + Total(rows, E \ {y})
           B == {E \in SUBSET D : ~Good(E)}
<1>2. SUFFICES ASSUME B # {} PROVE FALSE
  BY <1>1
<1> HIDE DEF Good
<1>3. B \in SUBSET (SUBSET D)
  OBVIOUS
<1>4. PICK E \in B : IsFiniteSet(E) /\ \A F \in SUBSET E : F # E => F \notin B
  <2>1. B # {}
    BY <1>2
  <2> HIDE DEF B
  <2> QED
    BY <1>3, <2>1, LeastPart
<1>5. E \in SUBSET D /\ ~Good(E) /\ \A F \in SUBSET E : F # E => Good(F)
  BY <1>4
<1> HIDE DEF B
<1>6. E # {}
  <2>1. Good({})
    BY <1>1 DEF Good
  <2> QED
    BY <1>5, <2>1
<1>7. PICK x \in E : Total(rows, E) = Plus(rows[x].amount, Total(rows, E \ {x}))
  BY <1>4, <1>6, TotalChosen
<1>8. /\ Total(rows, E) = rows[x].amount + Total(rows, E \ {x})
      /\ rows[x].amount \in Nat /\ Good(E \ {x})
  BY <1>5, <1>7 DEF Plus
<1>9. Total(rows, E \ {x}) \in Nat
  BY <1>8 DEF Good
<1>10. ASSUME NEW y \in E, y # x
       PROVE  Total(rows, E) = rows[y].amount + Total(rows, E \ {y})
  <2> DEFINE m == rows[x].amount
             n == rows[y].amount
             rest == Total(rows, (E \ {x}) \ {y})
  <2>1. Good(E \ {y}) /\ Good((E \ {x}) \ {y}) /\ n \in Nat
    BY <1>5, <1>8
  <2>2. (E \ {y}) \ {x} = (E \ {x}) \ {y} /\ x \in E \ {y} /\ y \in E \ {x}
    BY <1>10
  <2>3. Total(rows, E \ {y}) = m + Total(rows, (E \ {y}) \ {x})
    BY <2>1, <2>2 DEF Good
  <2>4. Total(rows, E \ {x}) = n + rest
    BY <1>8, <2>2 DEF Good
  <2>5. Total(rows, E \ {y}) = m + rest
    BY <2>2, <2>3
  <2>6. rest \in Nat
    BY <2>1 DEF Good
  <2>7. m \in Nat /\ Total(rows, E) = m + Total(rows, E \ {x})
    BY <1>8
  <2> HIDE DEF m, n, rest
  <2>8. Total(rows, E) = n + Total(rows, E \ {y})
    BY <2>1, <2>4, <2>5, <2>6, <2>7
  <2> QED
    BY <2>8 DEF n
<1>11. Good(E)
  <2>1. Total(rows, E) \in Nat
    BY <1>8, <1>9
  <2>2. \A y \in E : Total(rows, E) = rows[y].amount + Total(rows, E \ {y})
    BY <1>8, <1>10
  <2> QED
    BY <2>1, <2>2 DEF Good
<1> QED
  BY <1>5, <1>11

---------------------------------------------------------------------------
(* The invariant.                                                          *)

\* The types of the three tables.
RowTypes ==
    /\ titles \in [Titles -> Title] /\ \A t \in Titles : titles[t].paid <= titles[t].amount
    /\ entries \in Seq(EntryRow) /\ \A i \in Ids : entries[i].of < i
    /\ cheques \in [Cheques -> Cheque]
    /\ \A c \in Cheques : {cheques[c].cleared, cheques[c].bounced} \subseteq 0 .. Len(entries)

\* What a unit names exists, and what it names in its own month is of that month.
Fits(u) ==
    /\ u.op \in {"issue", "pay", "amount", "status", "drop"} => u.id \in Titles
    /\ u.op \in {"delete", "reverse"} => u.id \in Ids
    /\ u.op \in {"clear", "bounce"} => u.id \in Cheques
    /\ u.op = "issue" => titles[u.id].status = "absent"
    /\ u.op \in {"amount", "status", "drop"} =>
           titles[u.id].status # "absent" /\ titles[u.id].period = u.period
    /\ u.op = "delete" => entries[u.id].period = u.period

UnitsFit == \A r \in Requests : Fits(call[r])

OneIssuer ==
    \A r, q \in Requests :
        call[r].op = "issue" /\ call[q].op = "issue" /\ call[r].id = call[q].id => r = q

\* A unit that holds the shared lock of a month has found it open, and it stays
\* open since a close waits for the lock.
FoundOpen == \A r \in Requests : call[r].pc = "write" => Open(call[r].period)

\* A close holds its lock alone, and what it has read is still what is there.
CloseHolds ==
    closing # NoClose =>
        /\ closing.period \in Periods /\ Open(closing.period)
        /\ closing = [period |-> closing.period, rows |-> Material(closing.period)]
        /\ \A r \in Requests : ~(call[r].pc = "write" /\ call[r].period = closing.period)

SnapshotInv ==
    TypeOK /\ UnitsFit /\ OneIssuer /\ FoundOpen /\ CloseHolds /\ SnapshotAgrees

---------------------------------------------------------------------------
(* What a step may do to the rows of a month that is not its own.          *)

\* Entries are added to the month p alone, and deleted in it alone.
EntriesKept(p) ==
    /\ Ids \subseteq Ids'
    /\ \A i \in Ids : /\ entries'[i].period = entries[i].period
                      /\ entries'[i].dir = entries[i].dir
                      /\ entries'[i].amount = entries[i].amount
                      /\ entries'[i].deleted = entries[i].deleted \/ entries[i].period = p
    /\ \A i \in Ids' \ Ids : entries'[i].period = p

\* A title keeps its month; its amount and its life change in the month p alone.
TitlesKept(p) ==
    \A t \in Titles :
        /\ titles[t].status # "absent" =>
               titles'[t].status # "absent" /\ titles'[t].period = titles[t].period
        /\ \/ titles'[t] = titles[t]
           \/ /\ titles[t].status # "absent"
              /\ titles'[t].amount = titles[t].amount
              /\ titles'[t].deleted = titles[t].deleted
           \/ titles'[t].period = p

\* Nothing but its issue brings a title into being.
AbsentKept(u) ==
    \A t \in Titles : titles[t].status = "absent" /\ ~(u.op = "issue" /\ t = u.id)
                          => titles'[t] = titles[t]

\* The effect of a write of the unit u.
Within(u) ==
    RowTypes' /\ EntriesKept(u.period) /\ TitlesKept(u.period) /\ AbsentKept(u)

\* The snapshot of another month is what it was.
LEMMA MaterialElsewhere ==
    ASSUME NEW p, NEW q, q # p, EntriesKept(p), TitlesKept(p)
    PROVE  Material(q)' = Material(q)
<1>1. TitlesOf(q)' = TitlesOf(q)
  <2> DEFINE S == {n \in Titles : Stored(n) /\ titles[n].period = q}
             T == {n \in Titles : ~(titles'[n].status = "absent") /\ ~titles'[n].deleted
                                      /\ titles'[n].period = q}
  <2>1. \A n \in Titles : n \in S <=> n \in T
    BY DEF TitlesKept, Stored
  <2>2. S = T
    BY <2>1
  <2>3. \A n \in S : titles'[n].amount = titles[n].amount
    BY <2>2 DEF TitlesKept
  <2>4. TitlesOf(q)' = [t \in T |-> titles'[t].amount]
    BY DEF TitlesOf, Stored
  <2>5. [t \in T |-> titles'[t].amount] = [t \in S |-> titles[t].amount]
    BY <2>2, <2>3
  <2> QED
    BY <2>4, <2>5 DEF TitlesOf
<1>2. ASSUME NEW dir PROVE EntriesOf(q, dir)' = EntriesOf(q, dir)
  <2> DEFINE S == {j \in Ids : Live(j) /\ entries[j].period = q /\ entries[j].dir = dir}
             T == {j \in Ids' : Live(j)' /\ entries'[j].period = q /\ entries'[j].dir = dir}
  <2>1. S \subseteq T
    BY DEF EntriesKept, Live
  <2>2. T \subseteq S
    BY DEF EntriesKept, Live
  <2>3. \A i \in S : entries'[i].amount = entries[i].amount
    BY DEF EntriesKept
  <2>4. EntriesOf(q, dir)' = [i \in T |-> entries'[i].amount]
    BY DEF EntriesOf
  <2>5. [i \in T |-> entries'[i].amount] = [i \in S |-> entries[i].amount]
    BY <2>1, <2>2, <2>3
  <2> QED
    BY <2>4, <2>5 DEF EntriesOf
<1> QED
  BY <1>1, <1>2 DEF Material, Aggregate

---------------------------------------------------------------------------
(* Edits of the tables.                                                    *)

\* An entry is appended.
LEMMA AppendRow ==
    ASSUME RowTypes, NEW e \in EntryRow, e.of <= Len(entries), entries' = Append(entries, e),
           NEW p, e.period = p
    PROVE  /\ entries' \in Seq(EntryRow) /\ Len(entries') = Len(entries) + 1
           /\ \A i \in Ids' : entries'[i].of < i
           /\ EntriesKept(p)
<1>1. entries \in Seq(EntryRow) /\ Len(entries) \in Nat
  BY DEF RowTypes
<1>2. /\ entries' \in Seq(EntryRow) /\ Len(entries') = Len(entries) + 1
      /\ \A i \in 1 .. Len(entries) : entries'[i] = entries[i]
      /\ entries'[Len(entries) + 1] = e
  BY <1>1
<1>3. Ids' = Ids \cup {Len(entries) + 1}
  BY <1>1, <1>2 DEF Ids
<1>4. \A i \in Ids' : entries'[i].of < i
  BY <1>1, <1>2, <1>3 DEF Ids, RowTypes, EntryRow
<1>5. EntriesKept(p)
  BY <1>1, <1>2, <1>3 DEF EntriesKept, Ids
<1> QED
  BY <1>2, <1>4, <1>5

\* An entry is deleted, or none.
LEMMA DeleteRow ==
    ASSUME RowTypes, NEW i \in Ids, entries' = [entries EXCEPT ![i].deleted = TRUE]
    PROVE  /\ entries' \in Seq(EntryRow) /\ Len(entries') = Len(entries)
           /\ \A j \in Ids' : entries'[j].of < j
           /\ EntriesKept(entries[i].period)
<1>1. entries \in Seq(EntryRow) /\ Len(entries) \in Nat /\ entries[i] \in EntryRow
  BY DEF RowTypes, Ids
<1>2. [entries[i] EXCEPT !.deleted = TRUE] \in EntryRow
  BY <1>1 DEF EntryRow
<1>3. entries' \in Seq(EntryRow) /\ Len(entries') = Len(entries) /\ Ids' = Ids
  BY <1>1, <1>2 DEF Ids
<1>4. \A j \in Ids : /\ j # i => entries'[j] = entries[j]
                     /\ entries'[j].of = entries[j].of
                     /\ entries'[j].period = entries[j].period
                     /\ entries'[j].dir = entries[j].dir
                     /\ entries'[j].amount = entries[j].amount
  BY <1>1 DEF Ids, EntryRow
<1> QED
  BY <1>3, <1>4 DEF EntriesKept, RowTypes

\* The entries stay.
LEMMA NoRow ==
    ASSUME RowTypes, UNCHANGED entries, NEW p
    PROVE  EntriesKept(p) /\ Len(entries') = Len(entries)
           /\ entries' \in Seq(EntryRow) /\ \A j \in Ids' : entries'[j].of < j
BY DEF EntriesKept, Ids, RowTypes

\* The titles stay.
LEMMA NoTitle ==
    ASSUME RowTypes, UNCHANGED titles, NEW p, NEW u
    PROVE  /\ TitlesKept(p) /\ AbsentKept(u)
           /\ titles' \in [Titles -> Title] /\ \A t \in Titles : titles'[t].paid <= titles'[t].amount
BY DEF TitlesKept, AbsentKept, RowTypes

\* One title that is stored is edited.
LEMMA EditTitle ==
    ASSUME RowTypes, NEW t \in Titles, NEW title \in Title, title.paid <= title.amount,
           titles[t].status # "absent", title.status # "absent",
           title.period = titles[t].period,
           titles' = [titles EXCEPT ![t] = title], NEW p,
           \/ title.amount = titles[t].amount /\ title.deleted = titles[t].deleted
           \/ title.period = p,
           NEW u
    PROVE  /\ TitlesKept(p) /\ AbsentKept(u)
           /\ titles' \in [Titles -> Title] /\ \A n \in Titles : titles'[n].paid <= titles'[n].amount
BY DEF TitlesKept, AbsentKept, RowTypes

\* What is paid of a title changes, and its status.
LEMMA EditPaid ==
    ASSUME RowTypes, NEW t \in Titles, titles[t].status # "absent",
           NEW n \in Nat, n <= titles[t].amount, NEW s \in TitleStatuses, s # "absent",
           titles' = [titles EXCEPT ![t].paid = n, ![t].status = s], NEW p, NEW u
    PROVE  /\ TitlesKept(p) /\ AbsentKept(u)
           /\ titles' \in [Titles -> Title] /\ \A m \in Titles : titles'[m].paid <= titles'[m].amount
<1>1. titles \in [Titles -> Title] /\ titles[t] \in Title
  BY DEF RowTypes
<1> DEFINE title == [titles[t] EXCEPT !.paid = n, !.status = s]
<1>2. titles' = [titles EXCEPT ![t] = title]
  BY <1>1 DEF Title
<1>3. title \in Title /\ title.paid <= title.amount /\ title.status # "absent"
  BY <1>1 DEF Title
<1>4. /\ title.period = titles[t].period /\ title.amount = titles[t].amount
      /\ title.deleted = titles[t].deleted
  BY <1>1 DEF Title
<1> HIDE DEF title
<1> QED
  BY <1>2, <1>3, <1>4, EditTitle

\* A payment and its return: the amount and the month of the title stay.
LEMMA PaymentEdit ==
    ASSUME RowTypes, NEW t \in Titles, NEW x \in Nat, NEW p, NEW u,
           \/ Payable(t, x) /\ titles' = Paying(t, x)
           \/ Restorable(t, x) /\ titles' = Restoring(t, x)
    PROVE  /\ TitlesKept(p) /\ AbsentKept(u)
           /\ titles' \in [Titles -> Title] /\ \A n \in Titles : titles'[n].paid <= titles'[n].amount
<1>1. titles[t].paid \in Nat /\ titles[t].amount \in Nat /\ titles[t].paid <= titles[t].amount
  BY DEF RowTypes, Title
<1>2. CASE Payable(t, x) /\ titles' = Paying(t, x)
  <2> DEFINE n == titles[t].paid + x
             s == IF titles[t].paid + x >= titles[t].amount THEN "paid" ELSE "partially_paid"
  <2>1. titles' = [titles EXCEPT ![t].paid = n, ![t].status = s]
    BY <1>2 DEF Paying
  <2>2. n \in Nat /\ n <= titles[t].amount /\ titles[t].status # "absent"
    BY <1>1, <1>2 DEF Payable, Stored
  <2>3. s \in TitleStatuses /\ s # "absent"
    BY DEF TitleStatuses
  <2> HIDE DEF n, s
  <2> QED
    BY <2>1, <2>2, <2>3, EditPaid
<1>3. CASE Restorable(t, x) /\ titles' = Restoring(t, x)
  <2> DEFINE n == titles[t].paid - x
             s == IF titles[t].paid <= x THEN "open" ELSE "partially_paid"
  <2>1. titles' = [titles EXCEPT ![t].paid = n, ![t].status = s]
    BY <1>3 DEF Restoring
  <2>2. n \in Nat /\ n <= titles[t].amount /\ titles[t].status # "absent"
    BY <1>1, <1>3 DEF Restorable, Stored
  <2>3. s \in TitleStatuses /\ s # "absent"
    BY DEF TitleStatuses
  <2> HIDE DEF n, s
  <2> QED
    BY <2>1, <2>2, <2>3, EditPaid
<1> QED
  BY <1>2, <1>3

\* The cheques stay.
LEMMA NoCheque ==
    ASSUME RowTypes, UNCHANGED cheques, Len(entries') \in Nat, Len(entries) <= Len(entries')
    PROVE  /\ cheques' \in [Cheques -> Cheque]
           /\ \A c \in Cheques : {cheques'[c].cleared, cheques'[c].bounced} \subseteq 0 .. Len(entries')
<1>1. Len(entries) \in Nat
  BY DEF RowTypes
<1> QED
  BY <1>1 DEF RowTypes

---------------------------------------------------------------------------
(* Each write stays within the month of its unit.                          *)

\* A title is issued.
LEMMA IssueWithin ==
    ASSUME RowTypes, NEW r \in Requests, call[r] \in UnitRow, Fits(call[r]),
           call[r].op = "issue", Issue(call[r])
    PROVE  Within(call[r])
<1> DEFINE u == call[r]
<1>1. u.op = "issue" /\ u.id \in Titles /\ titles[u.id].status = "absent" /\ u.period \in Periods /\ u.amount \in Nat
  BY DEF Fits, UnitRow
<1>2. PICK status \in {"open", "scheduled"} :
          titles' = [titles EXCEPT ![u.id] = [status |-> status, amount |-> u.amount,
                        paid |-> 0, period |-> u.period, deleted |-> FALSE]]
  BY DEF Issue
<1> DEFINE title == [status |-> status, amount |-> u.amount, paid |-> 0,
                     period |-> u.period, deleted |-> FALSE]
<1>3. title \in Title /\ title.paid <= title.amount /\ title.period = u.period
  BY <1>1 DEF Title, TitleStatuses
<1>4. titles' = [titles EXCEPT ![u.id] = title]
  BY <1>2
<1>5. /\ titles' \in [Titles -> Title]
      /\ \A t \in Titles : titles'[t].paid <= titles'[t].amount
      /\ TitlesKept(u.period) /\ AbsentKept(u)
  <2> HIDE DEF u, title
  <2>1. titles \in [Titles -> Title] /\ \A t \in Titles : titles[t].paid <= titles[t].amount
    BY DEF RowTypes
  <2>2. titles'[u.id] = title /\ \A t \in Titles : t # u.id => titles'[t] = titles[t]
    BY <1>1, <1>4, <2>1
  <2> QED
    BY <1>1, <1>3, <1>4, <2>1, <2>2 DEF TitlesKept, AbsentKept
<1>6. UNCHANGED <<entries, cheques>> /\ Len(entries) \in Nat
  BY DEF Issue, RowTypes
<1> QED
  BY <1>5, <1>6, NoRow, NoCheque DEF Within, RowTypes

\* A standalone entry is created.
LEMMA CreateWithin ==
    ASSUME RowTypes, NEW r \in Requests, call[r] \in UnitRow, Create(call[r])
    PROVE  Within(call[r])
<1> DEFINE u == call[r]
           e == Entry(u.period, "in", u.amount, None, 0, FALSE)
<1>1. e \in EntryRow /\ e.period = u.period /\ e.of = 0 /\ Len(entries) \in Nat
  BY DEF Entry, EntryRow, UnitRow, RowTypes
<1>2. entries' = Append(entries, e) /\ UNCHANGED <<titles, cheques>>
  BY DEF Create
<1>3. /\ entries' \in Seq(EntryRow) /\ Len(entries') = Len(entries) + 1
      /\ \A i \in Ids' : entries'[i].of < i
      /\ EntriesKept(u.period)
  <2> HIDE DEF e
  <2>1. e.of <= Len(entries)
    BY <1>1
  <2>2. entries' = Append(entries, e)
    BY <1>2
  <2> QED
    BY <1>1, <2>1, <2>2, AppendRow
<1>4. /\ TitlesKept(u.period) /\ AbsentKept(u)
      /\ titles' \in [Titles -> Title] /\ \A t \in Titles : titles'[t].paid <= titles'[t].amount
  BY <1>2, NoTitle
<1>5. UNCHANGED cheques
  BY <1>2
<1> HIDE DEF e
<1> QED
  BY <1>1, <1>3, <1>4, <1>5, NoCheque DEF Within, RowTypes

\* An entry of the unit's month is deleted.
LEMMA DeleteWithin ==
    ASSUME RowTypes, NEW r \in Requests, call[r] \in UnitRow, Fits(call[r]),
           call[r].op = "delete", Delete(call[r])
    PROVE  Within(call[r])
<1> DEFINE u == call[r]
<1>1. u.id \in Ids /\ entries[u.id].period = u.period /\ Len(entries) \in Nat
  BY DEF Fits, RowTypes
<1>2. UNCHANGED <<titles, cheques>>
  BY DEF Delete
<1>3. /\ entries' \in Seq(EntryRow) /\ Len(entries') = Len(entries)
      /\ \A i \in Ids' : entries'[i].of < i
      /\ EntriesKept(u.period)
  <2>1. CASE entries' = [entries EXCEPT ![u.id].deleted = TRUE]
    BY <1>1, <2>1, DeleteRow
  <2>2. CASE UNCHANGED entries
    BY <2>2, NoRow
  <2> QED
    BY <2>1, <2>2 DEF Delete
<1> QED
  BY <1>1, <1>2, <1>3, NoTitle, NoCheque DEF Within, RowTypes

\* A counter-entry of today's month.
LEMMA CounterWithin ==
    ASSUME RowTypes, NEW i \in Ids, NEW p \in Periods, entries' = Counter(i, p)
    PROVE  /\ entries' \in Seq(EntryRow) /\ Len(entries') = Len(entries) + 1
           /\ \A j \in Ids' : entries'[j].of < j
           /\ EntriesKept(p)
<1>1. entries[i] \in EntryRow /\ Len(entries) \in Nat /\ i \in Nat /\ i <= Len(entries)
  BY DEF RowTypes, Ids
<1> DEFINE e == Entry(p, Opposite(entries[i].dir), entries[i].amount, None, i, entries[i].check)
<1>2. e \in EntryRow /\ e.period = p /\ e.of = i
  BY <1>1 DEF Entry, EntryRow, Opposite
<1>3. entries' = Append(entries, e)
  BY DEF Counter
<1> HIDE DEF e
<1> QED
  BY <1>1, <1>2, <1>3, AppendRow

\* An entry is reversed, and its payment given back.
LEMMA ReverseWithin ==
    ASSUME RowTypes, NEW r \in Requests, call[r] \in UnitRow, Fits(call[r]),
           call[r].op = "reverse", Reverse(call[r])
    PROVE  Within(call[r])
<1> DEFINE u == call[r]
           t == entries[u.id].title
           x == entries[u.id].amount
<1>1. u.id \in Ids /\ u.period \in Periods /\ Len(entries) \in Nat
  BY DEF Fits, UnitRow, RowTypes
<1>2. t \in Titles \cup {None} /\ x \in Nat
  <2>1. entries[u.id] \in EntryRow
    BY <1>1 DEF RowTypes, Ids
  <2> QED
    BY <2>1 DEF EntryRow
<1>3. CASE UNCHANGED <<entries, titles>>
  BY <1>1, <1>3, NoRow, NoTitle, NoCheque DEF Within, RowTypes, Reverse
<1>4. CASE /\ entries' = Counter(u.id, u.period)
           /\ t # None => Restorable(t, x)
           /\ titles' = IF t = None THEN titles ELSE Restoring(t, x)
  <2>1. /\ entries' \in Seq(EntryRow) /\ Len(entries') = Len(entries) + 1
        /\ \A j \in Ids' : entries'[j].of < j
        /\ EntriesKept(u.period)
    BY <1>1, <1>4, CounterWithin
  <2>2. /\ TitlesKept(u.period) /\ AbsentKept(u)
        /\ titles' \in [Titles -> Title] /\ \A n \in Titles : titles'[n].paid <= titles'[n].amount
    BY <1>2, <1>4, NoTitle, PaymentEdit
  <2>3. UNCHANGED cheques
    BY DEF Reverse
  <2> QED
    BY <1>1, <2>1, <2>2, <2>3, NoCheque DEF Within, RowTypes
<1> QED
  BY <1>3, <1>4 DEF Reverse

\* A payment: an entry of the month the client names.
LEMMA PayWithin ==
    ASSUME RowTypes, NEW r \in Requests, call[r] \in UnitRow, Fits(call[r]),
           call[r].op = "pay", Pay(call[r])
    PROVE  Within(call[r])
<1> DEFINE u == call[r]
           e == Entry(u.period, "in", u.amount, u.id, 0, FALSE)
<1>1. u.id \in Titles /\ u.period \in Periods /\ u.amount \in Nat /\ Len(entries) \in Nat
  BY DEF Fits, UnitRow, RowTypes
<1>2. e \in EntryRow /\ e.period = u.period /\ e.of = 0
  BY <1>1 DEF Entry, EntryRow
<1>3. CASE UNCHANGED <<entries, titles>>
  BY <1>1, <1>3, NoRow, NoTitle, NoCheque DEF Within, RowTypes, Pay
<1>4. CASE /\ Payable(u.id, u.amount) /\ entries' = Append(entries, e)
           /\ titles' = Paying(u.id, u.amount)
  <2>1. /\ entries' \in Seq(EntryRow) /\ Len(entries') = Len(entries) + 1
        /\ \A i \in Ids' : entries'[i].of < i
        /\ EntriesKept(u.period)
    <3> HIDE DEF e
    <3>1. e.of <= Len(entries)
      BY <1>1, <1>2
    <3>2. entries' = Append(entries, e)
      BY <1>4
    <3> QED
      BY <1>2, <3>1, <3>2, AppendRow
  <2>2. /\ TitlesKept(u.period) /\ AbsentKept(u)
        /\ titles' \in [Titles -> Title] /\ \A n \in Titles : titles'[n].paid <= titles'[n].amount
    BY <1>1, <1>4, PaymentEdit
  <2>3. UNCHANGED cheques
    BY DEF Pay
  <2> QED
    BY <1>1, <2>1, <2>2, <2>3, NoCheque DEF Within, RowTypes
<1> QED
  BY <1>3, <1>4 DEF Pay

\* An edit of a title of the unit's month.
LEMMA TitleWithin ==
    ASSUME RowTypes, NEW r \in Requests, call[r] \in UnitRow, Fits(call[r]),
           \/ call[r].op = "amount" /\ ChangeAmount(call[r])
           \/ call[r].op = "status" /\ ChangeStatus(call[r])
           \/ call[r].op = "drop" /\ Drop(call[r])
    PROVE  Within(call[r])
<1> DEFINE u == call[r]
           t == u.id
<1>1. /\ t \in Titles /\ titles[t].status # "absent" /\ titles[t].period = u.period
      /\ u.amount \in Nat /\ Len(entries) \in Nat /\ titles \in [Titles -> Title]
      /\ titles[t] \in Title /\ titles[t].paid <= titles[t].amount
  BY DEF Fits, UnitRow, RowTypes
<1>2. UNCHANGED <<entries, cheques>>
  BY DEF ChangeAmount, ChangeStatus, Drop
<1>3. CASE UNCHANGED titles
  BY <1>1, <1>2, <1>3, NoRow, NoTitle, NoCheque DEF Within, RowTypes
<1>4. ASSUME NEW title \in Title, title.paid <= title.amount, title.status # "absent",
             title.period = titles[t].period, titles' = [titles EXCEPT ![t] = title]
      PROVE  Within(u)
  <2>1. /\ TitlesKept(u.period) /\ AbsentKept(u)
        /\ titles' \in [Titles -> Title] /\ \A n \in Titles : titles'[n].paid <= titles'[n].amount
    BY <1>1, <1>4, EditTitle
  <2> QED
    BY <1>1, <1>2, <2>1, NoRow, NoCheque DEF Within, RowTypes
<1>5. CASE u.op = "amount" /\ ChangeAmount(u) /\ titles' # titles
  <2> DEFINE s == IF titles[t].paid = 0 THEN titles[t].status
                  ELSE IF titles[t].paid = u.amount THEN "paid" ELSE "partially_paid"
             title == [titles[t] EXCEPT !.amount = u.amount, !.status = s]
  <2>1. titles[t].paid <= u.amount
    BY <1>5 DEF ChangeAmount
  <2>2. titles' = [titles EXCEPT ![t].amount = u.amount, ![t].status = s]
    BY <1>5, <1>1 DEF ChangeAmount, Title
  <2>3. s \in TitleStatuses /\ s # "absent"
    BY <1>1 DEF Title, TitleStatuses
  <2> HIDE DEF s
  <2>4. titles' = [titles EXCEPT ![t] = title]
    BY <2>2, <1>1 DEF Title
  <2>5. /\ title \in Title /\ title.paid <= title.amount /\ title.status # "absent"
        /\ title.period = titles[t].period
    BY <1>1, <2>1, <2>3 DEF Title
  <2> QED
    BY <1>4, <2>4, <2>5
<1>6. CASE u.op = "status" /\ ChangeStatus(u) /\ titles' # titles
  <2> DEFINE title == [titles[t] EXCEPT !.status = u.to]
  <2>1. <<titles[t].status, u.to>> \in Transitions
    BY <1>6 DEF ChangeStatus
  <2>2. u.to \in TitleStatuses /\ u.to # "absent"
    BY <2>1 DEF Transitions, TitleStatuses
  <2>3. titles' = [titles EXCEPT ![t] = title]
    BY <1>6, <1>1 DEF ChangeStatus, Title
  <2>4. /\ title \in Title /\ title.paid <= title.amount /\ title.status # "absent"
        /\ title.period = titles[t].period
    BY <1>1, <2>2 DEF Title
  <2> QED
    BY <1>4, <2>3, <2>4
<1>7. CASE u.op = "drop" /\ Drop(u) /\ titles' # titles
  <2> DEFINE title == [titles[t] EXCEPT !.deleted = TRUE]
  <2>1. titles' = [titles EXCEPT ![t] = title]
    BY <1>7, <1>1 DEF Drop, Title
  <2>2. /\ title \in Title /\ title.paid <= title.amount /\ title.status # "absent"
        /\ title.period = titles[t].period
    BY <1>1 DEF Title
  <2> QED
    BY <1>4, <2>1, <2>2
<1> QED
  BY <1>3, <1>5, <1>6, <1>7

\* A cheque clears or bounces: the entry it posts, its title, the cheque.
LEMMA ChequeWithin ==
    ASSUME RowTypes, NEW r \in Requests, call[r] \in UnitRow, Fits(call[r]),
           \/ call[r].op = "clear" /\ Clear(call[r])
           \/ call[r].op = "bounce" /\ Bounce(call[r])
    PROVE  Within(call[r])
<1> DEFINE u == call[r]
           c == u.id
           t == cheques[c].title
           x == cheques[c].amount
<1>1. /\ c \in Cheques /\ u.period \in Periods /\ Len(entries) \in Nat
      /\ cheques[c] \in Cheque /\ cheques \in [Cheques -> Cheque]
      /\ \A d \in Cheques : {cheques[d].cleared, cheques[d].bounced} \subseteq 0 .. Len(entries)
  BY DEF Fits, UnitRow, RowTypes
<1>2. t \in Titles \cup {None} /\ x \in Nat
  BY <1>1 DEF Cheque
<1>3. CASE UNCHANGED rowVars
  BY <1>1, <1>3, NoRow, NoTitle, NoCheque DEF Within, RowTypes, rowVars
<1>4. ASSUME NEW e \in EntryRow, e.period = u.period, e.of = 0, entries' = Append(entries, e),
             \/ titles' = titles
             \/ /\ t # None
                /\ \/ Payable(t, x) /\ titles' = Paying(t, x)
                   \/ Restorable(t, x) /\ titles' = Restoring(t, x),
             NEW cheque \in Cheque, cheque.cleared <= Len(entries) + 1,
             cheque.bounced <= Len(entries) + 1, cheques' = [cheques EXCEPT ![c] = cheque]
      PROVE  Within(u)
  <2>1. e.of <= Len(entries)
    BY <1>1, <1>4
  <2>2. /\ entries' \in Seq(EntryRow) /\ Len(entries') = Len(entries) + 1
        /\ \A i \in Ids' : entries'[i].of < i
        /\ EntriesKept(u.period)
    BY <1>4, <2>1, AppendRow
  <2>3. /\ TitlesKept(u.period) /\ AbsentKept(u)
        /\ titles' \in [Titles -> Title] /\ \A n \in Titles : titles'[n].paid <= titles'[n].amount
    BY <1>2, <1>4, NoTitle, PaymentEdit
  <2>4. /\ cheques' \in [Cheques -> Cheque]
        /\ \A d \in Cheques : {cheques'[d].cleared, cheques'[d].bounced} \subseteq 0 .. Len(entries')
    <3>1. cheque.cleared \in Nat /\ cheque.bounced \in Nat
      BY DEF Cheque
    <3> QED
      BY <1>1, <1>4, <2>2, <3>1
  <2> QED
    BY <2>2, <2>3, <2>4 DEF Within, RowTypes
<1>5. CASE u.op = "clear" /\ Clear(u) /\ ~UNCHANGED rowVars
  <2> DEFINE e == Entry(u.period, "in", x, t, 0, TRUE)
             cheque == [cheques[c] EXCEPT !.status = "cleared", !.cleared = Len(entries) + 1]
  <2>0. Len(entries) + 1 \in Nat
    BY <1>1
  <2>1. /\ t # None => Payable(t, x)
        /\ entries' = Append(entries, e)
        /\ titles' = IF t = None THEN titles ELSE Paying(t, x)
        /\ cheques' = [cheques EXCEPT ![c].status = "cleared", ![c].cleared = Len(entries) + 1]
    BY <1>5 DEF Clear
  <2>2. e \in EntryRow /\ e.period = u.period /\ e.of = 0
    BY <1>1, <1>2 DEF Entry, EntryRow
  <2>3. cheques' = [cheques EXCEPT ![c] = cheque]
    BY <1>1, <2>1 DEF Cheque
  <2>4. /\ cheque \in Cheque
        /\ cheque.cleared <= Len(entries) + 1 /\ cheque.bounced <= Len(entries) + 1
    <3>1. /\ cheques[c].cleared \in Nat /\ cheques[c].cleared <= Len(entries)
          /\ cheques[c].bounced \in Nat /\ cheques[c].bounced <= Len(entries)
      BY <1>1 DEF Cheque
    <3>2. cheque \in Cheque
      <4>1. cheques[c] \in Cheque
        BY <1>1
      <4>2. "cleared" \in ChequeStatuses /\ "bounced" \in ChequeStatuses
        BY DEF ChequeStatuses
      <4> QED
        BY <2>0, <4>1, <4>2 DEF Cheque
    <3> QED
      BY <1>1, <3>1, <3>2 DEF Cheque
  <2> HIDE DEF e, cheque
  <2> QED
    BY <1>4, <2>1, <2>2, <2>3, <2>4
<1>6. CASE u.op = "bounce" /\ Bounce(u) /\ ~UNCHANGED rowVars
  <2> DEFINE e == Entry(u.period, "out", x, None, 0, TRUE)
             cheque == [cheques[c] EXCEPT !.status = "bounced", !.bounced = Len(entries) + 1]
  <2>0. Len(entries) + 1 \in Nat
    BY <1>1
  <2>1. /\ t # None => Restorable(t, x)
        /\ entries' = Append(entries, e)
        /\ titles' = IF t = None THEN titles ELSE Restoring(t, x)
        /\ cheques' = [cheques EXCEPT ![c].status = "bounced", ![c].bounced = Len(entries) + 1]
    BY <1>6 DEF Bounce
  <2>2. e \in EntryRow /\ e.period = u.period /\ e.of = 0
    BY <1>1, <1>2 DEF Entry, EntryRow
  <2>3. cheques' = [cheques EXCEPT ![c] = cheque]
    BY <1>1, <2>1 DEF Cheque
  <2>4. /\ cheque \in Cheque
        /\ cheque.cleared <= Len(entries) + 1 /\ cheque.bounced <= Len(entries) + 1
    <3>1. /\ cheques[c].cleared \in Nat /\ cheques[c].cleared <= Len(entries)
          /\ cheques[c].bounced \in Nat /\ cheques[c].bounced <= Len(entries)
      BY <1>1 DEF Cheque
    <3>2. cheque \in Cheque
      <4>1. cheques[c] \in Cheque
        BY <1>1
      <4>2. "cleared" \in ChequeStatuses /\ "bounced" \in ChequeStatuses
        BY DEF ChequeStatuses
      <4> QED
        BY <2>0, <4>1, <4>2 DEF Cheque
    <3> QED
      BY <1>1, <3>1, <3>2 DEF Cheque
  <2> HIDE DEF e, cheque
  <2> QED
    BY <1>4, <2>1, <2>2, <2>3, <2>4
<1> QED
  BY <1>3, <1>5, <1>6

\* All writes.
LEMMA WriteWithin ==
    ASSUME RowTypes, NEW r \in Requests, call[r] \in UnitRow, Fits(call[r]), Write(r)
    PROVE  Within(call[r])
BY IssueWithin, CreateWithin, DeleteWithin, ReverseWithin, PayWithin, TitleWithin, ChequeWithin
   DEF Write

---------------------------------------------------------------------------
(* The invariant holds of each kind of step.                               *)

\* The idle unit.
LEMMA IdleUnit ==
    NoUnit \in UnitRow /\ Fits(NoUnit) /\ NoUnit.pc = "idle" /\ NoUnit.op = "none"
BY AmountsAssumption DEF NoUnit, UnitRow, Fits, TitleStatuses

\* Rows that another month's step leaves as they are keep a unit's names good.
LEMMA FitsKept ==
    ASSUME NEW p, NEW w, NEW u, EntriesKept(p), TitlesKept(p), AbsentKept(w), Fits(u),
           ~(w.op = "issue" /\ u.op = "issue" /\ w.id = u.id)
    PROVE  /\ u.op \in {"issue", "pay", "amount", "status", "drop"} => u.id \in Titles
           /\ u.op \in {"delete", "reverse"} => u.id \in Ids'
           /\ u.op \in {"clear", "bounce"} => u.id \in Cheques
           /\ u.op = "issue" => titles'[u.id].status = "absent"
           /\ u.op \in {"amount", "status", "drop"} =>
                  titles'[u.id].status # "absent" /\ titles'[u.id].period = u.period
           /\ u.op = "delete" => entries'[u.id].period = u.period
BY DEF Fits, EntriesKept, TitlesKept, AbsentKept

\* The initial state: nothing is there, nobody is at work.
LEMMA FirstState == Init => SnapshotInv
<1> SUFFICES ASSUME Init PROVE SnapshotInv
  OBVIOUS
<1>1. RowTypes
  BY AmountsAssumption
     DEF Init, RowTypes, Title, Cheque, EntryRow, TitleStatuses, ChequeStatuses, Ids
<1>2. TypeOK
  <2>1. call \in [Requests -> UnitRow]
    BY IdleUnit DEF Init
  <2>2. DOMAIN closes = Periods /\ closing.period = 0 /\ ops \in 0 .. MaxOps
    BY BoundsAssumption DEF Init, NoClose
  <2> QED
    BY <1>1, <2>1, <2>2 DEF TypeOK, RowTypes
<1>3. UnitsFit /\ OneIssuer /\ FoundOpen
  BY IdleUnit DEF Init, UnitsFit, OneIssuer, FoundOpen
<1> QED
  BY <1>2, <1>3 DEF SnapshotInv, Init, CloseHolds, SnapshotAgrees, Open

\* A step that leaves months and requests alone, and whose rows belong to none.
LEMMA QuietStep ==
    ASSUME SnapshotInv, RowTypes', EntriesKept(0), TitlesKept(0), AbsentKept(NoUnit),
           UNCHANGED <<closes, call, closing>>, ops' \in 0 .. MaxOps
    PROVE  SnapshotInv'
<1>1. TypeOK'
  BY DEF SnapshotInv, TypeOK, RowTypes
<1>2. UnitsFit'
  <2> SUFFICES ASSUME NEW q \in Requests PROVE Fits(call[q])'
    BY DEF UnitsFit
  <2>1. call'[q] = call[q] /\ Fits(call[q])
    BY DEF SnapshotInv, UnitsFit
  <2> QED
    BY <2>1, FitsKept, IdleUnit DEF Fits
<1>3. OneIssuer' /\ FoundOpen'
  BY DEF SnapshotInv, OneIssuer, FoundOpen, Open
<1>4. \A p \in Periods : Material(p)' = Material(p)
  BY MaterialElsewhere, AmountsAssumption
<1>5. CloseHolds'
  <2> SUFFICES ASSUME closing # NoClose PROVE CloseHolds'
    BY DEF CloseHolds
  <2> DEFINE p == closing.period
  <2>1. p \in Periods /\ Material(p)' = Material(p)
    BY <1>4 DEF SnapshotInv, CloseHolds
  <2> QED
    BY <2>1 DEF SnapshotInv, CloseHolds, Open
<1>6. SnapshotAgrees'
  BY <1>4 DEF SnapshotInv, SnapshotAgrees, Open
<1> QED
  BY <1>1, <1>2, <1>3, <1>5, <1>6 DEF SnapshotInv

\* The rows stay, and so does every snapshot.
LEMMA SameRows ==
    ASSUME UNCHANGED rowVars, NEW q
    PROVE  Material(q)' = Material(q)
BY DEF rowVars, Material, Aggregate, TitlesOf, EntriesOf, Stored, Live, Ids

\* A step of the requests alone: units that begin, enter or end.
LEMMA CallStep ==
    ASSUME SnapshotInv, NEW r \in Requests, NEW u \in UnitRow, Fits(u),
           UNCHANGED <<rowVars, closes, closing>>, ops' \in 0 .. MaxOps,
           call' = [call EXCEPT ![r] = u],
           u.op = "issue" =>
               \A q \in Requests : q # r => ~(call[q].op = "issue" /\ call[q].id = u.id),
           u.pc = "write" => Open(u.period) /\ closing.period # u.period
    PROVE  SnapshotInv'
<1>1. call \in [Requests -> UnitRow]
  BY DEF SnapshotInv, TypeOK
<1>2. TypeOK'
  BY <1>1 DEF SnapshotInv, TypeOK, rowVars, Ids
<1>3. UnitsFit'
  BY <1>1 DEF SnapshotInv, UnitsFit, Fits, rowVars, Ids
<1>4. OneIssuer' /\ FoundOpen'
  BY <1>1 DEF SnapshotInv, OneIssuer, FoundOpen, Open
<1>5. CloseHolds'
  <2> SUFFICES ASSUME closing # NoClose PROVE CloseHolds'
    BY DEF CloseHolds
  <2>1. Material(closing.period)' = Material(closing.period)
    BY SameRows DEF rowVars, Material, Aggregate, TitlesOf, EntriesOf, Stored, Live, Ids
  <2> QED
    BY <1>1, <2>1 DEF SnapshotInv, CloseHolds, Open
<1>6. SnapshotAgrees'
  BY SameRows DEF SnapshotInv, SnapshotAgrees, Open
<1> QED
  BY <1>2, <1>3, <1>4, <1>5, <1>6 DEF SnapshotInv

\* A write disturbs its own month only, which is open and which no close reads.
LEMMA WriteStep ==
    ASSUME SnapshotInv, NEW r \in Requests, Write(r)
    PROVE  SnapshotInv'
<1> DEFINE u == call[r]
<1>1. /\ u.pc = "write" /\ call' = [call EXCEPT ![r] = NoUnit]
      /\ UNCHANGED <<closes, closing, ops>>
  BY DEF Write
<1>2. call \in [Requests -> UnitRow] /\ RowTypes /\ Fits(u) /\ u \in UnitRow
  BY DEF SnapshotInv, TypeOK, RowTypes, UnitsFit
<1>3. RowTypes' /\ EntriesKept(u.period) /\ TitlesKept(u.period) /\ AbsentKept(u)
  BY <1>2, WriteWithin DEF Within
<1>4. TypeOK'
  BY <1>1, <1>2, <1>3, IdleUnit DEF SnapshotInv, TypeOK, RowTypes
<1>5. UnitsFit'
  <2> SUFFICES ASSUME NEW q \in Requests PROVE Fits(call[q])'
    BY DEF UnitsFit
  <2>1. CASE q = r
    BY <1>1, <1>2, <2>1, IdleUnit DEF Fits
  <2>2. CASE q # r
    <3>1. call'[q] = call[q] /\ Fits(call[q])
      BY <1>1, <1>2, <2>2 DEF SnapshotInv, UnitsFit
    <3>2. ~(u.op = "issue" /\ call[q].op = "issue" /\ u.id = call[q].id)
      BY <2>2 DEF SnapshotInv, OneIssuer
    <3> QED
      BY <1>3, <3>1, <3>2, FitsKept DEF Fits
  <2> QED
    BY <2>1, <2>2
<1>6. OneIssuer' /\ FoundOpen'
  BY <1>1, <1>2, IdleUnit DEF SnapshotInv, OneIssuer, FoundOpen, Open
<1>7. \A p \in Periods : p # u.period => Material(p)' = Material(p)
  BY <1>3, MaterialElsewhere
<1>8. CloseHolds'
  <2> SUFFICES ASSUME closing # NoClose PROVE CloseHolds'
    BY <1>1 DEF CloseHolds
  <2> DEFINE p == closing.period
  <2>1. p \in Periods /\ p # u.period
    BY <1>1 DEF SnapshotInv, CloseHolds
  <2>2. Material(p)' = Material(p)
    BY <1>1, <1>7, <2>1
  <2> QED
    BY <1>1, <1>2, <2>1, <2>2, IdleUnit DEF SnapshotInv, CloseHolds, Open
<1>9. SnapshotAgrees'
  <2>1. Open(u.period)
    BY <1>1 DEF SnapshotInv, FoundOpen
  <2> QED
    BY <1>1, <1>7, <2>1 DEF SnapshotInv, SnapshotAgrees, Open
<1> QED
  BY <1>4, <1>5, <1>6, <1>8, <1>9 DEF SnapshotInv

\* A close reads a month that nobody writes, and records what it has read.
LEMMA CloseSteps ==
    ASSUME SnapshotInv, Close \/ \E p \in Periods : ReadForClose(p) \/ Reopen(p)
    PROVE  SnapshotInv'
<1>1. UNCHANGED <<rowVars, call, ops>>
  BY DEF Close, ReadForClose, Reopen
<1>2. UnitsFit' /\ OneIssuer'
  BY <1>1 DEF SnapshotInv, UnitsFit, OneIssuer, Fits, rowVars, Ids
<1>3. ASSUME NEW p \in Periods, ReadForClose(p) PROVE SnapshotInv'
  <2>1. /\ closing' = [period |-> p, rows |-> Material(p)] /\ UNCHANGED closes
        /\ Open(p) /\ Alone(p)
    BY <1>3 DEF ReadForClose
  <2>2. Material(p)' = Material(p)
    BY <1>1, SameRows
  <2>3. TypeOK'
    BY <1>1, <2>1 DEF SnapshotInv, TypeOK, rowVars, Ids
  <2>4. CloseHolds'
    BY <1>1, <2>1, <2>2 DEF CloseHolds, Open, Alone
  <2>5. FoundOpen' /\ SnapshotAgrees'
    BY <1>1, <2>1, SameRows DEF SnapshotInv, FoundOpen, SnapshotAgrees, Open
  <2> QED
    BY <1>2, <2>3, <2>4, <2>5 DEF SnapshotInv
<1>4. CASE Close
  <2> DEFINE p == closing.period
  <2>1. /\ closing # NoClose /\ closing' = NoClose
        /\ closes' = [closes EXCEPT ![p] = closing.rows]
    BY <1>4 DEF Close
  <2>2. /\ p \in Periods /\ Open(p) /\ closing.rows = Material(p)
        /\ \A r \in Requests : ~(call[r].pc = "write" /\ call[r].period = p)
    BY <2>1 DEF SnapshotInv, CloseHolds
  <2>3. DOMAIN closes = Periods
    BY DEF SnapshotInv, TypeOK
  <2>4. closes'[p] = Material(p) /\ \A q \in Periods : q # p => closes'[q] = closes[q]
    BY <2>1, <2>2, <2>3
  <2>5. TypeOK' /\ CloseHolds'
    BY <1>1, <2>1 DEF SnapshotInv, TypeOK, CloseHolds, NoClose, rowVars, Ids
  <2>6. FoundOpen'
    BY <1>1, <2>2, <2>4 DEF SnapshotInv, FoundOpen, Open, TypeOK, UnitRow
  <2>7. SnapshotAgrees'
    BY <1>1, <2>4, SameRows DEF SnapshotInv, SnapshotAgrees, Open
  <2> QED
    BY <1>2, <2>5, <2>6, <2>7 DEF SnapshotInv
<1>5. ASSUME NEW p \in Periods, Reopen(p) PROVE SnapshotInv'
  <2>1. closes' = [closes EXCEPT ![p] = <<>>] /\ UNCHANGED closing
    BY <1>5 DEF Reopen
  <2>2. DOMAIN closes = Periods
    BY DEF SnapshotInv, TypeOK
  <2>3. closes'[p] = <<>> /\ \A q \in Periods : q # p => closes'[q] = closes[q]
    BY <2>1, <2>2
  <2>4. TypeOK'
    BY <1>1, <2>1 DEF SnapshotInv, TypeOK, rowVars, Ids
  <2>5. CloseHolds'
    <3> SUFFICES ASSUME closing # NoClose PROVE CloseHolds'
      BY <2>1 DEF CloseHolds
    <3>1. Material(closing.period)' = Material(closing.period)
      BY <1>1, <2>1 DEF rowVars, Material, Aggregate, TitlesOf, EntriesOf, Stored, Live, Ids
    <3> QED
      BY <1>1, <2>1, <2>3, <3>1 DEF SnapshotInv, CloseHolds, Open
  <2>6. FoundOpen'
    BY <1>1, <2>3 DEF SnapshotInv, FoundOpen, Open, TypeOK, UnitRow
  <2>7. SnapshotAgrees'
    BY <1>1, <2>3, SameRows DEF SnapshotInv, SnapshotAgrees, Open
  <2> QED
    BY <1>2, <2>4, <2>5, <2>6, <2>7 DEF SnapshotInv
<1> QED
  BY <1>3, <1>4, <1>5

\* The unit a request begins.
LEMMA UnitFields ==
    ASSUME NEW op \in {"issue", "create", "delete", "reverse", "pay", "amount", "status",
                       "drop", "clear", "bounce"},
           NEW id \in Titles \cup Cheques \cup Nat \cup {None}, NEW p \in Periods
    PROVE  LET u == Unit(op, id, p)
           IN  /\ u \in UnitRow /\ u.pc = "enter" /\ u.op = op /\ u.id = id /\ u.period = p
               /\ \A x \in Nat : LET w == [u EXCEPT !.amount = x]
                                IN  /\ w \in UnitRow /\ w.pc = "enter" /\ w.op = op
                                    /\ w.id = id /\ w.period = p
               /\ \A to \in TitleStatuses : LET w == [u EXCEPT !.to = to]
                                           IN  /\ w \in UnitRow /\ w.pc = "enter" /\ w.op = op
                                               /\ w.id = id /\ w.period = p
<1> DEFINE u == Unit(op, id, p)
<1>1. u = [pc |-> "enter", op |-> op, id |-> id, period |-> p, amount |-> 0, to |-> "none"]
  BY DEF Unit
<1>2. u \in UnitRow /\ u.pc = "enter" /\ u.op = op /\ u.id = id /\ u.period = p
  BY <1>1 DEF UnitRow
<1> HIDE DEF u
<1>3. ASSUME NEW x \in Nat
      PROVE  LET w == [u EXCEPT !.amount = x]
             IN  w \in UnitRow /\ w.pc = "enter" /\ w.op = op /\ w.id = id /\ w.period = p
  BY <1>2 DEF UnitRow
<1>4. ASSUME NEW to \in TitleStatuses
      PROVE  LET w == [u EXCEPT !.to = to]
             IN  w \in UnitRow /\ w.pc = "enter" /\ w.op = op /\ w.id = id /\ w.period = p
  BY <1>2 DEF UnitRow
<1> QED
  BY <1>2, <1>3, <1>4 DEF u

\* A request that begins a unit whose names are good.
LEMMA BeginStep ==
    ASSUME SnapshotInv, NEW r \in Requests, NEW u \in UnitRow, Fits(u), Begin(r, u),
           u.pc = "enter", u.op = "issue" => \A q \in Requests : call[q].id # u.id
    PROVE  SnapshotInv'
<1>1. /\ UNCHANGED <<rowVars, closes, closing>> /\ call' = [call EXCEPT ![r] = u]
      /\ ops' = ops \/ (ops < MaxOps /\ ops' = ops + 1)
  BY DEF Begin, Counted
<1>2. ops' \in 0 .. MaxOps
  BY <1>1, BoundsAssumption DEF SnapshotInv, TypeOK
<1> QED
  BY <1>1, <1>2, CallStep

\* What a request reads before it begins makes its unit's names good.
LEMMA TitleBegins ==
    ASSUME SnapshotInv, NEW r \in Requests, NEW t \in Titles, BeginTitle(r, t)
    PROVE  SnapshotInv'
<1>1. titles[t].period \in Periods /\ Parts \subseteq Nat /\ Amounts \subseteq Nat
  BY AmountsAssumption DEF SnapshotInv, TypeOK, Title
<1>2. ASSUME NEW p \in Periods, NEW x \in Amounts, BeginIssue(r, t, p, x) PROVE SnapshotInv'
  <2> DEFINE u == [Unit("issue", t, p) EXCEPT !.amount = x]
  <2>1. u \in UnitRow /\ u.pc = "enter" /\ u.op = "issue" /\ u.id = t
    BY <1>1, UnitFields
  <2>2. /\ titles[t].status = "absent" /\ Begin(r, u)
        /\ \A q \in Requests : call[q].id # t
    BY <1>2 DEF BeginIssue, Ask
  <2> HIDE DEF u
  <2>3. Fits(u)
    BY <2>1, <2>2 DEF Fits
  <2> QED
    BY <2>1, <2>2, <2>3, BeginStep
<1>3. ASSUME NEW p \in Periods, NEW x \in Parts, BeginPay(r, t, p, x) PROVE SnapshotInv'
  <2> DEFINE u == [Unit("pay", t, p) EXCEPT !.amount = x]
  <2>1. u \in UnitRow /\ u.pc = "enter" /\ u.op = "pay" /\ u.id = t
    BY <1>1, UnitFields
  <2>2. Begin(r, u)
    BY <1>3 DEF BeginPay, Ask
  <2> HIDE DEF u
  <2>3. Fits(u)
    BY <2>1 DEF Fits
  <2> QED
    BY <2>1, <2>2, <2>3, BeginStep
<1>4. ASSUME NEW x \in Amounts, BeginAmount(r, t, x) PROVE SnapshotInv'
  <2> DEFINE u == [Unit("amount", t, titles[t].period) EXCEPT !.amount = x]
  <2>1. /\ u \in UnitRow /\ u.pc = "enter" /\ u.op = "amount" /\ u.id = t
        /\ u.period = titles[t].period
    BY <1>1, UnitFields
  <2>2. titles[t].status # "absent" /\ Begin(r, u)
    BY <1>4 DEF BeginAmount, Ask, Stored
  <2> HIDE DEF u
  <2>3. Fits(u)
    BY <2>1, <2>2 DEF Fits
  <2> QED
    BY <2>1, <2>2, <2>3, BeginStep
<1>5. ASSUME NEW to \in TitleStatuses, BeginStatus(r, t, to) PROVE SnapshotInv'
  <2> DEFINE u == [Unit("status", t, titles[t].period) EXCEPT !.to = to]
  <2>1. /\ u \in UnitRow /\ u.pc = "enter" /\ u.op = "status" /\ u.id = t
        /\ u.period = titles[t].period
    BY <1>1, UnitFields
  <2>2. titles[t].status # "absent" /\ Begin(r, u)
    BY <1>5 DEF BeginStatus, Ask, Stored
  <2> HIDE DEF u
  <2>3. Fits(u)
    BY <2>1, <2>2 DEF Fits
  <2> QED
    BY <2>1, <2>2, <2>3, BeginStep
<1>6. CASE BeginDrop(r, t)
  <2> DEFINE u == Unit("drop", t, titles[t].period)
  <2>1. /\ u \in UnitRow /\ u.pc = "enter" /\ u.op = "drop" /\ u.id = t
        /\ u.period = titles[t].period
    BY <1>1, UnitFields
  <2>2. titles[t].status # "absent" /\ Begin(r, u)
    BY <1>6 DEF BeginDrop, Ask, Stored
  <2> HIDE DEF u
  <2>3. Fits(u)
    BY <2>1, <2>2 DEF Fits
  <2> QED
    BY <2>1, <2>2, <2>3, BeginStep
<1> QED
  BY <1>2, <1>3, <1>4, <1>5, <1>6 DEF BeginTitle

\* The same of entries and cheques.
LEMMA OtherBegins ==
    ASSUME SnapshotInv, NEW r \in Requests,
           BeginEntry(r) \/ \E c \in Cheques : BeginClear(r, c) \/ BeginBounce(r, c)
    PROVE  SnapshotInv'
<1>1. Today \in Periods /\ Parts \subseteq Nat
  BY AmountsAssumption
<1>2. ASSUME NEW p \in Periods, NEW x \in Parts, BeginCreate(r, p, x) PROVE SnapshotInv'
  <2> DEFINE u == [Unit("create", None, p) EXCEPT !.amount = x]
  <2>1. u \in UnitRow /\ u.pc = "enter" /\ u.op = "create"
    BY SMTT(30), <1>1, UnitFields
  <2>2. Begin(r, u)
    BY <1>2 DEF BeginCreate, Ask
  <2> HIDE DEF u
  <2>3. Fits(u)
    BY <2>1 DEF Fits
  <2> QED
    BY <2>1, <2>2, <2>3, BeginStep
<1>3. ASSUME NEW i \in Ids, BeginDelete(r, i) PROVE SnapshotInv'
  <2> DEFINE u == Unit("delete", i, entries[i].period)
  <2>1. entries[i].period \in Periods /\ i \in Nat
    <3>1. entries[i] \in EntryRow /\ i \in Nat
      BY DEF SnapshotInv, TypeOK, Ids
    <3> QED
      BY <3>1 DEF EntryRow
  <2>2. /\ u \in UnitRow /\ u.pc = "enter" /\ u.op = "delete" /\ u.id = i
        /\ u.period = entries[i].period
    BY <2>1, UnitFields
  <2>3. Begin(r, u)
    BY <1>3 DEF BeginDelete, Ask
  <2> HIDE DEF u
  <2>4. Fits(u)
    BY <2>2 DEF Fits
  <2> QED
    BY <2>2, <2>3, <2>4, BeginStep
<1>4. ASSUME NEW i \in Ids, BeginReverse(r, i) PROVE SnapshotInv'
  <2> DEFINE u == Unit("reverse", i, Today)
  <2>1. i \in Nat
    BY DEF Ids
  <2>2. u \in UnitRow /\ u.pc = "enter" /\ u.op = "reverse" /\ u.id = i
    BY <1>1, <2>1, UnitFields
  <2>3. Begin(r, u)
    BY <1>4 DEF BeginReverse, Ask
  <2> HIDE DEF u
  <2>4. Fits(u)
    BY <2>2 DEF Fits
  <2> QED
    BY <2>2, <2>3, <2>4, BeginStep
<1>5. ASSUME NEW c \in Cheques, NEW op \in {"clear", "bounce"}, Begin(r, Unit(op, c, Today))
      PROVE  SnapshotInv'
  <2> DEFINE u == Unit(op, c, Today)
  <2>1. u \in UnitRow /\ u.pc = "enter" /\ u.op = op /\ u.id = c
    BY <1>1, UnitFields
  <2>2. Begin(r, u)
    BY <1>5
  <2> HIDE DEF u
  <2>3. Fits(u)
    BY <2>1 DEF Fits
  <2> QED
    BY <2>1, <2>2, <2>3, BeginStep
<1> QED
  BY <1>2, <1>3, <1>4, <1>5 DEF BeginEntry, BeginClear, BeginBounce

\* A unit is granted its lock, or gives up.
LEMMA EnterStep ==
    ASSUME SnapshotInv, NEW r \in Requests, Enter(r) \/ RollBack(r)
    PROVE  SnapshotInv'
<1>1. /\ UNCHANGED <<rowVars, closes, closing>> /\ ops' \in 0 .. MaxOps
      /\ call[r] \in UnitRow /\ Fits(call[r])
  BY DEF Enter, RollBack, SnapshotInv, TypeOK, UnitsFit
<1>2. CASE call' = [call EXCEPT ![r] = NoUnit]
  BY <1>1, <1>2, IdleUnit, CallStep
<1>3. CASE /\ call' = [call EXCEPT ![r].pc = "write"]
           /\ Granted(call[r]) /\ Open(call[r].period)
  <2> DEFINE u == [call[r] EXCEPT !.pc = "write"]
  <2>1. /\ u \in UnitRow /\ u.op = call[r].op /\ u.id = call[r].id
        /\ u.period = call[r].period
    BY <1>1 DEF UnitRow
  <2>2. call' = [call EXCEPT ![r] = u]
    BY <1>3
  <2> HIDE DEF u
  <2>3. Fits(u)
    BY <1>1, <2>1 DEF Fits
  <2>4. u.op = "issue" =>
            \A q \in Requests : q # r => ~(call[q].op = "issue" /\ call[q].id = u.id)
    BY <2>1 DEF SnapshotInv, OneIssuer
  <2>5. Open(u.period) /\ closing.period # u.period
    BY <1>3, <2>1 DEF Granted
  <2> QED
    BY <1>1, <2>1, <2>2, <2>3, <2>4, <2>5, CallStep
<1> QED
  BY <1>2, <1>3 DEF Enter, RollBack

\* Reconciling an entry changes no amount.
LEMMA ReconcileStep ==
    ASSUME SnapshotInv, NEW i \in Ids, Reconcile(i)
    PROVE  SnapshotInv'
<1>1. /\ entries' = [entries EXCEPT ![i].reconciled = ~entries[i].reconciled]
      /\ UNCHANGED <<titles, cheques, closes, call, closing>>
      /\ ops < MaxOps /\ ops' = ops + 1
  BY DEF Reconcile, Counted
<1>2. RowTypes /\ entries \in Seq(EntryRow) /\ Len(entries) \in Nat /\ entries[i] \in EntryRow
  BY DEF SnapshotInv, TypeOK, RowTypes, Ids
<1> DEFINE b == ~entries[i].reconciled
<1>3. b \in BOOLEAN
  OBVIOUS
<1> HIDE DEF b
<1>4. [entries[i] EXCEPT !.reconciled = b] \in EntryRow
  BY <1>2, <1>3 DEF EntryRow
<1>5. entries' = [entries EXCEPT ![i] = [entries[i] EXCEPT !.reconciled = b]]
  BY <1>1, <1>2 DEF b
<1>6. entries' \in Seq(EntryRow) /\ Len(entries') = Len(entries) /\ Ids' = Ids
  BY <1>2, <1>4, <1>5 DEF Ids
<1>7. \A j \in Ids : /\ j # i => entries'[j] = entries[j]
                     /\ entries'[j].of = entries[j].of
                     /\ entries'[j].period = entries[j].period
                     /\ entries'[j].dir = entries[j].dir
                     /\ entries'[j].amount = entries[j].amount
                     /\ entries'[j].deleted = entries[j].deleted
  BY <1>2, <1>5 DEF Ids, EntryRow
<1>8. EntriesKept(0)
  BY <1>6, <1>7 DEF EntriesKept
<1>9. TitlesKept(0) /\ AbsentKept(NoUnit)
  BY <1>1, <1>2, NoTitle
<1>10. RowTypes'
  BY <1>1, <1>2, <1>6, <1>7 DEF RowTypes
<1>11. ops' \in 0 .. MaxOps
  BY <1>1, BoundsAssumption DEF SnapshotInv, TypeOK
<1> QED
  BY <1>1, <1>8, <1>9, <1>10, <1>11, QuietStep

\* The transitions of a cheque that move no money.
LEMMA ChequeStep ==
    ASSUME SnapshotInv, NEW c \in Cheques, OnCheque(c)
    PROVE  SnapshotInv'
<1>1. RowTypes /\ cheques[c] \in Cheque /\ Amounts \subseteq Nat /\ cheques \in [Cheques -> Cheque]
  BY AmountsAssumption DEF SnapshotInv, TypeOK, RowTypes
<1>2. ASSUME NEW cheque \in Cheque, SetCheque(c, cheque),
             cheque.cleared = cheques[c].cleared, cheque.bounced = cheques[c].bounced
      PROVE  SnapshotInv'
  <2>1. /\ cheques' = [cheques EXCEPT ![c] = cheque]
        /\ UNCHANGED <<titles, entries, closes, call, closing, ops>>
    BY <1>2 DEF SetCheque
  <2>2. RowTypes'
    BY <1>1, <1>2, <2>1 DEF RowTypes, Ids
  <2>3. EntriesKept(0) /\ TitlesKept(0) /\ AbsentKept(NoUnit)
    BY <1>1, <2>1, NoRow, NoTitle
  <2> QED
    BY <2>1, <2>2, <2>3, QuietStep DEF SnapshotInv, TypeOK
<1>3. ASSUME NEW t \in Titles \cup {None}, NEW x \in Amounts, Register(c, t, x)
      PROVE  SnapshotInv'
  <2> DEFINE q == [cheques[c] EXCEPT !.status = "registered"]
             w == [q EXCEPT !.title = t]
             cheque == [w EXCEPT !.amount = x]
  <2>1. q \in Cheque /\ q.cleared = cheques[c].cleared /\ q.bounced = cheques[c].bounced
    BY <1>1 DEF Cheque, ChequeStatuses
  <2>2. SetCheque(c, cheque)
    BY <1>3 DEF Register
  <2> HIDE DEF q
  <2>3. w \in Cheque /\ w.cleared = q.cleared /\ w.bounced = q.bounced
    BY <2>1 DEF Cheque
  <2> HIDE DEF w
  <2>4. cheque \in Cheque /\ cheque.cleared = w.cleared /\ cheque.bounced = w.bounced
    BY <1>1, <2>3 DEF Cheque
  <2> HIDE DEF cheque
  <2> QED
    BY <1>2, <2>1, <2>2, <2>3, <2>4
<1>4. ASSUME NEW t \in Titles \cup {None}, SetCheque(c, [cheques[c] EXCEPT !.title = t])
      PROVE  SnapshotInv'
  <2> DEFINE cheque == [cheques[c] EXCEPT !.title = t]
  <2>1. /\ cheque \in Cheque
        /\ cheque.cleared = cheques[c].cleared /\ cheque.bounced = cheques[c].bounced
    BY <1>1 DEF Cheque
  <2>2. SetCheque(c, cheque)
    BY <1>4
  <2> HIDE DEF cheque
  <2> QED
    BY <1>2, <2>1, <2>2
<1>5. ASSUME NEW s \in ChequeStatuses, SetCheque(c, [cheques[c] EXCEPT !.status = s])
      PROVE  SnapshotInv'
  <2> DEFINE cheque == [cheques[c] EXCEPT !.status = s]
  <2>1. /\ cheque \in Cheque
        /\ cheque.cleared = cheques[c].cleared /\ cheque.bounced = cheques[c].bounced
    BY <1>1 DEF Cheque
  <2>2. SetCheque(c, cheque)
    BY <1>5
  <2> HIDE DEF cheque
  <2> QED
    BY <1>2, <2>1, <2>2
<1>6. CASE SetCheque(c, [cheques[c] EXCEPT !.deleted = TRUE])
  <2> DEFINE cheque == [cheques[c] EXCEPT !.deleted = TRUE]
  <2>1. /\ cheque \in Cheque
        /\ cheque.cleared = cheques[c].cleared /\ cheque.bounced = cheques[c].bounced
    BY <1>1 DEF Cheque
  <2>2. SetCheque(c, cheque)
    BY <1>6
  <2> HIDE DEF cheque
  <2> QED
    BY <1>2, <2>1, <2>2
<1>7. {"deposited", "cancelled", "bounced"} \subseteq ChequeStatuses
  BY DEF ChequeStatuses
<1> QED
  BY <1>3, <1>4, <1>5, <1>6, <1>7
     DEF OnCheque, Link, Unlink, Deposit, Withdraw, ReturnUnpaid

\* Every step keeps the invariant.
LEMMA SnapshotInvIsInductive == SnapshotInv /\ [Next]_vars => SnapshotInv'
<1> SUFFICES ASSUME SnapshotInv, [Next]_vars PROVE SnapshotInv'
  OBVIOUS
<1>1. ASSUME NEW r \in Requests, NEW t \in Titles, BeginTitle(r, t) PROVE SnapshotInv'
  BY <1>1, TitleBegins
<1>2. ASSUME NEW r \in Requests,
             BeginEntry(r) \/ \E c \in Cheques : BeginClear(r, c) \/ BeginBounce(r, c)
      PROVE  SnapshotInv'
  BY <1>2, OtherBegins
<1>3. ASSUME NEW r \in Requests, Enter(r) \/ RollBack(r) PROVE SnapshotInv'
  BY <1>3, EnterStep
<1>4. ASSUME NEW r \in Requests, Write(r) PROVE SnapshotInv'
  BY <1>4, WriteStep
<1>5. ASSUME NEW i \in Ids, Reconcile(i) PROVE SnapshotInv'
  BY <1>5, ReconcileStep
<1>6. ASSUME NEW c \in Cheques, OnCheque(c) PROVE SnapshotInv'
  BY <1>6, ChequeStep
<1>7. CASE Close \/ \E p \in Periods : ReadForClose(p) \/ Reopen(p)
  BY <1>7, CloseSteps
<1>8. CASE UNCHANGED vars
  <2>1. UNCHANGED <<titles, entries, cheques, closes, call, closing, ops>> /\ RowTypes
    BY <1>8 DEF vars, rowVars, SnapshotInv, TypeOK, RowTypes
  <2>2. RowTypes' /\ EntriesKept(0) /\ TitlesKept(0) /\ AbsentKept(NoUnit)
    BY <2>1, NoRow, NoTitle DEF RowTypes, Ids
  <2> QED
    BY <2>1, <2>2, QuietStep DEF SnapshotInv, TypeOK
<1> QED
  BY <1>1, <1>2, <1>3, <1>4, <1>5, <1>6, <1>7, <1>8 DEF Next

\* The invariant holds in every state.
THEOREM SnapshotInvariant == Spec => []SnapshotInv
BY FirstState, SnapshotInvIsInductive, PTL DEF Spec

---------------------------------------------------------------------------
(* What follows from it.                                                   *)

\* Every variable holds values of its table's kind, no title is overpaid, and a
\* row refers to rows that were there before it.
THEOREM SettlementTypeCorrect == Spec => []TypeOK
<1>1. SnapshotInv => TypeOK
  BY DEF SnapshotInv
<1> QED
  BY <1>1, SnapshotInvariant, PTL

\* The snapshot of a closed month is what its rows give at any later time.
THEOREM SnapshotStays == Spec => []SnapshotAgrees
<1>1. SnapshotInv => SnapshotAgrees
  BY DEF SnapshotInv
<1> QED
  BY <1>1, SnapshotInvariant, PTL

---------------------------------------------------------------------------
(* The second invariant: what is paid of a title, and what posted a row.   *)

\* The entries of clearings that have bounced.
Undone == {cheques[c].cleared : c \in {d \in Cheques : cheques[d].status = "bounced"}}

StatusFits(title) ==
    IF title.paid = 0 THEN title.status \notin {"paid", "partially_paid"}
    ELSE title.status = IF title.paid = title.amount THEN "paid" ELSE "partially_paid"

TitleFits(t) == titles[t].paid = Total(entries, Settling(t)) /\ StatusFits(titles[t])

TitlesFit == \A t \in Titles : TitleFits(t)

\* A row of a title is neither deleted nor a counter-entry, and a cheque's row is
\* neither reversed nor a reversal.
EntryFits(i) ==
    /\ entries[i].title # None =>
           ~entries[i].deleted /\ entries[i].of = 0 /\ entries[i].amount > 0
    /\ entries[i].of # 0 => ~entries[i].check /\ ~entries[entries[i].of].check

EntriesFit == \A i \in Ids : EntryFits(i)

\* A counter-entry is the only one of a live row.
CounterStands ==
    \A i \in Ids : Live(i) /\ entries[i].of # 0 =>
        Live(entries[i].of) /\ Reversals(entries[i].of) = {i}

\* The row a cheque has posted is there, and says what the cheque says.
Posted(i, title, amount) ==
    /\ Live(i) /\ entries[i].check /\ entries[i].of = 0
    /\ entries[i].title = title /\ entries[i].amount = amount

ChequeFits(cheque) ==
    /\ cheque.cleared # 0 => Posted(cheque.cleared, cheque.title, cheque.amount)
    /\ cheque.bounced # 0 => Posted(cheque.bounced, None, cheque.amount)
    /\ cheque.deleted => cheque.status = "registered"
    /\ cheque.status # "absent" => cheque.amount > 0
    /\ cheque.status = "cleared" => cheque.cleared # 0 /\ cheque.bounced = 0
    /\ cheque.status = "bounced" => (cheque.cleared = 0 <=> cheque.bounced = 0)
    /\ cheque.status \notin {"cleared", "bounced"} => cheque.cleared = 0 /\ cheque.bounced = 0

ChequesFit == \A c \in Cheques : ChequeFits(cheques[c])

\* A live row by cheque is a cheque's, and no two cheques have cleared with one row.
ChequeOf ==
    \A i \in Ids : ~entries[i].deleted /\ entries[i].check =>
        \E c \in Cheques : i \in {cheques[c].cleared, cheques[c].bounced}

OwnClearing ==
    \A c, d \in Cheques :
        cheques[c].cleared = cheques[d].cleared /\ cheques[c].cleared # 0 => c = d

RowsFit == EntriesFit /\ CounterStands /\ ChequesFit /\ ChequeOf /\ OwnClearing

\* A unit reverses a row that is no counter-entry and no cheque's, which no later
\* step can make it, and pays something.
UnitFits(u) ==
    /\ u.op = "reverse" => entries[u.id].of = 0 /\ ~entries[u.id].check
    /\ u.op = "pay" => u.amount > 0

CallsFit == \A r \in Requests : UnitFits(call[r])

MoneyInv == RowsFit /\ TitlesFit /\ CallsFit

---------------------------------------------------------------------------
(* The rows that settle a title, after a step.                             *)

\* The ids of the entries are the numbers of their places.
LEMMA IdsAre ==
    ASSUME RowTypes
    PROVE  /\ Len(entries) \in Nat /\ IsFiniteSet(Ids)
           /\ \A i \in Ids : /\ i \in Nat /\ i # 0 /\ i <= Len(entries)
                             /\ entries[i] \in EntryRow /\ entries[i].amount \in Nat
                             /\ entries[i].of \in Nat /\ entries[i].of < i
                             /\ entries[i].of # 0 => entries[i].of \in Ids
<1>1. Len(entries) \in Nat
  BY DEF RowTypes
<1>2. IsFiniteSet(Ids)
  <2>1. 1 \in Int /\ Len(entries) \in Int
    BY <1>1
  <2> QED
    BY <2>1, FS_Interval DEF Ids
<1>3. ASSUME NEW i \in Ids
      PROVE  /\ i \in Nat /\ i # 0 /\ i <= Len(entries)
             /\ entries[i] \in EntryRow /\ entries[i].of < i
  BY <1>1 DEF RowTypes, Ids
<1>4. ASSUME NEW i \in Ids
      PROVE  entries[i].amount \in Nat /\ entries[i].of \in Nat
  BY <1>3 DEF EntryRow
<1>5. ASSUME NEW i \in Ids, entries[i].of # 0
      PROVE  entries[i].of \in Ids
  BY <1>1, <1>3, <1>4, <1>5 DEF Ids
<1> QED
  BY <1>1, <1>2, <1>3, <1>4, <1>5

\* What settles a title.
LEMMA SettlingIs ==
    ASSUME NEW t, NEW i
    PROVE  /\ i \in Settling(t) <=> /\ i \in Ids /\ ~entries[i].deleted /\ entries[i].title = t
                                    /\ Reversals(i) = {} /\ i \notin Undone
           /\ i \in Settling(t)' <=> /\ i \in Ids' /\ ~entries'[i].deleted
                                     /\ entries'[i].title = t
                                     /\ Reversals(i)' = {} /\ i \notin Undone'
BY DEF Settling, Live, Undone

\* The id of the row that is appended next.
Fresh == Len(entries) + 1

\* A row is appended.
LEMMA Appended ==
    ASSUME RowTypes, NEW e \in EntryRow, ~e.deleted, entries' = Append(entries, e)
    PROVE  /\ Fresh \in Nat /\ Fresh # 0 /\ Fresh \notin Ids /\ Fresh \notin Undone
           /\ Reversals(Fresh) = {} /\ Ids' = Ids \cup {Fresh} /\ entries'[Fresh] = e
           /\ \A i \in Ids : entries'[i] = entries[i]
           /\ \A i : Reversals(i)' = IF e.of = i THEN Reversals(i) \cup {Fresh}
                                                 ELSE Reversals(i)
<1> PICK n : n = Len(entries) + 1
  OBVIOUS
<1>1. Len(entries) \in Nat /\ entries \in Seq(EntryRow)
  BY DEF RowTypes
<1>2. n \in Nat /\ n # 0 /\ n \notin Ids
  BY <1>1 DEF Ids
<1>3. /\ Len(entries') = n /\ entries'[n] = e
      /\ \A i \in 1 .. Len(entries) : entries'[i] = entries[i]
  BY <1>1
<1>4. Ids' = Ids \cup {n} /\ \A i \in Ids : entries'[i] = entries[i]
  BY <1>1, <1>3 DEF Ids
<1>5. n \notin Undone
  <2>1. \A c \in Cheques : cheques[c].cleared # n
    BY <1>1 DEF RowTypes
  <2> QED
    BY <2>1 DEF Undone
<1>6. Reversals(n) = {}
  <2>1. \A i \in Ids : entries[i].of # n
    BY IdsAre
  <2> QED
    BY <2>1 DEF Reversals
<1>7. ASSUME NEW i
      PROVE  Reversals(i)' = IF e.of = i THEN Reversals(i) \cup {n} ELSE Reversals(i)
  <2>1. \A j : j \in Reversals(i)' <=> j \in Ids' /\ ~entries'[j].deleted /\ entries'[j].of = i
    BY DEF Reversals, Live
  <2>2. \A j : j \in Reversals(i) <=> j \in Ids /\ ~entries[j].deleted /\ entries[j].of = i
    BY DEF Reversals, Live
  <2>3. \A j : j \in Reversals(i)' <=> j \in Reversals(i) \/ (j = n /\ e.of = i)
    BY <1>2, <1>3, <1>4, <2>1, <2>2
  <2> QED
    BY <2>3
<1>8. n = Fresh
  BY DEF Fresh
<1> QED
  BY <1>2, <1>3, <1>4, <1>5, <1>6, <1>7, <1>8

\* The clearings the step takes back are those of the set X.
TakesBack(X) == \A i : i \in Undone' <=> i \in Undone \/ i \in X

\* The row e settles its title, and the row it reverses or whose clearing it
\* takes back settles nothing any more.
Settles(e, X, t) ==
    /\ Settling(t)' = (Settling(t) \ (X \cup {e.of})) \cup (IF e.title = t THEN {Fresh} ELSE {})
    /\ Fresh \notin Settling(t)
    /\ \A i \in Settling(t) : entries'[i].amount = entries[i].amount

LEMMA AppendSettles ==
    ASSUME RowTypes, NEW e \in EntryRow, ~e.deleted, e.of <= Len(entries),
           entries' = Append(entries, e), NEW X, Fresh \notin X, TakesBack(X), NEW t
    PROVE  Settles(e, X, t)
<1> PICK n : n = Fresh
  OBVIOUS
<1>0. n = Len(entries) + 1 /\ \A i : i \in Undone' <=> i \in Undone \/ i \in X
  BY DEF Fresh, TakesBack
<1>1. /\ n \in Nat /\ n \notin Ids /\ n \notin Undone /\ Reversals(n) = {}
      /\ Ids' = Ids \cup {n} /\ entries'[n] = e
      /\ \A i \in Ids : entries'[i] = entries[i]
      /\ \A i : Reversals(i)' = IF e.of = i THEN Reversals(i) \cup {n} ELSE Reversals(i)
  BY Appended
<1>2. e.of # n
  BY <1>0, IdsAre DEF EntryRow
<1>3. \A i : i \in Settling(t) <=> /\ i \in Ids /\ ~entries[i].deleted /\ entries[i].title = t
                                   /\ Reversals(i) = {} /\ i \notin Undone
  BY SettlingIs
<1>4. \A i : i \in Settling(t)' <=>
                 /\ i \in Ids' /\ ~entries'[i].deleted /\ entries'[i].title = t
                 /\ Reversals(i)' = {} /\ i \notin Undone'
  BY SettlingIs
<1>5. ASSUME NEW i, i # n
      PROVE  i \in Settling(t)' <=> i \in Settling(t) /\ i \notin X /\ i # e.of
  <2>1. Reversals(i)' = {} <=> Reversals(i) = {} /\ i # e.of
    BY <1>1
  <2>2. i \in Ids' <=> i \in Ids
    BY <1>1, <1>5
  <2>3. i \in Ids => entries'[i] = entries[i]
    BY <1>1
  <2>4. i \in Undone' <=> i \in Undone \/ i \in X
    BY <1>0
  <2>5. i \notin Ids => i \notin Settling(t) /\ i \notin Settling(t)'
    BY <1>3, <1>4, <2>2
  <2>6. ASSUME i \in Ids
        PROVE  i \in Settling(t)' <=> i \in Settling(t) /\ i \notin X /\ i # e.of
    <3>1. i \in Settling(t)' <=> /\ ~entries[i].deleted /\ entries[i].title = t
                                 /\ Reversals(i) = {} /\ i # e.of
                                 /\ i \notin Undone /\ i \notin X
      BY <1>4, <2>1, <2>2, <2>3, <2>4, <2>6
    <3>2. i \in Settling(t) <=> /\ ~entries[i].deleted /\ entries[i].title = t
                                /\ Reversals(i) = {} /\ i \notin Undone
      BY <1>3, <2>6
    <3> QED
      BY <3>1, <3>2
  <2> QED
    BY <2>5, <2>6
<1>6. n \in Settling(t)' <=> e.title = t
  <2>1. Reversals(n)' = {}
    BY <1>1, <1>2
  <2>2. n \notin Undone'
    BY <1>0, <1>1
  <2>3. n \in Settling(t)' <=> /\ n \in Ids' /\ ~entries'[n].deleted /\ entries'[n].title = t
                               /\ Reversals(n)' = {} /\ n \notin Undone'
    BY <1>4
  <2> QED
    BY <1>1, <2>1, <2>2, <2>3
<1>7. n \notin Settling(t) /\ \A i \in Settling(t) : entries'[i].amount = entries[i].amount
  BY <1>1, <1>3
<1>8. \A i : i \in Settling(t)' <=> \/ i \in Settling(t) /\ i \notin X \cup {e.of}
                                    \/ i = n /\ e.title = t
  BY <1>2, <1>5, <1>6, <1>7
<1>9. Settling(t)' = (Settling(t) \ (X \cup {e.of})) \cup (IF e.title = t THEN {n} ELSE {})
  BY <1>8
<1> QED
  BY <1>7, <1>9 DEF Settles

\* What stays of the rows when none is added: a row of no title that reverses
\* none may be deleted.
Alike ==
    /\ Ids' = Ids
    /\ \A i \in Ids : /\ entries'[i].title = entries[i].title
                      /\ entries'[i].of = entries[i].of
                      /\ entries'[i].amount = entries[i].amount
                      /\ entries'[i].check = entries[i].check
                      /\ \/ entries'[i].deleted = entries[i].deleted
                         \/ /\ entries[i].title = None /\ entries[i].of = 0
                            /\ ~entries[i].deleted /\ entries'[i].deleted

\* What has no counter-entry keeps having none.
LEMMA AlikeReversals ==
    ASSUME RowTypes, Alike, NEW i, i # 0
    PROVE  Reversals(i)' = Reversals(i)
<1>1. \A j : j \in Reversals(i) <=> j \in Ids /\ ~entries[j].deleted /\ entries[j].of = i
  BY DEF Reversals, Live
<1>2. \A j : j \in Reversals(i)' <=> j \in Ids' /\ ~entries'[j].deleted /\ entries'[j].of = i
  BY DEF Reversals, Live
<1>3. \A j : j \in Reversals(i)' <=> j \in Reversals(i)
  BY <1>1, <1>2 DEF Alike
<1> QED
  BY <1>3

\* What settles a title stays.
LEMMA AlikeSettles ==
    ASSUME RowTypes, Alike, \A i : i # 0 => (i \in Undone' <=> i \in Undone),
           NEW t \in Titles
    PROVE  /\ Settling(t)' = Settling(t)
           /\ \A i \in Settling(t) : entries'[i].amount = entries[i].amount
<1>1. t # None
  BY NoneAssumption
<1>2. ASSUME NEW i \in Ids
      PROVE  i \in Settling(t)' <=> i \in Settling(t)
  <2>1. i # 0
    BY IdsAre
  <2>2. Reversals(i)' = Reversals(i) /\ (i \in Undone' <=> i \in Undone)
    BY <2>1, AlikeReversals
  <2>3. entries'[i].title = t => entries'[i].deleted = entries[i].deleted
    BY <1>1 DEF Alike
  <2>4. entries'[i].title = entries[i].title /\ i \in Ids'
    BY DEF Alike
  <2> QED
    BY <2>2, <2>3, <2>4, SettlingIs
<1>3. ASSUME NEW i, i \notin Ids
      PROVE  i \notin Settling(t)' /\ i \notin Settling(t)
  BY <1>3, SettlingIs DEF Alike
<1>4. Settling(t)' = Settling(t)
  BY <1>2, <1>3
<1> QED
  BY <1>3, <1>4 DEF Alike

---------------------------------------------------------------------------
(* The rows, after a step.                                                 *)

\* No row is added and no row by cheque is deleted; the cheques stay.
LEMMA AlikeRows ==
    ASSUME RowTypes, RowsFit, Alike, UNCHANGED cheques,
           \A i \in Ids : /\ entries[i].check => entries'[i].deleted = entries[i].deleted
                          /\ Reversals(i) # {} => entries'[i].deleted = entries[i].deleted
    PROVE  RowsFit'
<1>1. \A i \in Ids : i # 0 /\ (entries[i].of # 0 => entries[i].of \in Ids)
  BY IdsAre
<1>2. EntriesFit'
  BY <1>1 DEF RowsFit, EntriesFit, EntryFits, Alike
<1>3. CounterStands'
  <2> SUFFICES ASSUME NEW i \in Ids, ~entries'[i].deleted, NEW k, k = entries[i].of, k # 0
               PROVE  k \in Ids' /\ ~entries'[k].deleted /\ Reversals(k)' = {i}
    BY DEF CounterStands, Live, Alike
  <2>1. ~entries[i].deleted
    BY DEF Alike
  <2>2. k \in Ids /\ ~entries[k].deleted /\ Reversals(k) = {i}
    BY <2>1 DEF RowsFit, CounterStands, Live
  <2>3. Reversals(k)' = Reversals(k)
    BY AlikeReversals
  <2>4. ~entries'[k].deleted /\ k \in Ids'
    BY <2>2 DEF Alike
  <2> QED
    BY <2>2, <2>3, <2>4
<1>4. ChequesFit' /\ OwnClearing'
  <2>1. ASSUME NEW i, NEW title, NEW amount, Posted(i, title, amount)
        PROVE  Posted(i, title, amount)'
    <3>1. i \in Ids /\ entries[i].check
      BY <2>1 DEF Posted, Live
    <3>2. entries'[i].deleted = entries[i].deleted /\ i \in Ids'
      BY <3>1 DEF Alike
    <3> QED
      BY <2>1, <3>1, <3>2 DEF Posted, Live, Alike
  <2>2. ASSUME NEW c \in Cheques
        PROVE  ChequeFits(cheques[c])'
    <3>1. ChequeFits(cheques[c]) /\ cheques'[c] = cheques[c]
      BY DEF RowsFit, ChequesFit
    <3> QED
      BY <2>1, <3>1 DEF ChequeFits
  <2> QED
    BY <2>2 DEF ChequesFit, RowsFit, OwnClearing
<1>5. ChequeOf'
  BY DEF RowsFit, ChequeOf, Alike
<1> QED
  BY <1>2, <1>3, <1>4, <1>5 DEF RowsFit

\* What a cheque has posted stays when a row is appended.
LEMMA PostedStays ==
    ASSUME NEW n, n \notin Ids, Ids' = Ids \cup {n}, \A i \in Ids : entries'[i] = entries[i],
           NEW i, NEW title, NEW amount, Posted(i, title, amount)
    PROVE  Posted(i, title, amount)'
BY DEF Posted, Live

\* A row is added that is no cheque's: of no row, or the first to reverse a
\* live one that is an original and no cheque's.
LEMMA AddedRow ==
    ASSUME RowTypes, RowsFit, NEW e \in EntryRow, ~e.deleted, ~e.check,
           entries' = Append(entries, e), UNCHANGED cheques,
           e.title # None => e.of = 0 /\ e.amount > 0,
           e.of # 0 => /\ Live(e.of) /\ Reversals(e.of) = {}
                       /\ entries[e.of].of = 0 /\ ~entries[e.of].check
    PROVE  RowsFit'
<1> PICK n : n = Fresh
  OBVIOUS
<1>1. /\ n \in Nat /\ n # 0 /\ n \notin Ids /\ Reversals(n) = {}
      /\ Ids' = Ids \cup {n} /\ entries'[n] = e
      /\ \A i \in Ids : entries'[i] = entries[i]
      /\ \A i : Reversals(i)' = IF e.of = i THEN Reversals(i) \cup {n} ELSE Reversals(i)
  BY Appended
<1>2. \A i \in Ids : entries[i].of # 0 => entries[i].of \in Ids
  BY IdsAre
<1>3. EntriesFit'
  <2>1. ASSUME NEW i \in Ids PROVE EntryFits(i)'
    <3>1. EntryFits(i) /\ entries'[i] = entries[i]
      BY <1>1 DEF RowsFit, EntriesFit
    <3>2. entries[i].of # 0 => entries'[entries[i].of] = entries[entries[i].of]
      BY <1>1, <1>2
    <3> QED
      BY <3>1, <3>2 DEF EntryFits
  <2>2. EntryFits(n)'
    <3>1. e.of # 0 => entries'[e.of] = entries[e.of]
      BY <1>1 DEF Live
    <3> QED
      BY <1>1, <3>1 DEF EntryFits
  <2> QED
    BY <1>1, <2>1, <2>2 DEF EntriesFit
<1>4. CounterStands'
  <2> SUFFICES ASSUME NEW i \in Ids', ~entries'[i].deleted, NEW k, k = entries'[i].of, k # 0
               PROVE  k \in Ids' /\ ~entries'[k].deleted /\ Reversals(k)' = {i}
    BY DEF CounterStands, Live
  <2>1. CASE i \in Ids
    <3>1. entries'[i] = entries[i]
      BY <1>1, <2>1
    <3>2. k \in Ids /\ ~entries[k].deleted /\ Reversals(k) = {i}
      BY <2>1, <3>1 DEF RowsFit, CounterStands, Live
    <3>3. e.of # k
      BY <3>2
    <3>4. Reversals(k)' = {i} /\ k \in Ids' /\ ~entries'[k].deleted
      BY <1>1, <3>2, <3>3
    <3> QED
      BY <3>4
  <2>2. CASE i = n
    <3>1. k = e.of /\ k \in Ids /\ ~entries[k].deleted /\ Reversals(k) = {}
      BY <1>1, <2>2 DEF Live
    <3>2. Reversals(k)' = Reversals(k) \cup {n}
      BY <1>1, <3>1
    <3>3. k \in Ids' /\ ~entries'[k].deleted
      BY <1>1, <3>1
    <3> QED
      BY <2>2, <3>1, <3>2, <3>3
  <2> QED
    BY <1>1, <2>1, <2>2
<1>5. ASSUME NEW c \in Cheques
      PROVE  ChequeFits(cheques[c])'
  <2>1. ChequeFits(cheques[c]) /\ cheques'[c] = cheques[c]
    BY DEF RowsFit, ChequesFit
  <2> QED
    BY <1>1, <2>1, PostedStays DEF ChequeFits
<1>6. ChequesFit' /\ OwnClearing'
  BY <1>5 DEF ChequesFit, RowsFit, OwnClearing
<1>7. ChequeOf'
  BY <1>1 DEF RowsFit, ChequeOf
<1> QED
  BY <1>3, <1>4, <1>6, <1>7 DEF RowsFit

\* A cheque that has moved no money is edited.
LEMMA QuietCheque ==
    ASSUME RowTypes, RowsFit, UNCHANGED entries, NEW c \in Cheques, NEW cheque \in Cheque,
           cheques' = [cheques EXCEPT ![c] = cheque],
           cheques[c].cleared = 0, cheques[c].bounced = 0,
           cheque.cleared = 0, cheque.bounced = 0, cheque.status # "cleared",
           cheque.deleted => cheque.status = "registered",
           cheque.status # "absent" => cheque.amount > 0
    PROVE  RowsFit' /\ \A i : i # 0 => (i \in Undone' <=> i \in Undone)
<1>1. cheques'[c] = cheque /\ \A d \in Cheques : d # c => cheques'[d] = cheques[d]
  BY DEF RowTypes
<1>2. EntriesFit' /\ CounterStands'
  BY DEF RowsFit, EntriesFit, EntryFits, CounterStands, Live, Reversals, Ids
<1>3. ASSUME NEW d \in Cheques
      PROVE  ChequeFits(cheques[d])'
  <2>1. CASE d = c
    BY <1>1, <2>1 DEF ChequeFits
  <2>2. CASE d # c
    <3>1. ChequeFits(cheques[d]) /\ cheques'[d] = cheques[d]
      BY <1>1, <2>2 DEF RowsFit, ChequesFit
    <3> QED
      BY <3>1 DEF ChequeFits, Posted, Live, Ids
  <2> QED
    BY <2>1, <2>2
<1>4. ChequesFit' /\ OwnClearing'
  BY <1>1, <1>3 DEF ChequesFit, RowsFit, OwnClearing
<1>5. ChequeOf'
  <2> SUFFICES ASSUME NEW i \in Ids, ~entries[i].deleted, entries[i].check
               PROVE  \E d \in Cheques : i \in {cheques'[d].cleared, cheques'[d].bounced}
    BY DEF ChequeOf, Ids
  <2>1. PICK d \in Cheques : i \in {cheques[d].cleared, cheques[d].bounced}
    BY DEF RowsFit, ChequeOf
  <2>2. i # 0
    BY IdsAre
  <2>3. d # c
    BY <2>1, <2>2
  <2> QED
    BY <1>1, <2>1, <2>3
<1>6. ASSUME NEW i, i # 0
      PROVE  i \in Undone' <=> i \in Undone
  <2>1. i \in Undone' <=> \E d \in Cheques : cheques'[d].status = "bounced" /\ cheques'[d].cleared = i
    BY DEF Undone
  <2>2. i \in Undone <=> \E d \in Cheques : cheques[d].status = "bounced" /\ cheques[d].cleared = i
    BY DEF Undone
  <2> QED
    BY <1>1, <1>6, <2>1, <2>2
<1> QED
  BY <1>2, <1>4, <1>5, <1>6 DEF RowsFit

\* A cheque clears or bounces: it posts the row n, of its title or of none.
LEMMA ChequeRow ==
    ASSUME RowTypes, RowsFit, NEW c \in Cheques, NEW cheque \in Cheque, NEW e \in EntryRow,
           ~e.deleted, e.check, e.of = 0, e.amount = cheque.amount,
           entries' = Append(entries, e),
           cheques' = [cheques EXCEPT ![c] = cheque],
           cheque.title = cheques[c].title, cheque.amount = cheques[c].amount,
           cheque.deleted = cheques[c].deleted,
           \/ /\ cheques[c].status = "deposited" /\ cheque.status = "cleared"
              /\ cheque.cleared = Fresh /\ cheque.bounced = cheques[c].bounced
              /\ e.title = cheque.title
           \/ /\ cheques[c].status = "cleared" /\ cheque.status = "bounced"
              /\ cheque.bounced = Fresh /\ cheque.cleared = cheques[c].cleared
              /\ e.title = None
    PROVE  RowsFit'
<1> PICK n : n = Fresh
  OBVIOUS
<1>1. /\ n \in Nat /\ n # 0 /\ n \notin Ids
      /\ Ids' = Ids \cup {n} /\ entries'[n] = e
      /\ \A i \in Ids : entries'[i] = entries[i]
      /\ \A i : Reversals(i)' = IF e.of = i THEN Reversals(i) \cup {n} ELSE Reversals(i)
  BY Appended
<1>2. \A i \in Ids : i # 0 /\ (entries[i].of # 0 => entries[i].of \in Ids)
  BY IdsAre
<1>3. cheques'[c] = cheque /\ \A d \in Cheques : d # c => cheques'[d] = cheques[d]
  BY DEF RowTypes
<1>4. ChequeFits(cheques[c]) /\ cheque.amount > 0 /\ ~cheque.deleted
  BY DEF RowsFit, ChequesFit, ChequeFits
<1>5. EntriesFit'
  <2>1. ASSUME NEW i \in Ids PROVE EntryFits(i)'
    <3>1. EntryFits(i) /\ entries'[i] = entries[i]
      BY <1>1 DEF RowsFit, EntriesFit
    <3>2. entries[i].of # 0 => entries'[entries[i].of] = entries[entries[i].of]
      BY <1>1, <1>2
    <3> QED
      BY <3>1, <3>2 DEF EntryFits
  <2>2. EntryFits(n)'
    BY <1>1, <1>4 DEF EntryFits
  <2> QED
    BY <1>1, <2>1, <2>2 DEF EntriesFit
<1>6. CounterStands'
  <2> SUFFICES ASSUME NEW i \in Ids, ~entries[i].deleted, NEW k, k = entries[i].of, k # 0
               PROVE  k \in Ids' /\ ~entries'[k].deleted /\ Reversals(k)' = {i}
    <3>1. ASSUME NEW i \in Ids', ~entries'[i].deleted, entries'[i].of # 0
          PROVE  i \in Ids /\ entries'[i] = entries[i]
      BY <1>1, <3>1
    <3> QED
      BY <3>1 DEF CounterStands, Live
  <2>1. k \in Ids /\ ~entries[k].deleted /\ Reversals(k) = {i}
    BY DEF RowsFit, CounterStands, Live
  <2> QED
    BY <1>1, <2>1
<1>7. ChequeFits(cheque)'
  <2>1. Posted(n, e.title, cheque.amount)'
    BY <1>1 DEF Posted, Live
  <2>2. CASE cheque.status = "cleared"
    <3>1. cheque.cleared = n /\ cheque.bounced = 0 /\ e.title = cheque.title
      BY <1>4, <2>2 DEF ChequeFits
    <3> QED
      BY <1>1, <1>4, <2>1, <2>2, <3>1 DEF ChequeFits
  <2>3. CASE cheque.status = "bounced"
    <3>1. /\ cheque.bounced = n /\ e.title = None /\ cheque.cleared # 0
          /\ Posted(cheque.cleared, cheque.title, cheque.amount)
      BY <1>4, <2>3 DEF ChequeFits
    <3>2. Posted(cheque.cleared, cheque.title, cheque.amount)'
      BY <1>1, <3>1, PostedStays
    <3> QED
      BY <1>1, <1>4, <2>1, <2>3, <3>1, <3>2 DEF ChequeFits
  <2> QED
    BY <2>2, <2>3
<1>8. ASSUME NEW d \in Cheques
      PROVE  ChequeFits(cheques[d])'
  <2>1. CASE d = c
    BY <1>3, <1>7, <2>1 DEF ChequeFits
  <2>2. CASE d # c
    <3>1. ChequeFits(cheques[d]) /\ cheques'[d] = cheques[d]
      BY <1>3, <2>2 DEF RowsFit, ChequesFit
    <3> QED
      BY <1>1, <3>1, PostedStays DEF ChequeFits
  <2> QED
    BY <2>1, <2>2
<1>9. OwnClearing'
  <2>1. \A d \in Cheques : cheques[d].cleared # n
    BY DEF RowTypes, Fresh
  <2> QED
    BY <1>3, <2>1 DEF RowsFit, OwnClearing
<1>10. ChequeOf'
  <2> SUFFICES ASSUME NEW i \in Ids', ~entries'[i].deleted, entries'[i].check
               PROVE  \E d \in Cheques : i \in {cheques'[d].cleared, cheques'[d].bounced}
    BY DEF ChequeOf
  <2>1. CASE i = n
    BY <1>3, <2>1
  <2>2. CASE i \in Ids
    <3>1. PICK d \in Cheques : i \in {cheques[d].cleared, cheques[d].bounced}
      BY <1>1, <2>2 DEF RowsFit, ChequeOf
    <3>2. CASE d # c
      BY <1>3, <3>1, <3>2
    <3>3. CASE d = c
      <4>1. cheques[c].bounced = 0 /\ i # 0
        BY <1>2, <1>4, <2>2 DEF ChequeFits
      <4>2. i = cheques[c].cleared
        BY <3>1, <3>3, <4>1
      <4>3. cheque.cleared = cheques[c].cleared
        BY <1>4, <4>1, <4>2 DEF ChequeFits
      <4> QED
        BY <1>3, <4>2, <4>3
    <3> QED
      BY <3>2, <3>3
  <2> QED
    BY <1>1, <2>1, <2>2
<1> QED
  BY <1>5, <1>6, <1>8, <1>9, <1>10 DEF RowsFit, ChequesFit

---------------------------------------------------------------------------
(* What is paid, after a step.                                             *)

\* The sum of what settles a title.
LEMMA SettledSum ==
    ASSUME RowTypes, NEW t
    PROVE  /\ Settling(t) \in SUBSET Ids /\ IsFiniteSet(Settling(t))
           /\ \A i \in Settling(t) : entries[i].amount \in Nat
           /\ Total(entries, Settling(t)) \in Nat
           /\ \A i \in Settling(t) : Total(entries, Settling(t)) =
                  entries[i].amount + Total(entries, Settling(t) \ {i})
<1>1. Settling(t) \in SUBSET Ids
  BY DEF Settling
<1>2. IsFiniteSet(Settling(t))
  BY <1>1, IdsAre, FS_Subset
<1>3. \A i \in Settling(t) : entries[i].amount \in Nat
  BY <1>1, IdsAre
<1> QED
  BY <1>1, <1>2, <1>3, TotalWithout

\* The same rows settle it.
LEMMA SettledSame ==
    ASSUME RowTypes, NEW t, Settling(t)' = Settling(t),
           \A i \in Settling(t) : entries'[i].amount = entries[i].amount
    PROVE  Total(entries', Settling(t)') = Total(entries, Settling(t))
<1>1. IsFiniteSet(Settling(t))
  BY SettledSum
<1> DEFINE S == Settling(t)
           rows == entries'
<1>2. IsFiniteSet(S) /\ \A i \in S : rows[i].amount = entries[i].amount
  BY <1>1
<1> HIDE DEF S, rows
<1>3. Total(rows, S) = Total(entries, S)
  BY <1>2, TotalSame
<1> QED
  BY <1>3 DEF S, rows

\* One row more settles it.
LEMMA SettledMore ==
    ASSUME RowTypes, NEW t, NEW n, n \notin Settling(t), Settling(t)' = Settling(t) \cup {n},
           entries'[n].amount \in Nat,
           \A i \in Settling(t) : entries'[i].amount = entries[i].amount
    PROVE  Total(entries', Settling(t)') = Total(entries, Settling(t)) + entries'[n].amount
<1>1. /\ IsFiniteSet(Settling(t)) /\ Total(entries, Settling(t)) \in Nat
      /\ \A i \in Settling(t) : entries[i].amount \in Nat
  BY SettledSum
<1> DEFINE S == Settling(t)
           T == S \cup {n}
           rows == entries'
<1>2. /\ IsFiniteSet(S) /\ \A i \in S : rows[i].amount = entries[i].amount
      /\ n \notin S /\ Settling(t)' = T /\ rows[n].amount \in Nat /\ Total(entries, S) \in Nat
      /\ \A i \in T : rows[i].amount \in Nat
  BY <1>1
<1> HIDE DEF S, rows
<1>3. IsFiniteSet(T) /\ n \in T /\ T \ {n} = S
  BY <1>2, FS_AddElement
<1> HIDE DEF T
<1>4. Total(rows, T) = rows[n].amount + Total(rows, T \ {n})
  BY <1>2, <1>3, TotalWithout
<1>5. Total(rows, S) = Total(entries, S)
  BY <1>2, TotalSame
<1>6. Total(rows, T) = Total(entries, S) + rows[n].amount
  <2>1. Total(rows, T) = rows[n].amount + Total(entries, S)
    BY <1>3, <1>4, <1>5
  <2> QED
    BY <1>2, <2>1
<1> QED
  BY <1>2, <1>6 DEF S, rows

\* One row less settles it.
LEMMA SettledLess ==
    ASSUME RowTypes, NEW t, NEW i \in Settling(t), Settling(t)' = Settling(t) \ {i},
           \A j \in Settling(t) : entries'[j].amount = entries[j].amount
    PROVE  /\ Total(entries', Settling(t)') \in Nat /\ entries[i].amount \in Nat
           /\ Total(entries, Settling(t)) = entries[i].amount + Total(entries', Settling(t)')
<1>1. /\ IsFiniteSet(Settling(t)) /\ \A j \in Settling(t) : entries[j].amount \in Nat
      /\ Total(entries, Settling(t)) = entries[i].amount + Total(entries, Settling(t) \ {i})
  BY SettledSum
<1> DEFINE S == Settling(t) \ {i}
           rows == entries'
<1>2. IsFiniteSet(S) /\ \A j \in S : rows[j].amount = entries[j].amount /\ entries[j].amount \in Nat
  BY <1>1, FS_RemoveElement
<1>3. Settling(t)' = S /\ Total(entries, Settling(t)) = entries[i].amount + Total(entries, S)
  BY <1>1
<1> HIDE DEF S, rows
<1>4. Total(rows, S) = Total(entries, S)
  BY <1>2, TotalSame
<1>5. Total(entries, S) \in Nat
  BY <1>2, TotalWithout
<1> QED
  BY <1>1, <1>3, <1>4, <1>5 DEF rows

\* The title of a step that moves no money of it.
LEMMA TitleStays ==
    ASSUME RowTypes, NEW t \in Titles, TitleFits(t), Settling(t)' = Settling(t),
           \A i \in Settling(t) : entries'[i].amount = entries[i].amount,
           titles'[t].paid = titles[t].paid, StatusFits(titles'[t])
    PROVE  TitleFits(t)'
<1>1. Total(entries', Settling(t)') = Total(entries, Settling(t))
  BY SettledSame
<1> QED
  BY <1>1 DEF TitleFits

\* The title of a payment, and of its return.
LEMMA TitlePays ==
    ASSUME RowTypes, NEW t \in Titles, TitleFits(t), NEW x \in Nat, x > 0,
           Payable(t, x), titles' = Paying(t, x),
           NEW n, n \notin Settling(t), Settling(t)' = Settling(t) \cup {n},
           entries'[n].amount = x,
           \A i \in Settling(t) : entries'[i].amount = entries[i].amount
    PROVE  TitleFits(t)'
<1>1. Total(entries', Settling(t)') = Total(entries, Settling(t)) + x
  BY SettledMore
<1>2. titles \in [Titles -> Title] /\ titles[t].paid \in Nat /\ titles[t].amount \in Nat
  BY DEF RowTypes, Title
<1>3. /\ titles'[t].paid = titles[t].paid + x /\ titles'[t].amount = titles[t].amount
      /\ titles'[t].status = IF titles[t].paid + x >= titles[t].amount
                             THEN "paid" ELSE "partially_paid"
  BY <1>2 DEF Paying, RowTypes, Title
<1>4. titles[t].paid + x <= titles[t].amount
  BY DEF Payable
<1>5. StatusFits(titles'[t])
  BY <1>2, <1>3, <1>4 DEF StatusFits
<1> QED
  BY <1>1, <1>3, <1>5 DEF TitleFits

LEMMA TitleRestores ==
    ASSUME RowTypes, NEW t \in Titles, TitleFits(t), NEW x \in Nat, x > 0,
           Restorable(t, x), titles' = Restoring(t, x),
           NEW i \in Settling(t), Settling(t)' = Settling(t) \ {i}, entries[i].amount = x,
           \A j \in Settling(t) : entries'[j].amount = entries[j].amount
    PROVE  TitleFits(t)'
<1>1. /\ Total(entries', Settling(t)') \in Nat
      /\ Total(entries, Settling(t)) = x + Total(entries', Settling(t)')
  BY SettledLess
<1>2. /\ titles \in [Titles -> Title] /\ titles[t].paid \in Nat /\ titles[t].amount \in Nat
      /\ titles[t].paid <= titles[t].amount
  BY DEF RowTypes, Title
<1>3. /\ titles'[t].paid = titles[t].paid - x /\ titles'[t].amount = titles[t].amount
      /\ titles'[t].status = IF titles[t].paid <= x THEN "open" ELSE "partially_paid"
  BY <1>2 DEF Restoring, RowTypes, Title
<1>4. titles[t].paid >= x
  BY DEF Restorable
<1>5. StatusFits(titles'[t])
  BY <1>2, <1>3, <1>4 DEF StatusFits
<1>6. titles'[t].paid = Total(entries', Settling(t)')
  BY <1>1, <1>2, <1>3 DEF TitleFits
<1> QED
  BY <1>5, <1>6 DEF TitleFits

\* Payments edit one title.
LEMMA OtherTitles ==
    ASSUME RowTypes, NEW t, NEW x, titles' = Paying(t, x) \/ titles' = Restoring(t, x),
           NEW n \in Titles, n # t
    PROVE  titles'[n] = titles[n]
BY DEF RowTypes, Paying, Restoring

---------------------------------------------------------------------------
(* Each write, of the rows and of what is paid.                            *)

\* What a write keeps.
MoneyRows == RowsFit' /\ TitlesFit'

\* A clearing that has bounced is a row by cheque.
LEMMA UndoneByCheque ==
    ASSUME RowTypes, RowsFit, NEW i \in Ids, i \in Undone
    PROVE  entries[i].check
<1>1. PICK c \in Cheques : cheques[c].cleared = i
  BY DEF Undone
<1>2. i # 0
  BY IdsAre
<1> QED
  BY <1>1, <1>2 DEF RowsFit, ChequesFit, ChequeFits, Posted

\* A live row that is no cheque's own is no row by cheque.
LEMMA NotByCheque ==
    ASSUME RowTypes, RowsFit, NEW i, Live(i), ~OfCheque(i)
    PROVE  ~entries[i].check
<1> SUFFICES ASSUME entries[i].check PROVE FALSE
  OBVIOUS
<1>1. PICK c \in Cheques : i \in {cheques[c].cleared, cheques[c].bounced}
  BY DEF RowsFit, ChequeOf, Live
<1>2. i # 0
  BY IdsAre DEF Live
<1>3. cheques[c].deleted
  BY <1>1 DEF OfCheque, RowTypes, Cheque
<1>4. cheques[c].cleared = 0 /\ cheques[c].bounced = 0
  BY <1>3 DEF RowsFit, ChequesFit, ChequeFits
<1> QED
  BY <1>1, <1>2, <1>4

\* A step that adds no row and moves no money of a title.
LEMMA QuietRows ==
    ASSUME RowTypes, RowsFit, TitlesFit, Alike, UNCHANGED cheques,
           \A i \in Ids : /\ entries[i].check => entries'[i].deleted = entries[i].deleted
                          /\ Reversals(i) # {} => entries'[i].deleted = entries[i].deleted,
           \A t \in Titles : titles'[t].paid = titles[t].paid /\ StatusFits(titles'[t])
    PROVE  MoneyRows
<1>1. RowsFit'
  BY AlikeRows
<1>2. \A i : i \in Undone' <=> i \in Undone
  BY DEF Undone
<1>3. ASSUME NEW t \in Titles
      PROVE  TitleFits(t)'
  <2>1. /\ Settling(t)' = Settling(t)
        /\ \A i \in Settling(t) : entries'[i].amount = entries[i].amount
    BY <1>2, AlikeSettles
  <2>2. TitleFits(t) /\ titles'[t].paid = titles[t].paid /\ StatusFits(titles'[t])
    BY DEF TitlesFit
  <2> QED
    BY <2>1, <2>2, TitleStays
<1> QED
  BY <1>1, <1>3 DEF TitlesFit, MoneyRows

LEMMA SameEntries ==
    ASSUME UNCHANGED entries
    PROVE  Alike /\ \A i \in Ids : entries'[i].deleted = entries[i].deleted
BY DEF Alike, Ids

\* The status of a title that stays as it is.
LEMMA StatusStays ==
    ASSUME TitlesFit, NEW t \in Titles, titles'[t] = titles[t]
    PROVE  titles'[t].paid = titles[t].paid /\ StatusFits(titles'[t])
BY DEF TitlesFit, TitleFits

\* A title of which nothing is paid, issued, moved or dropped.
LEMMA UnpaidTitle ==
    ASSUME RowTypes, RowsFit, TitlesFit, UNCHANGED <<entries, cheques>>,
           NEW t \in Titles, NEW title, titles' = [titles EXCEPT ![t] = title],
           title.paid = titles[t].paid, StatusFits(title)
    PROVE  MoneyRows
<1>1. titles'[t] = title /\ \A n \in Titles : n # t => titles'[n] = titles[n]
  BY DEF RowTypes
<1>2. \A n \in Titles : titles'[n].paid = titles[n].paid /\ StatusFits(titles'[n])
  BY <1>1, StatusStays
<1> QED
  BY <1>2, SameEntries, QuietRows

LEMMA IssueMoney ==
    ASSUME RowTypes, RowsFit, TitlesFit, NEW u \in UnitRow, Fits(u), u.op = "issue", Issue(u)
    PROVE  MoneyRows
<1>1. u.id \in Titles /\ titles[u.id].status = "absent"
  BY DEF Fits
<1>2. PICK status \in {"open", "scheduled"} :
          titles' = [titles EXCEPT ![u.id] = [status |-> status, amount |-> u.amount,
                        paid |-> 0, period |-> u.period, deleted |-> FALSE]]
  BY DEF Issue
<1> DEFINE title == [status |-> status, amount |-> u.amount, paid |-> 0,
                     period |-> u.period, deleted |-> FALSE]
<1>3. titles[u.id].paid = 0
  <2>1. StatusFits(titles[u.id])
    BY <1>1 DEF TitlesFit, TitleFits
  <2> QED
    BY <1>1, <2>1 DEF StatusFits
<1>4. title.paid = titles[u.id].paid /\ StatusFits(title)
  BY <1>3 DEF StatusFits
<1>5. titles' = [titles EXCEPT ![u.id] = title] /\ UNCHANGED <<entries, cheques>>
  BY <1>2 DEF Issue
<1> HIDE DEF title
<1> QED
  BY <1>1, <1>4, <1>5, UnpaidTitle

LEMMA TitleMoney ==
    ASSUME RowTypes, RowsFit, TitlesFit, NEW u \in UnitRow, Fits(u),
           \/ u.op = "amount" /\ ChangeAmount(u)
           \/ u.op = "status" /\ ChangeStatus(u)
           \/ u.op = "drop" /\ Drop(u)
    PROVE  MoneyRows
<1> DEFINE t == u.id
<1>1. /\ t \in Titles /\ titles \in [Titles -> Title] /\ titles[t] \in Title
      /\ u.amount \in Nat /\ titles[t].paid \in Nat /\ StatusFits(titles[t])
  BY DEF Fits, RowTypes, UnitRow, TitlesFit, TitleFits, Title
<1>2. UNCHANGED <<entries, cheques>>
  BY DEF ChangeAmount, ChangeStatus, Drop
<1>3. CASE UNCHANGED titles
  BY <1>2, <1>3, SameEntries, StatusStays, QuietRows
<1>4. CASE u.op = "amount" /\ ChangeAmount(u) /\ titles' # titles
  <2> DEFINE s == IF titles[t].paid = 0 THEN titles[t].status
                  ELSE IF titles[t].paid = u.amount THEN "paid" ELSE "partially_paid"
             title == [titles[t] EXCEPT !.amount = u.amount, !.status = s]
  <2>1. titles' = [titles EXCEPT ![t].amount = u.amount, ![t].status = s]
    BY <1>4, <1>1 DEF ChangeAmount, Title
  <2>2. titles' = [titles EXCEPT ![t] = title]
    <3> HIDE DEF s
    <3> QED
      BY <2>1, <1>1 DEF Title
  <2>3. title.paid = titles[t].paid /\ title.status = s /\ title.amount = u.amount
    BY <1>1 DEF Title
  <2>4. StatusFits(title)
    <3> HIDE DEF title
    <3> QED
      BY <1>1, <2>3 DEF StatusFits
  <2> HIDE DEF title
  <2> QED
    BY <1>1, <1>2, <2>2, <2>3, <2>4, UnpaidTitle
<1>5. CASE u.op = "status" /\ ChangeStatus(u) /\ titles' # titles
  <2> DEFINE title == [titles[t] EXCEPT !.status = u.to]
  <2>1. /\ <<titles[t].status, u.to>> \in Transitions
        /\ titles' = [titles EXCEPT ![t] = title]
    BY <1>5, <1>1 DEF ChangeStatus, Title
  <2>2. /\ titles[t].status \notin {"paid", "partially_paid"}
        /\ u.to \notin {"paid", "partially_paid"}
    BY <2>1 DEF Transitions
  <2>3. titles[t].paid = 0
    BY <1>1, <2>2 DEF StatusFits
  <2>4. title.paid = titles[t].paid /\ title.status = u.to
    BY <1>1 DEF Title
  <2> HIDE DEF title
  <2>5. StatusFits(title)
    BY <2>2, <2>3, <2>4 DEF StatusFits
  <2> QED
    BY <1>1, <1>2, <2>1, <2>4, <2>5, UnpaidTitle
<1>6. CASE u.op = "drop" /\ Drop(u) /\ titles' # titles
  <2> DEFINE title == [titles[t] EXCEPT !.deleted = TRUE]
  <2>1. titles' = [titles EXCEPT ![t] = title]
    BY <1>6, <1>1 DEF Drop, Title
  <2>2. title.paid = titles[t].paid /\ title.status = titles[t].status /\ title.amount = titles[t].amount
    BY <1>1 DEF Title
  <2> HIDE DEF title
  <2>3. StatusFits(title)
    BY <1>1, <2>2 DEF StatusFits
  <2> QED
    BY <1>1, <1>2, <2>1, <2>2, <2>3, UnpaidTitle
<1> QED
  BY <1>3, <1>4, <1>5, <1>6

\* The fields of a row of which one is edited.
LEMMA EditRow ==
    ASSUME RowTypes, NEW i \in Ids, NEW b \in BOOLEAN,
           \/ entries' = [entries EXCEPT ![i].deleted = b]
           \/ entries' = [entries EXCEPT ![i].reconciled = b]
    PROVE  /\ Ids' = Ids /\ \A j \in Ids : j # i => entries'[j] = entries[j]
           /\ entries'[i].title = entries[i].title /\ entries'[i].of = entries[i].of
           /\ entries'[i].amount = entries[i].amount /\ entries'[i].check = entries[i].check
           /\ entries'[i].deleted = IF entries' = [entries EXCEPT ![i].deleted = b]
                                    THEN b ELSE entries[i].deleted
<1>1. entries \in Seq(EntryRow) /\ Len(entries) \in Nat /\ entries[i] \in EntryRow
  BY IdsAre DEF RowTypes
<1>2. ASSUME NEW row \in EntryRow, entries' = [entries EXCEPT ![i] = row]
      PROVE  /\ Ids' = Ids /\ entries'[i] = row
             /\ \A j \in Ids : j # i => entries'[j] = entries[j]
  BY <1>1, <1>2 DEF Ids
<1>3. CASE entries' = [entries EXCEPT ![i].deleted = b]
  <2> DEFINE row == [entries[i] EXCEPT !.deleted = b]
  <2>1. row \in EntryRow /\ entries' = [entries EXCEPT ![i] = row]
    BY <1>1, <1>3 DEF EntryRow
  <2>2. /\ row.title = entries[i].title /\ row.of = entries[i].of /\ row.deleted = b
        /\ row.amount = entries[i].amount /\ row.check = entries[i].check
    BY <1>1 DEF EntryRow
  <2> HIDE DEF row
  <2> QED
    BY <1>2, <1>3, <2>1, <2>2
<1>4. CASE entries' = [entries EXCEPT ![i].reconciled = b] /\ entries' # [entries EXCEPT ![i].deleted = b]
  <2> DEFINE row == [entries[i] EXCEPT !.reconciled = b]
  <2>1. row \in EntryRow /\ entries' = [entries EXCEPT ![i] = row]
    BY <1>1, <1>4 DEF EntryRow
  <2>2. /\ row.title = entries[i].title /\ row.of = entries[i].of
        /\ row.deleted = entries[i].deleted
        /\ row.amount = entries[i].amount /\ row.check = entries[i].check
    BY <1>1 DEF EntryRow
  <2> HIDE DEF row
  <2> QED
    BY <1>2, <1>4, <2>1, <2>2
<1> QED
  BY <1>3, <1>4

LEMMA DeleteMoney ==
    ASSUME RowTypes, RowsFit, TitlesFit, NEW u \in UnitRow, Fits(u), u.op = "delete", Delete(u)
    PROVE  MoneyRows
<1>1. u.id \in Ids /\ UNCHANGED <<titles, cheques>>
  BY DEF Fits, Delete
<1>2. \A t \in Titles : titles'[t].paid = titles[t].paid /\ StatusFits(titles'[t])
  BY <1>1, StatusStays
<1>3. CASE UNCHANGED entries
  BY <1>1, <1>2, <1>3, SameEntries, QuietRows
<1>4. CASE /\ entries' = [entries EXCEPT ![u.id].deleted = TRUE]
           /\ Live(u.id) /\ DeleteAllowed(u.id)
  <2> DEFINE i == u.id
  <2>1. /\ Ids' = Ids /\ \A j \in Ids : j # i => entries'[j] = entries[j]
        /\ entries'[i].title = entries[i].title /\ entries'[i].of = entries[i].of
        /\ entries'[i].amount = entries[i].amount /\ entries'[i].check = entries[i].check
        /\ entries'[i].deleted = TRUE
    BY <1>1, <1>4, EditRow
  <2>2. /\ entries[i].of = 0 /\ Reversals(i) = {} /\ entries[i].title = None
        /\ ~entries[i].check /\ ~entries[i].deleted
    BY <1>4, NotByCheque DEF DeleteAllowed, Live
  <2> HIDE DEF i
  <2>3. Alike
    BY <2>1, <2>2 DEF Alike
  <2>4. \A j \in Ids : /\ entries[j].check => entries'[j].deleted = entries[j].deleted
                       /\ Reversals(j) # {} => entries'[j].deleted = entries[j].deleted
    BY <2>1, <2>2
  <2> QED
    BY <1>1, <1>2, <2>3, <2>4, QuietRows
<1> QED
  BY <1>3, <1>4 DEF Delete

LEMMA ReconcileMoney ==
    ASSUME RowTypes, RowsFit, TitlesFit, NEW i \in Ids, Reconcile(i)
    PROVE  MoneyRows
<1> DEFINE b == ~entries[i].reconciled
<1>1. /\ UNCHANGED <<titles, cheques>> /\ entries[i] \in EntryRow /\ entries \in Seq(EntryRow)
      /\ Len(entries) \in Nat
  BY IdsAre DEF Reconcile, RowTypes
<1>2. b \in BOOLEAN /\ entries' = [entries EXCEPT ![i].reconciled = b]
  BY DEF Reconcile
<1> HIDE DEF b
<1>3. \A t \in Titles : titles'[t].paid = titles[t].paid /\ StatusFits(titles'[t])
  BY <1>1, StatusStays
<1>4. [entries[i] EXCEPT !.reconciled = b].deleted = entries[i].deleted
  BY <1>1 DEF EntryRow
<1>5. entries'[i] = [entries[i] EXCEPT !.reconciled = b]
  BY <1>1, <1>2 DEF Ids
<1>6. /\ Ids' = Ids /\ \A j \in Ids : j # i => entries'[j] = entries[j]
      /\ entries'[i].title = entries[i].title /\ entries'[i].of = entries[i].of
      /\ entries'[i].amount = entries[i].amount /\ entries'[i].check = entries[i].check
  BY <1>2, EditRow
<1>7. Alike /\ \A j \in Ids : entries'[j].deleted = entries[j].deleted
  BY <1>4, <1>5, <1>6 DEF Alike
<1> QED
  BY <1>1, <1>3, <1>7, QuietRows

\* A row is appended that neither pays the title nor takes back what has paid it.
LEMMA UntouchedTitle ==
    ASSUME RowTypes, TitlesFit, NEW e \in EntryRow, ~e.deleted, e.of <= Len(entries),
           entries' = Append(entries, e), NEW X, Fresh \notin X, TakesBack(X),
           NEW t \in Titles, e.title # t, titles'[t] = titles[t],
           \A i \in Settling(t) : i \notin X /\ i # e.of
    PROVE  TitleFits(t)'
<1>2. /\ Settling(t)' = (Settling(t) \ (X \cup {e.of}))
                            \cup (IF e.title = t THEN {Fresh} ELSE {})
      /\ Fresh \notin Settling(t)
      /\ \A i \in Settling(t) : entries'[i].amount = entries[i].amount
  BY AppendSettles DEF Settles
<1>3. Settling(t)' = Settling(t)
  BY <1>2
<1>4. TitleFits(t) /\ titles'[t].paid = titles[t].paid /\ StatusFits(titles'[t])
  BY StatusStays DEF TitlesFit
<1> QED
  BY <1>2, <1>3, <1>4, TitleStays

\* No id of a row is 0, and no title is None.
LEMMA NoSuchRow ==
    ASSUME RowTypes, NEW t \in Titles
    PROVE  0 \notin Settling(t) /\ t # None
<1>1. t # None
  BY NoneAssumption
<1> QED
  BY <1>1, IdsAre, SettlingIs

LEMMA CreateMoney ==
    ASSUME RowTypes, RowsFit, TitlesFit, NEW u \in UnitRow, Create(u)
    PROVE  MoneyRows
<1> DEFINE e == Entry(u.period, "in", u.amount, None, 0, FALSE)
<1>1. /\ e \in EntryRow /\ e.of = 0 /\ ~e.check /\ ~e.deleted /\ e.title = None
      /\ Len(entries) \in Nat
  BY DEF Entry, EntryRow, UnitRow, RowTypes
<1>2. entries' = Append(entries, e) /\ UNCHANGED <<titles, cheques>>
  BY DEF Create
<1> HIDE DEF e
<1>3. RowsFit'
  BY <1>1, <1>2, AddedRow
<1>4. TakesBack({})
  BY <1>2 DEF Undone, TakesBack
<1>5. ASSUME NEW t \in Titles
      PROVE  TitleFits(t)'
  <2>1. e.title # t /\ \A i \in Settling(t) : i \notin {} /\ i # e.of
    BY <1>1, NoSuchRow
  <2>2. titles'[t] = titles[t] /\ e.of <= Len(entries) /\ Fresh \notin {}
    BY <1>1, <1>2
  <2> QED
    BY <1>1, <1>2, <1>4, <2>1, <2>2, UntouchedTitle
<1> QED
  BY <1>3, <1>5 DEF TitlesFit, MoneyRows

LEMMA PayMoney ==
    ASSUME RowTypes, RowsFit, TitlesFit, NEW u \in UnitRow, Fits(u), UnitFits(u),
           u.op = "pay", Pay(u)
    PROVE  MoneyRows
<1> DEFINE t == u.id
           x == u.amount
           e == Entry(u.period, "in", x, t, 0, FALSE)
<1>1. UNCHANGED cheques /\ t \in Titles /\ x \in Nat /\ x > 0 /\ Len(entries) \in Nat
  BY DEF Pay, Fits, UnitFits, UnitRow, RowTypes
<1>2. CASE UNCHANGED <<entries, titles>>
  BY <1>1, <1>2, SameEntries, StatusStays, QuietRows
<1>3. CASE Payable(t, x) /\ entries' = Append(entries, e) /\ titles' = Paying(t, x)
  <2>1. /\ e \in EntryRow /\ e.of = 0 /\ ~e.check /\ ~e.deleted /\ e.title = t /\ e.amount = x
        /\ e.of <= Len(entries)
    BY <1>1 DEF Entry, EntryRow, UnitRow
  <2>2. entries' = Append(entries, e) /\ Fresh \notin {}
    BY <1>3
  <2> HIDE DEF e, t, x
  <2> PICK n : n = Fresh
    OBVIOUS
  <2>3. RowsFit'
    BY <1>1, <2>1, <2>2, AddedRow
  <2>4. TakesBack({})
    BY <1>1 DEF Undone, TakesBack
  <2>5. TitleFits(t)'
    <3>0. Settles(e, {}, t)
      BY <2>1, <2>2, <2>4, AppendSettles
    <3>1. n \notin Settling(t) /\ \A i \in Settling(t) : entries'[i].amount = entries[i].amount
      BY <3>0 DEF Settles
    <3>2. Settling(t)' = Settling(t) \cup {n}
      BY <1>1, <2>1, <3>0, NoSuchRow DEF Settles
    <3>3. entries'[n].amount = x
      BY <2>1, <2>2, Appended
    <3>4. TitleFits(t)
      BY <1>1 DEF TitlesFit
    <3> QED
      BY <1>1, <1>3, <3>1, <3>2, <3>3, <3>4, TitlePays
  <2>6. ASSUME NEW m \in Titles, m # t
        PROVE  TitleFits(m)'
    <3>1. e.title # m /\ \A i \in Settling(m) : i \notin {} /\ i # e.of
      BY <2>1, <2>6, NoSuchRow
    <3>2. titles'[m] = titles[m]
      BY <1>3, <2>6, OtherTitles
    <3> QED
      BY <2>1, <2>2, <2>4, <3>1, <3>2, UntouchedTitle
  <2> QED
    BY <2>3, <2>5, <2>6 DEF TitlesFit, MoneyRows
<1> QED
  BY <1>2, <1>3 DEF Pay

LEMMA ReverseMoney ==
    ASSUME RowTypes, RowsFit, TitlesFit, NEW u \in UnitRow, Fits(u), UnitFits(u),
           u.op = "reverse", Reverse(u)
    PROVE  MoneyRows
<1> PICK i, t, x : i = u.id /\ t = entries[i].title /\ x = entries[i].amount
  OBVIOUS
<1> DEFINE e == Entry(u.period, Opposite(entries[i].dir), x, None, i, entries[i].check)
<1>1. /\ UNCHANGED cheques /\ i \in Ids /\ Len(entries) \in Nat /\ entries[i].of = 0
      /\ ~entries[i].check
  BY DEF Reverse, Fits, UnitFits, RowTypes
<1>2. CASE UNCHANGED <<entries, titles>>
  BY <1>1, <1>2, SameEntries, StatusStays, QuietRows
<1>3. CASE /\ Live(i) /\ Reversals(i) = {} /\ (t # None => Restorable(t, x))
           /\ entries' = Counter(i, u.period)
           /\ titles' = IF t = None THEN titles ELSE Restoring(t, x)
  <2>1. entries[i] \in EntryRow /\ i \in Nat /\ i # 0 /\ i <= Len(entries)
    BY <1>1, IdsAre
  <2>2. /\ e \in EntryRow /\ e.of = i /\ ~e.check /\ ~e.deleted /\ e.title = None
        /\ e.of <= Len(entries)
    BY <1>1, <2>1 DEF Entry, EntryRow, UnitRow, Opposite
  <2>3. entries' = Append(entries, e) /\ Fresh \notin {}
    BY <1>3 DEF Counter
  <2> HIDE DEF e
  <2>4. RowsFit'
    <3>1. /\ e.title # None => e.of = 0 /\ e.amount > 0
          /\ e.of # 0 => /\ Live(e.of) /\ Reversals(e.of) = {}
                         /\ entries[e.of].of = 0 /\ ~entries[e.of].check
      BY <1>1, <1>3, <2>2 DEF Live
    <3> QED
      BY <1>1, <2>2, <2>3, <3>1, AddedRow
  <2>5. TakesBack({})
    BY <1>1 DEF Undone, TakesBack
  <2>6. ASSUME t # None
        PROVE  TitleFits(t)'
    <3>1. t \in Titles /\ x \in Nat
      BY <2>1, <2>6 DEF EntryRow
    <3>2. x > 0
      BY <1>1, <2>6 DEF RowsFit, EntriesFit, EntryFits
    <3>3. i \in Settling(t)
      <4>1. i \notin Undone
        BY <1>1, UndoneByCheque
      <4> QED
        BY <1>1, <1>3, <4>1, SettlingIs DEF Live
    <3>0. Settles(e, {}, t)
      BY <2>2, <2>3, <2>5, AppendSettles
    <3>4. \A j \in Settling(t) : entries'[j].amount = entries[j].amount
      BY <3>0 DEF Settles
    <3>5. Settling(t)' = Settling(t) \ {i}
      BY <2>2, <2>6, <3>0 DEF Settles
    <3>6. TitleFits(t)
      BY <3>1 DEF TitlesFit
    <3>7. Restorable(t, x) /\ titles' = Restoring(t, x)
      BY <1>3, <2>6
    <3> QED
      BY <3>1, <3>2, <3>3, <3>4, <3>5, <3>6, <3>7, TitleRestores
  <2>7. ASSUME NEW m \in Titles, m # t
        PROVE  TitleFits(m)'
    <3>1. e.title # m
      BY <2>2, NoSuchRow
    <3>2. \A j \in Settling(m) : j \notin {} /\ j # e.of
      BY <2>2, <2>7, SettlingIs
    <3>3. titles'[m] = titles[m]
      BY <1>3, <2>7, OtherTitles
    <3> QED
      BY <2>2, <2>3, <2>5, <3>1, <3>2, <3>3, UntouchedTitle
  <2> QED
    BY <2>4, <2>6, <2>7, NoSuchRow DEF TitlesFit, MoneyRows
<1> QED
  BY <1>2, <1>3 DEF Reverse

\* What a cheque that clears or bounces leaves of itself.
LEMMA EditedCheque ==
    ASSUME NEW cheque \in Cheque, NEW n \in Nat
    PROVE  /\ LET new == [cheque EXCEPT !.status = "cleared", !.cleared = n]
              IN  /\ new.status = "cleared" /\ new.cleared = n /\ new.bounced = cheque.bounced
                  /\ new.title = cheque.title /\ new.amount = cheque.amount
                  /\ new.deleted = cheque.deleted
           /\ LET new == [cheque EXCEPT !.status = "bounced", !.bounced = n]
              IN  /\ new.status = "bounced" /\ new.bounced = n /\ new.cleared = cheque.cleared
                  /\ new.title = cheque.title /\ new.amount = cheque.amount
                  /\ new.deleted = cheque.deleted
BY DEF Cheque

LEMMA ClearMoney ==
    ASSUME RowTypes, RowsFit, TitlesFit, NEW u \in UnitRow, Fits(u), u.op = "clear", Clear(u)
    PROVE  MoneyRows
<1> PICK c, t, x, n : /\ c = u.id /\ t = cheques[c].title /\ x = cheques[c].amount
                      /\ n = Len(entries) + 1
  OBVIOUS
<1> DEFINE e == Entry(u.period, "in", x, t, 0, TRUE)
           cheque == [cheques[c] EXCEPT !.status = "cleared", !.cleared = n]
<1>1. /\ c \in Cheques /\ Len(entries) \in Nat /\ n \in Nat
      /\ cheques[c] \in Cheque /\ cheques \in [Cheques -> Cheque]
  BY DEF Fits, RowTypes
<1>2. t \in Titles \cup {None} /\ x \in Nat
  BY <1>1 DEF Cheque
<1>3. CASE UNCHANGED rowVars
  BY <1>3, SameEntries, StatusStays, QuietRows DEF rowVars
<1>4. CASE /\ cheques[c].status = "deposited" /\ (t # None => Payable(t, x))
           /\ entries' = Append(entries, e)
           /\ titles' = IF t = None THEN titles ELSE Paying(t, x)
           /\ cheques' = [cheques EXCEPT ![c].status = "cleared", ![c].cleared = n]
  <2>1. /\ e \in EntryRow /\ e.of = 0 /\ e.check /\ ~e.deleted /\ e.title = t /\ e.amount = x
        /\ e.of <= Len(entries)
    BY <1>1, <1>2 DEF Entry, EntryRow, UnitRow
  <2>2. entries' = Append(entries, e) /\ n = Fresh /\ Fresh \notin {}
    BY <1>4 DEF Fresh
  <2>3. cheques' = [cheques EXCEPT ![c] = cheque]
    BY <1>1, <1>4 DEF Cheque
  <2>4. cheque \in Cheque
    <3>1. cheques[c] \in Cheque /\ n \in Nat
      BY <1>1
    <3>2. "cleared" \in ChequeStatuses /\ "bounced" \in ChequeStatuses
      BY DEF ChequeStatuses
    <3> QED
      BY <3>1, <3>2 DEF Cheque
  <2>5. /\ cheque.status = "cleared" /\ cheque.cleared = n
        /\ cheque.bounced = cheques[c].bounced /\ cheque.title = t /\ cheque.amount = x
        /\ cheque.deleted = cheques[c].deleted
    BY <1>1, EditedCheque
  <2> HIDE DEF e, cheque
  <2>6. RowsFit'
    <3>1. /\ cheque.title = cheques[c].title /\ cheque.amount = cheques[c].amount
          /\ cheque.deleted = cheques[c].deleted /\ e.amount = cheque.amount
          /\ cheques[c].status = "deposited" /\ cheque.status = "cleared"
          /\ cheque.cleared = Fresh /\ cheque.bounced = cheques[c].bounced
          /\ e.title = cheque.title
      BY <1>4, <2>1, <2>2, <2>5
    <3> QED
      BY <1>1, <2>1, <2>2, <2>3, <2>4, <3>1, ChequeRow
  <2>7. x > 0
    BY <1>1, <1>4 DEF RowsFit, ChequesFit, ChequeFits
  <2>8. TakesBack({})
    <3>1. cheques'[c] = cheque /\ \A d \in Cheques : d # c => cheques'[d] = cheques[d]
      BY <1>1, <2>3
    <3>2. cheques'[c].status # "bounced" /\ cheques[c].status # "bounced"
      BY <1>4, <2>5, <3>1
    <3>3. ASSUME NEW i
          PROVE  i \in Undone' <=> i \in Undone
      BY <3>1, <3>2 DEF Undone
    <3> QED
      BY <3>3 DEF TakesBack
  <2>9. ASSUME t # None
        PROVE  TitleFits(t)'
    <3>1. t \in Titles
      BY <1>2, <2>9
    <3>0. Settles(e, {}, t)
      BY <2>1, <2>2, <2>8, AppendSettles
    <3>2. n \notin Settling(t) /\ \A i \in Settling(t) : entries'[i].amount = entries[i].amount
      BY <2>2, <3>0 DEF Settles
    <3>3. Settling(t)' = Settling(t) \cup {n}
      BY <2>1, <2>2, <3>0, <3>1, NoSuchRow DEF Settles
    <3>4. entries'[n].amount = x
      BY <2>1, <2>2, Appended
    <3>5. TitleFits(t) /\ Payable(t, x) /\ titles' = Paying(t, x)
      BY <1>4, <2>9, <3>1 DEF TitlesFit
    <3> QED
      BY <1>2, <2>7, <3>1, <3>2, <3>3, <3>4, <3>5, TitlePays
  <2>10. ASSUME NEW m \in Titles, m # t
         PROVE  TitleFits(m)'
    <3>1. e.title # m /\ \A i \in Settling(m) : i \notin {} /\ i # e.of
      BY <2>1, <2>10, NoSuchRow
    <3>2. titles'[m] = titles[m]
      BY <1>4, <2>10, OtherTitles
    <3> QED
      BY <2>1, <2>2, <2>8, <3>1, <3>2, UntouchedTitle
  <2> QED
    BY <2>6, <2>9, <2>10, NoSuchRow DEF TitlesFit, MoneyRows
<1> QED
  BY <1>3, <1>4 DEF Clear

\* The row of a cheque that is cleared settles the title of the cheque.
LEMMA ClearedSettles ==
    ASSUME RowTypes, RowsFit, NEW c \in Cheques, cheques[c].status = "cleared"
    PROVE  /\ cheques[c].cleared \in Settling(cheques[c].title)
           /\ entries[cheques[c].cleared].amount = cheques[c].amount
           /\ entries[cheques[c].cleared].title = cheques[c].title
           /\ cheques[c].amount > 0
<1> DEFINE i == cheques[c].cleared
<1>1. ChequeFits(cheques[c])
  BY DEF RowsFit, ChequesFit
<1>2. /\ i # 0 /\ i \in Ids /\ ~entries[i].deleted /\ entries[i].check /\ cheques[c].amount > 0
      /\ entries[i].title = cheques[c].title /\ entries[i].amount = cheques[c].amount
  BY <1>1 DEF ChequeFits, Posted, Live
<1> HIDE DEF i
<1>3. Reversals(i) = {}
  <2>1. \A j \in Ids : entries[j].of # i
    BY <1>2 DEF RowsFit, EntriesFit, EntryFits
  <2> QED
    BY <2>1 DEF Reversals
<1>4. i \notin Undone
  <2> SUFFICES ASSUME i \in Undone PROVE FALSE
    OBVIOUS
  <2>1. PICK d \in Cheques : cheques[d].status = "bounced" /\ cheques[d].cleared = i
    BY DEF Undone
  <2>2. d = c
    BY <1>2, <2>1 DEF RowsFit, OwnClearing, i
  <2> QED
    BY <2>1, <2>2
<1> QED
  BY <1>2, <1>3, <1>4, SettlingIs DEF i

LEMMA BounceMoney ==
    ASSUME RowTypes, RowsFit, TitlesFit, NEW u \in UnitRow, Fits(u), u.op = "bounce", Bounce(u)
    PROVE  MoneyRows
<1> PICK c, t, x, k, n : /\ c = u.id /\ t = cheques[c].title /\ x = cheques[c].amount
                         /\ k = cheques[c].cleared /\ n = Len(entries) + 1
  OBVIOUS
<1> DEFINE e == Entry(u.period, "out", x, None, 0, TRUE)
           cheque == [cheques[c] EXCEPT !.status = "bounced", !.bounced = n]
<1>1. /\ c \in Cheques /\ Len(entries) \in Nat /\ n \in Nat
      /\ cheques[c] \in Cheque /\ cheques \in [Cheques -> Cheque]
  BY DEF Fits, RowTypes
<1>2. t \in Titles \cup {None} /\ x \in Nat
  BY <1>1 DEF Cheque
<1>3. CASE UNCHANGED rowVars
  BY <1>3, SameEntries, StatusStays, QuietRows DEF rowVars
<1>4. CASE /\ cheques[c].status = "cleared" /\ (t # None => Restorable(t, x))
           /\ entries' = Append(entries, e)
           /\ titles' = IF t = None THEN titles ELSE Restoring(t, x)
           /\ cheques' = [cheques EXCEPT ![c].status = "bounced", ![c].bounced = n]
  <2>1. /\ e \in EntryRow /\ e.of = 0 /\ e.check /\ ~e.deleted /\ e.title = None /\ e.amount = x
        /\ e.of <= Len(entries)
    BY <1>1, <1>2 DEF Entry, EntryRow, UnitRow
  <2>2. entries' = Append(entries, e) /\ n = Fresh
    BY <1>4 DEF Fresh
  <2>3. cheques' = [cheques EXCEPT ![c] = cheque]
    BY <1>1, <1>4 DEF Cheque
  <2>4. cheque \in Cheque
    <3>1. cheques[c] \in Cheque /\ n \in Nat
      BY <1>1
    <3>2. "cleared" \in ChequeStatuses /\ "bounced" \in ChequeStatuses
      BY DEF ChequeStatuses
    <3> QED
      BY <3>1, <3>2 DEF Cheque
  <2>5. /\ cheque.status = "bounced" /\ cheque.bounced = n /\ cheque.cleared = k
        /\ cheque.title = t /\ cheque.amount = x /\ cheque.deleted = cheques[c].deleted
    BY <1>1, EditedCheque
  <2>6. k \in Settling(t) /\ entries[k].amount = x /\ entries[k].title = t /\ x > 0
    BY <1>1, <1>4, ClearedSettles
  <2> HIDE DEF e, cheque
  <2>7. RowsFit'
    <3>1. /\ cheque.title = cheques[c].title /\ cheque.amount = cheques[c].amount
          /\ cheque.deleted = cheques[c].deleted /\ e.amount = cheque.amount
          /\ cheques[c].status = "cleared" /\ cheque.status = "bounced"
          /\ cheque.bounced = Fresh /\ cheque.cleared = cheques[c].cleared
          /\ e.title = None
      BY <1>4, <2>1, <2>2, <2>5
    <3> QED
      BY <1>1, <2>1, <2>2, <2>3, <2>4, <3>1, ChequeRow
  <2>8. TakesBack({k})
    <3>1. cheques'[c] = cheque /\ \A d \in Cheques : d # c => cheques'[d] = cheques[d]
      BY <1>1, <2>3
    <3>2. cheques'[c].status = "bounced" /\ cheques'[c].cleared = k /\ cheques[c].status # "bounced"
      BY <1>4, <2>5, <3>1
    <3>3. ASSUME NEW i
          PROVE  /\ i \in Undone' <=> \E d \in Cheques : cheques'[d].status = "bounced"
                                                          /\ cheques'[d].cleared = i
                 /\ i \in Undone <=> \E d \in Cheques : cheques[d].status = "bounced"
                                                         /\ cheques[d].cleared = i
      BY DEF Undone
    <3> QED
      BY <1>1, <3>1, <3>2, <3>3 DEF TakesBack
  <2>9. Fresh \notin {k}
    <3>1. k \in Ids /\ Fresh \notin Ids
      BY <2>1, <2>2, <2>6, Appended, SettlingIs
    <3> QED
      BY <3>1
  <2>10. ASSUME t # None
         PROVE  TitleFits(t)'
    <3>1. t \in Titles
      BY <1>2, <2>10
    <3>0. Settles(e, {k}, t)
      BY <2>1, <2>2, <2>8, <2>9, AppendSettles
    <3>2. \A i \in Settling(t) : entries'[i].amount = entries[i].amount
      BY <3>0 DEF Settles
    <3>3. Settling(t)' = Settling(t) \ {k}
      BY <2>1, <2>10, <3>0, <3>1, NoSuchRow DEF Settles
    <3>4. TitleFits(t) /\ Restorable(t, x) /\ titles' = Restoring(t, x)
      BY <1>4, <2>10, <3>1 DEF TitlesFit
    <3> QED
      BY <1>2, <2>6, <3>1, <3>2, <3>3, <3>4, TitleRestores
  <2>11. ASSUME NEW m \in Titles, m # t
         PROVE  TitleFits(m)'
    <3>1. e.title # m
      BY <2>1, NoSuchRow
    <3>2. \A i \in Settling(m) : i \notin {k} /\ i # e.of
      BY <2>1, <2>6, <2>11, NoSuchRow, SettlingIs
    <3>3. titles'[m] = titles[m]
      BY <1>4, <2>11, OtherTitles
    <3> QED
      BY <2>1, <2>2, <2>8, <2>9, <3>1, <3>2, <3>3, UntouchedTitle
  <2> QED
    BY <2>7, <2>10, <2>11, NoSuchRow DEF TitlesFit, MoneyRows
<1> QED
  BY <1>3, <1>4 DEF Bounce

\* All writes.
LEMMA WriteMoney ==
    ASSUME RowTypes, RowsFit, TitlesFit, NEW r \in Requests, call[r] \in UnitRow,
           Fits(call[r]), UnitFits(call[r]), Write(r)
    PROVE  MoneyRows
BY IssueMoney, CreateMoney, DeleteMoney, ReverseMoney, PayMoney, TitleMoney, ClearMoney,
   BounceMoney DEF Write

\* The edits of a cheque that has moved no money move none.
LEMMA ChequeMoney ==
    ASSUME RowTypes, RowsFit, TitlesFit, NEW c \in Cheques, OnCheque(c)
    PROVE  MoneyRows
<1>a. cheques[c] \in Cheque /\ ChequeFits(cheques[c])
  BY DEF RowTypes, RowsFit, ChequesFit
<1>b. Amounts \subseteq Nat \ {0}
  BY AmountsAssumption
<1>c. /\ ~cheques[c].deleted /\ UNCHANGED <<titles, entries>>
      /\ cheques[c].status \in {"absent", "registered", "deposited"}
  BY DEF OnCheque, Register, Link, Unlink, Deposit, Withdraw, ReturnUnpaid, SetCheque
<1>1. /\ cheques[c] \in Cheque /\ Amounts \subseteq Nat \ {0} /\ ChequeFits(cheques[c])
      /\ ~cheques[c].deleted /\ UNCHANGED <<titles, entries>>
  BY <1>a, <1>b, <1>c
<1>2. cheques[c].cleared = 0 /\ cheques[c].bounced = 0
  BY <1>a, <1>c DEF ChequeFits
<1>3. ASSUME NEW cheque \in Cheque, SetCheque(c, cheque), cheque.cleared = 0, cheque.bounced = 0,
             cheque.status # "cleared", cheque.deleted => cheque.status = "registered",
             cheque.status # "absent" => cheque.amount > 0
      PROVE  MoneyRows
  <2>1. cheques' = [cheques EXCEPT ![c] = cheque]
    BY <1>3 DEF SetCheque
  <2>2. RowsFit' /\ \A i : i # 0 => (i \in Undone' <=> i \in Undone)
    BY <1>1, <1>2, <1>3, <2>1, QuietCheque
  <2>3. ASSUME NEW t \in Titles
        PROVE  TitleFits(t)'
    <3>1. /\ Settling(t)' = Settling(t)
          /\ \A i \in Settling(t) : entries'[i].amount = entries[i].amount
      BY <1>1, <2>2, SameEntries, AlikeSettles
    <3>2. TitleFits(t) /\ titles'[t].paid = titles[t].paid /\ StatusFits(titles'[t])
      BY <1>1, StatusStays DEF TitlesFit
    <3> QED
      BY <3>1, <3>2, TitleStays
  <2> QED
    BY <2>2, <2>3 DEF TitlesFit, MoneyRows
<1>4. ASSUME NEW t \in Titles \cup {None}, NEW x \in Amounts, Register(c, t, x)
      PROVE  MoneyRows
  <2> DEFINE cheque == [cheques[c] EXCEPT !.status = "registered", !.title = t, !.amount = x]
  <2>1. SetCheque(c, cheque) /\ x \in Nat /\ x > 0
    BY <1>1, <1>4 DEF Register
  <2>2. /\ cheque.status = "registered" /\ cheque.amount = x
        /\ cheque.cleared = 0 /\ cheque.bounced = 0
    BY <1>1, <1>2 DEF Cheque
  <2>3. cheque \in Cheque
    <3> DEFINE q == [cheques[c] EXCEPT !.status = "registered"]
               w == [q EXCEPT !.title = t]
    <3>1. q \in Cheque
      BY <1>1 DEF Cheque, ChequeStatuses
    <3> HIDE DEF q
    <3>2. w \in Cheque
      BY <3>1 DEF Cheque
    <3> HIDE DEF w
    <3>3. [w EXCEPT !.amount = x] \in Cheque
      BY <2>1, <3>2 DEF Cheque
    <3> QED
      BY <3>3 DEF q, w
  <2> HIDE DEF cheque
  <2> QED
    BY <1>3, <2>1, <2>2, <2>3
<1>5. ASSUME NEW t \in Titles \cup {None}, cheques[c].status \in {"registered", "deposited"},
             SetCheque(c, [cheques[c] EXCEPT !.title = t])
      PROVE  MoneyRows
  <2> DEFINE cheque == [cheques[c] EXCEPT !.title = t]
  <2>1. /\ cheque \in Cheque /\ cheque.status = cheques[c].status
        /\ cheque.amount = cheques[c].amount /\ cheque.deleted = cheques[c].deleted
        /\ cheque.cleared = 0 /\ cheque.bounced = 0
    BY <1>1, <1>2 DEF Cheque
  <2>2. SetCheque(c, cheque) /\ cheques[c].amount > 0
    BY <1>1, <1>5 DEF ChequeFits
  <2> HIDE DEF cheque
  <2> QED
    BY <1>1, <1>3, <1>5, <2>1, <2>2
<1>6. ASSUME NEW s \in {"deposited", "cancelled", "bounced"}, cheques[c].status # "absent",
             SetCheque(c, [cheques[c] EXCEPT !.status = s])
      PROVE  MoneyRows
  <2> DEFINE cheque == [cheques[c] EXCEPT !.status = s]
  <2>1. /\ cheque \in Cheque /\ cheque.status = s
        /\ cheque.amount = cheques[c].amount /\ cheque.deleted = cheques[c].deleted
        /\ cheque.cleared = 0 /\ cheque.bounced = 0
    BY <1>1, <1>2 DEF Cheque, ChequeStatuses
  <2>2. SetCheque(c, cheque) /\ cheques[c].amount > 0
    BY <1>1, <1>6 DEF ChequeFits
  <2> HIDE DEF cheque
  <2> QED
    BY <1>1, <1>3, <1>6, <2>1, <2>2
<1>7. CASE cheques[c].status = "registered" /\ SetCheque(c, [cheques[c] EXCEPT !.deleted = TRUE])
  <2> DEFINE cheque == [cheques[c] EXCEPT !.deleted = TRUE]
  <2>1. /\ cheque \in Cheque /\ cheque.status = "registered"
        /\ cheque.amount = cheques[c].amount /\ cheque.cleared = 0 /\ cheque.bounced = 0
    BY <1>1, <1>2, <1>7 DEF Cheque
  <2>2. SetCheque(c, cheque) /\ cheques[c].amount > 0
    BY <1>1, <1>7 DEF ChequeFits
  <2> HIDE DEF cheque
  <2> QED
    BY <1>3, <2>1, <2>2
<1>8. CASE Unlink(c) \/ \E t \in Titles : Link(c, t)
  BY <1>5, <1>8 DEF Link, Unlink
<1>9. CASE Deposit(c) \/ Withdraw(c) \/ ReturnUnpaid(c)
  BY <1>6, <1>7, <1>9 DEF Deposit, Withdraw, ReturnUnpaid
<1> QED
  BY <1>4, <1>8, <1>9 DEF OnCheque

---------------------------------------------------------------------------
(* The units under way, after a step.                                      *)

\* What a row reverses and how it is paid stays.
OriginsKept ==
    \A i \in Ids : entries'[i].of = entries[i].of /\ entries'[i].check = entries[i].check

LEMMA AppendOrigins ==
    ASSUME RowTypes, NEW e, entries' = Append(entries, e)
    PROVE  OriginsKept
BY DEF OriginsKept, RowTypes, Ids

LEMMA WriteOrigins ==
    ASSUME RowTypes, NEW r \in Requests, call[r] \in UnitRow, Fits(call[r]), Write(r)
    PROVE  OriginsKept
<1> DEFINE u == call[r]
<1>1. CASE UNCHANGED entries
  BY <1>1 DEF OriginsKept
<1>2. ASSUME NEW e, entries' = Append(entries, e)
      PROVE  OriginsKept
  BY <1>2, AppendOrigins
<1>3. ASSUME u.op = "delete", entries' = [entries EXCEPT ![u.id].deleted = TRUE]
      PROVE  OriginsKept
  <2>1. u.id \in Ids
    BY <1>3 DEF Fits
  <2>2. /\ \A j \in Ids : j # u.id => entries'[j] = entries[j]
        /\ entries'[u.id].of = entries[u.id].of /\ entries'[u.id].check = entries[u.id].check
    BY <1>3, <2>1, EditRow
  <2> QED
    BY <2>2 DEF OriginsKept
<1>4. CASE u.op = "create" \/ u.op = "pay" \/ u.op = "reverse"
  BY <1>1, <1>2, <1>4 DEF Write, Create, Pay, Reverse, Counter
<1>5. CASE u.op = "clear" \/ u.op = "bounce"
  BY <1>1, <1>2, <1>5 DEF Write, Clear, Bounce, rowVars
<1>6. CASE u.op = "delete"
  BY <1>1, <1>3, <1>6 DEF Write, Delete
<1>7. CASE u.op = "issue" \/ u.op = "amount" \/ u.op = "status" \/ u.op = "drop"
  BY <1>1, <1>7 DEF Write, Issue, ChangeAmount, ChangeStatus, Drop
<1> QED
  BY <1>4, <1>5, <1>6, <1>7 DEF Write

LEMMA UnitStays ==
    ASSUME OriginsKept, NEW u, Fits(u), UnitFits(u)
    PROVE  /\ u.op = "reverse" => entries'[u.id].of = 0 /\ ~entries'[u.id].check
           /\ u.op = "pay" => u.amount > 0
BY DEF OriginsKept, Fits, UnitFits

\* One unit begins, enters or ends, or none.
LEMMA CallsStay ==
    ASSUME CallsFit, UnitsFit, OriginsKept, call \in [Requests -> UnitRow],
           NEW r \in Requests, NEW u, Fits(u), UnitFits(u), call' = [call EXCEPT ![r] = u]
    PROVE  CallsFit'
<1> SUFFICES ASSUME NEW q \in Requests PROVE UnitFits(call[q])'
  BY DEF CallsFit
<1>1. CASE q = r
  BY <1>1, UnitStays DEF UnitFits
<1>2. CASE q # r
  <2>1. call'[q] = call[q] /\ Fits(call[q]) /\ UnitFits(call[q])
    BY <1>2 DEF CallsFit, UnitsFit
  <2> QED
    BY <2>1, UnitStays DEF UnitFits
<1> QED
  BY <1>1, <1>2

LEMMA CallsWait ==
    ASSUME CallsFit, UnitsFit, OriginsKept, UNCHANGED call
    PROVE  CallsFit'
<1> SUFFICES ASSUME NEW q \in Requests PROVE UnitFits(call[q])'
  BY DEF CallsFit
<1>1. call'[q] = call[q] /\ Fits(call[q]) /\ UnitFits(call[q])
  BY DEF CallsFit, UnitsFit
<1> QED
  BY <1>1, UnitStays DEF UnitFits

---------------------------------------------------------------------------
(* The second invariant holds of each kind of step.                        *)

\* No unit is at work on nothing.
LEMMA IdleFits == Fits(NoUnit) /\ UnitFits(NoUnit)
BY IdleUnit DEF UnitFits

\* The initial state: nothing is there.
LEMMA FirstMoney == Init => MoneyInv
<1> SUFFICES ASSUME Init PROVE MoneyInv
  OBVIOUS
<1>1. Ids = {} /\ titles \in [Titles -> {[status |-> "absent", amount |-> 0, paid |-> 0,
                                          period |-> Today, deleted |-> FALSE]}]
  BY DEF Init, Ids
<1>2. EntriesFit /\ CounterStands /\ ChequeOf
  BY <1>1 DEF EntriesFit, CounterStands, ChequeOf
<1>3. ChequesFit /\ OwnClearing
  BY DEF Init, ChequesFit, ChequeFits, OwnClearing
<1>4. ASSUME NEW t \in Titles
      PROVE  TitleFits(t)
  <2>1. Settling(t) = {}
    BY <1>1 DEF Settling
  <2>2. Total(entries, {}) = 0
    BY TotalWithout, FS_EmptySet
  <2> QED
    BY <1>1, <2>1, <2>2 DEF TitleFits, StatusFits
<1>5. CallsFit
  BY IdleFits DEF Init, CallsFit
<1> QED
  BY <1>2, <1>3, <1>4, <1>5 DEF MoneyInv, RowsFit, TitlesFit

\* A step that leaves the rows alone.
LEMMA QuietMoney ==
    ASSUME RowTypes, MoneyInv, UNCHANGED rowVars
    PROVE  MoneyRows /\ OriginsKept
<1>1. UNCHANGED <<titles, entries, cheques>> /\ RowsFit /\ TitlesFit
  BY DEF rowVars, MoneyInv
<1>2. MoneyRows
  BY <1>1, SameEntries, StatusStays, QuietRows
<1> QED
  BY <1>1, <1>2 DEF OriginsKept

\* A request begins a unit; what it reverses is an original and no cheque's.
LEMMA BeginMoney ==
    ASSUME SnapshotInv, MoneyInv, NEW r \in Requests, NEW u, Begin(r, u), Fits(u), UnitFits(u)
    PROVE  MoneyInv'
<1>1. RowTypes /\ UnitsFit /\ call \in [Requests -> UnitRow]
  BY DEF SnapshotInv, TypeOK, RowTypes
<1>2. MoneyRows /\ OriginsKept /\ call' = [call EXCEPT ![r] = u]
  BY <1>1, QuietMoney DEF Begin
<1>3. CallsFit'
  BY <1>1, <1>2, CallsStay DEF MoneyInv
<1> QED
  BY <1>2, <1>3 DEF MoneyInv, MoneyRows

LEMMA RequestMoney ==
    ASSUME SnapshotInv, MoneyInv, NEW r \in Requests,
           \/ \E t \in Titles : BeginTitle(r, t)
           \/ BeginEntry(r)
           \/ \E c \in Cheques : BeginClear(r, c) \/ BeginBounce(r, c)
    PROVE  MoneyInv'
<1> DEFINE Ops == {"issue", "create", "delete", "reverse", "pay", "amount", "status", "drop",
                   "clear", "bounce"}
<1>1. RowTypes /\ RowsFit /\ Parts \subseteq Nat \ {0} /\ Amounts \subseteq Nat /\ Today \in Periods
  BY AmountsAssumption DEF SnapshotInv, TypeOK, RowTypes, MoneyInv
<1>2. \A t \in Titles : titles[t].period \in Periods
  BY <1>1 DEF RowTypes, Title
<1>3. \A i \in Ids : i \in Nat /\ entries[i].period \in Periods
  BY <1>1, IdsAre DEF EntryRow
<1>4. ASSUME NEW t \in Titles, BeginTitle(r, t)
      PROVE  MoneyInv'
  <2>1. ASSUME NEW p \in Periods, NEW x \in Amounts, BeginIssue(r, t, p, x) PROVE MoneyInv'
    <3> DEFINE u == [Unit("issue", t, p) EXCEPT !.amount = x]
    <3>1. u.op = "issue" /\ u.id = t
      BY <1>1, UnitFields
    <3>2. titles[t].status = "absent" /\ Begin(r, u)
      BY <2>1 DEF BeginIssue, Ask
    <3> HIDE DEF u
    <3> QED
      BY <3>1, <3>2, BeginMoney DEF Fits, UnitFits
  <2>2. ASSUME NEW p \in Periods, NEW x \in Parts, BeginPay(r, t, p, x) PROVE MoneyInv'
    <3> DEFINE u == [Unit("pay", t, p) EXCEPT !.amount = x]
    <3>1. u.op = "pay" /\ u.id = t
      BY <1>1, UnitFields
    <3>2. u.amount = x /\ x > 0
      BY <1>1 DEF Unit
    <3>3. Begin(r, u)
      BY <2>2 DEF BeginPay, Ask
    <3> HIDE DEF u
    <3> QED
      BY <3>1, <3>2, <3>3, BeginMoney DEF Fits, UnitFits
  <2>3. ASSUME NEW x \in Amounts, BeginAmount(r, t, x) PROVE MoneyInv'
    <3> DEFINE u == [Unit("amount", t, titles[t].period) EXCEPT !.amount = x]
    <3>1. u.op = "amount" /\ u.id = t /\ u.period = titles[t].period
      BY <1>1, <1>2, UnitFields
    <3>2. titles[t].status # "absent" /\ Begin(r, u)
      BY <2>3 DEF BeginAmount, Ask, Stored
    <3> HIDE DEF u
    <3> QED
      BY <3>1, <3>2, BeginMoney DEF Fits, UnitFits
  <2>4. ASSUME NEW to \in TitleStatuses, BeginStatus(r, t, to) PROVE MoneyInv'
    <3> DEFINE u == [Unit("status", t, titles[t].period) EXCEPT !.to = to]
    <3>1. u.op = "status" /\ u.id = t /\ u.period = titles[t].period
      BY <1>1, <1>2, UnitFields
    <3>2. titles[t].status # "absent" /\ Begin(r, u)
      BY <2>4 DEF BeginStatus, Ask, Stored
    <3> HIDE DEF u
    <3> QED
      BY <3>1, <3>2, BeginMoney DEF Fits, UnitFits
  <2>5. CASE BeginDrop(r, t)
    <3> DEFINE u == Unit("drop", t, titles[t].period)
    <3>1. u.op = "drop" /\ u.id = t /\ u.period = titles[t].period
      BY <1>1, <1>2, UnitFields
    <3>2. titles[t].status # "absent" /\ Begin(r, u)
      BY <2>5 DEF BeginDrop, Ask, Stored
    <3> HIDE DEF u
    <3> QED
      BY <3>1, <3>2, BeginMoney DEF Fits, UnitFits
  <2> QED
    BY <1>4, <2>1, <2>2, <2>3, <2>4, <2>5 DEF BeginTitle
<1>5. ASSUME NEW p \in Periods, NEW x \in Parts, BeginCreate(r, p, x) PROVE MoneyInv'
  <2> DEFINE u == [Unit("create", None, p) EXCEPT !.amount = x]
  <2>1. u.op = "create"
    BY DEF Unit
  <2>2. Begin(r, u)
    BY <1>5 DEF BeginCreate, Ask
  <2> HIDE DEF u
  <2> QED
    BY <2>1, <2>2, BeginMoney DEF Fits, UnitFits
<1>6. ASSUME NEW i \in Ids, BeginDelete(r, i) PROVE MoneyInv'
  <2> DEFINE u == Unit("delete", i, entries[i].period)
  <2>1. u.op = "delete" /\ u.id = i /\ u.period = entries[i].period
    BY <1>3, UnitFields
  <2>2. Begin(r, u)
    BY <1>6 DEF BeginDelete, Ask
  <2> HIDE DEF u
  <2> QED
    BY <2>1, <2>2, BeginMoney DEF Fits, UnitFits
<1>7. ASSUME NEW i \in Ids, BeginReverse(r, i) PROVE MoneyInv'
  <2> DEFINE u == Unit("reverse", i, Today)
  <2>1. u.op = "reverse" /\ u.id = i
    BY <1>1, <1>3, UnitFields
  <2>2. Begin(r, u) /\ Live(i) /\ entries[i].of = 0 /\ ~OfCheque(i)
    BY <1>7 DEF BeginReverse, Ask, ReverseAllowed
  <2> HIDE DEF u
  <2>3. ~entries[i].check
    BY <1>1, <2>2, NotByCheque
  <2> QED
    BY <2>1, <2>2, <2>3, BeginMoney DEF Fits, UnitFits
<1>8. ASSUME NEW c \in Cheques, NEW op \in {"clear", "bounce"}, Begin(r, Unit(op, c, Today))
      PROVE  MoneyInv'
  <2> DEFINE u == Unit(op, c, Today)
  <2>1. u.op = op /\ u.id = c
    BY <1>1, UnitFields
  <2>2. Begin(r, u)
    BY <1>8
  <2> HIDE DEF u
  <2> QED
    BY <2>1, <2>2, BeginMoney DEF Fits, UnitFits
<1> QED
  BY <1>4, <1>5, <1>6, <1>7, <1>8 DEF BeginEntry, BeginClear, BeginBounce

\* A unit is granted its lock, or ends without a write.
LEMMA EnterMoney ==
    ASSUME SnapshotInv, MoneyInv, NEW r \in Requests, Enter(r) \/ RollBack(r)
    PROVE  MoneyInv'
<1>1. RowTypes /\ UnitsFit /\ CallsFit /\ call \in [Requests -> UnitRow] /\ UNCHANGED rowVars
  BY DEF SnapshotInv, TypeOK, RowTypes, MoneyInv, Enter, RollBack
<1>2. MoneyRows /\ OriginsKept
  BY <1>1, QuietMoney
<1>3. CASE call' = [call EXCEPT ![r] = NoUnit]
  BY <1>1, <1>2, <1>3, IdleFits, CallsStay DEF MoneyInv, MoneyRows
<1>4. CASE call' = [call EXCEPT ![r].pc = "write"]
  <2> DEFINE u == [call[r] EXCEPT !.pc = "write"]
  <2>1. /\ u.op = call[r].op /\ u.id = call[r].id
        /\ u.period = call[r].period /\ u.amount = call[r].amount
    BY <1>1 DEF UnitRow
  <2>2. call' = [call EXCEPT ![r] = u]
    BY <1>4
  <2>3. Fits(call[r]) /\ UnitFits(call[r])
    BY <1>1 DEF UnitsFit, CallsFit
  <2> HIDE DEF u
  <2>4. Fits(u) /\ UnitFits(u)
    BY <2>1, <2>3 DEF Fits, UnitFits
  <2> QED
    BY <1>1, <1>2, <2>2, <2>4, CallsStay DEF MoneyInv, MoneyRows
<1> QED
  BY <1>3, <1>4 DEF Enter, RollBack

\* Every step keeps it, and the first invariant says what the tables hold.
LEMMA MoneyInvIsInductive == SnapshotInv /\ MoneyInv /\ [Next]_vars => MoneyInv'
<1> SUFFICES ASSUME SnapshotInv, MoneyInv, [Next]_vars PROVE MoneyInv'
  OBVIOUS
<1>1. /\ RowTypes /\ UnitsFit /\ call \in [Requests -> UnitRow]
      /\ RowsFit /\ TitlesFit /\ CallsFit
  BY DEF SnapshotInv, TypeOK, RowTypes, MoneyInv
<1>2. ASSUME NEW r \in Requests, NEW t \in Titles, BeginTitle(r, t) PROVE MoneyInv'
  BY <1>2, RequestMoney
<1>3. ASSUME NEW r \in Requests,
             BeginEntry(r) \/ \E c \in Cheques : BeginClear(r, c) \/ BeginBounce(r, c)
      PROVE  MoneyInv'
  BY <1>3, RequestMoney
<1>4. ASSUME NEW r \in Requests, Enter(r) \/ RollBack(r) PROVE MoneyInv'
  BY <1>4, EnterMoney
<1>5. ASSUME NEW r \in Requests, Write(r) PROVE MoneyInv'
  <2>1. call[r] \in UnitRow /\ Fits(call[r]) /\ UnitFits(call[r])
    BY <1>1 DEF UnitsFit, CallsFit
  <2>2. MoneyRows /\ OriginsKept
    BY <1>1, <1>5, <2>1, WriteMoney, WriteOrigins
  <2>3. call' = [call EXCEPT ![r] = NoUnit]
    BY <1>5 DEF Write
  <2>4. CallsFit'
    BY <1>1, <2>2, <2>3, IdleFits, CallsStay
  <2> QED
    BY <2>2, <2>4 DEF MoneyInv, MoneyRows
<1>6. ASSUME NEW i \in Ids, Reconcile(i) PROVE MoneyInv'
  <2>1. MoneyRows
    BY <1>1, <1>6, ReconcileMoney
  <2>2. OriginsKept
    <3> DEFINE b == ~entries[i].reconciled
    <3>1. b \in BOOLEAN /\ entries' = [entries EXCEPT ![i].reconciled = b]
      BY <1>6 DEF Reconcile
    <3> HIDE DEF b
    <3>2. /\ \A j \in Ids : j # i => entries'[j] = entries[j]
          /\ entries'[i].of = entries[i].of /\ entries'[i].check = entries[i].check
      BY <1>1, <3>1, EditRow
    <3> QED
      BY <3>2 DEF OriginsKept
  <2>3. CallsFit'
    BY <1>1, <1>6, <2>2, CallsWait DEF Reconcile
  <2> QED
    BY <2>1, <2>3 DEF MoneyInv, MoneyRows
<1>7. ASSUME NEW c \in Cheques, OnCheque(c) PROVE MoneyInv'
  <2>1. MoneyRows
    BY <1>1, <1>7, ChequeMoney
  <2>2. UNCHANGED <<entries, call>>
    BY <1>7
       DEF OnCheque, Register, Link, Unlink, Deposit, Withdraw, ReturnUnpaid, SetCheque
  <2>3. CallsFit'
    BY <1>1, <2>2, CallsWait DEF OriginsKept
  <2> QED
    BY <2>1, <2>3 DEF MoneyInv, MoneyRows
<1>8. CASE UNCHANGED vars \/ Close \/ \E p \in Periods : ReadForClose(p) \/ Reopen(p)
  <2>1. UNCHANGED <<rowVars, call>>
    BY <1>8 DEF vars, Close, ReadForClose, Reopen
  <2>2. MoneyRows /\ OriginsKept
    BY <1>1, <2>1, QuietMoney
  <2>3. CallsFit'
    BY <1>1, <2>1, <2>2, CallsWait
  <2> QED
    BY <2>2, <2>3 DEF MoneyInv, MoneyRows
<1> QED
  BY <1>2, <1>3, <1>4, <1>5, <1>6, <1>7, <1>8 DEF Next

\* The second invariant holds in every state.
THEOREM MoneyInvariant == Spec => []MoneyInv
BY FirstMoney, SnapshotInvariant, MoneyInvIsInductive, PTL DEF Spec

---------------------------------------------------------------------------
(* What follows from the second invariant.                                 *)

\* What a title says is paid is the sum of the entries that settle it, and its
\* status says as much, whichever payments, reversals, cheques and edits of the
\* amount race (Omega6R-DIN-001 and DIN-002).
THEOREM PaidIsSettled == Spec => []PaidMatchesEntries
<1>1. SnapshotInv /\ MoneyInv => PaidMatchesEntries
  <2> SUFFICES ASSUME SnapshotInv, MoneyInv, NEW t \in Titles
               PROVE  /\ titles[t].paid = MapThenSumSet(LAMBDA i : entries[i].amount, Settling(t))
                      /\ (titles[t].paid > 0) =
                             (titles[t].status = IF titles[t].paid = titles[t].amount
                                                 THEN "paid" ELSE "partially_paid")
    BY DEF PaidMatchesEntries
  <2>1. TitleFits(t) /\ titles[t].paid \in Nat
    BY DEF MoneyInv, TitlesFit, SnapshotInv, TypeOK, Title
  <2>2. titles[t].paid = MapThenSumSet(LAMBDA i : entries[i].amount, Settling(t))
    BY <2>1 DEF TitleFits, Total, Folds, MapThenSumSet, MapThenFoldSet
  <2>3. CASE titles[t].paid = 0
    BY <2>1, <2>2, <2>3 DEF TitleFits, StatusFits
  <2>4. CASE titles[t].paid # 0
    BY <2>1, <2>2, <2>4 DEF TitleFits, StatusFits
  <2> QED
    BY <2>3, <2>4
<1> QED
  BY <1>1, SnapshotInvariant, MoneyInvariant, PTL

\* Money is undone once: a counter-entry stands beside one live original, and
\* the rows by cheque are those of each cheque's clearing and bounce.
THEOREM UndoneJustOnce == Spec => []UndoneOnce
<1>1. SnapshotInv /\ MoneyInv => UndoneOnce
  <2> SUFFICES ASSUME SnapshotInv, MoneyInv PROVE UndoneOnce
    OBVIOUS
  <2>1. RowTypes /\ RowsFit
    BY DEF SnapshotInv, TypeOK, RowTypes, MoneyInv
  <2> DEFINE rows == {i \in Ids : Live(i) /\ entries[i].check}
             posted == (UNION {{cheques[c].cleared, cheques[c].bounced} : c \in Cheques}) \ {0}
  <2>2. \A i : i \in posted <=> /\ i # 0
                                /\ \E c \in Cheques : i = cheques[c].cleared \/ i = cheques[c].bounced
    OBVIOUS
  <2>3. ASSUME NEW i \in rows
        PROVE  i \in posted
    <3>1. i # 0
      BY <2>1, IdsAre
    <3>2. \E c \in Cheques : i \in {cheques[c].cleared, cheques[c].bounced}
      BY <2>1 DEF RowsFit, ChequeOf, Live
    <3> QED
      BY <2>2, <3>1, <3>2
  <2>4. ASSUME NEW i \in posted
        PROVE  i \in rows
    <3>1. PICK c \in Cheques : i = cheques[c].cleared \/ i = cheques[c].bounced
      BY <2>2
    <3>2. i # 0
      BY <2>2
    <3>3. Live(i) /\ entries[i].check
      BY <2>1, <3>1, <3>2 DEF RowsFit, ChequesFit, ChequeFits, Posted
    <3> QED
      BY <3>3 DEF Live
  <2>5. rows = posted
    BY <2>3, <2>4
  <2>6. ASSUME NEW c \in Cheques
        PROVE  /\ cheques[c].status = "cleared" => cheques[c].cleared # 0
               /\ cheques[c].cleared # 0 =>
                      (cheques[c].status = "cleared") = (cheques[c].bounced = 0)
    <3>1. ChequeFits(cheques[c])
      BY <2>1 DEF RowsFit, ChequesFit
    <3> QED
      BY <3>1 DEF ChequeFits
  <2> HIDE DEF rows, posted
  <2> QED
    BY <2>1, <2>5, <2>6 DEF UndoneOnce, RowsFit, CounterStands, rows, posted
<1> QED
  BY <1>1, SnapshotInvariant, MoneyInvariant, PTL
=============================================================================
