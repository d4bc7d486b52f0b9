------------------------- MODULE CustodyTrailProofs -------------------------
(***************************************************************************)
(* Machine-checked theorems about CustodyTrail, for any removals, sweeps,  *)
(* requests, pages, days and faults.                                       *)
(***************************************************************************)
EXTENDS CustodyTrail, SequenceTheorems, TLAPS

---------------------------------------------------------------------------
(* The invariant.                                                          *)

Types   == {Status(s) : s \in Lifecycle!Statuses} \cup (Kinds \X NoteStatuses)
Hashes  == Seq(Nat \cup (Nat \X Types))
Events  == [seq : Nat, prev : Hashes, type : Types]
Anchors == [seq : Nat, hash : Hashes]
Rows    == [order : Orders, status : Lifecycle!Statuses, entered : 0 .. MaxDay,
            stopped : BOOLEAN, seq : Nat, hash : Hashes]

RecordTypes ==
    /\ procs \in Seq(Rows) /\ chain \in Seq(Seq(Events))
    /\ anchors \in Seq(SUBSET Anchors) /\ outbox \in Seq(Seq(Events))
    /\ notes \in Seq([Kinds -> NoteStatuses])
    /\ Len(chain) = Len(procs) /\ Len(anchors) = Len(procs)
    /\ Len(outbox) = Len(procs) /\ Len(notes) = Len(procs)

\* What is stored of each process verifies; no chain is empty.
ChainsSound ==
    \A p \in Ids : /\ chain[p] # <<>>
                   /\ Valid(p, procs[p].seq, procs[p].hash, chain[p], anchors[p])

SweepRecords ==
    [pc : {"idle", "next", "open", "cure", "enter"}, todo : SUBSET (Orders \X Nat),
     order : Orders \cup {NoOrder}, proc : Nat]

NotifierRecords ==
    [pc : {"idle", "next", "mark"}, at : 0 .. MaxDay, todo : SUBSET Nat, proc : Nat,
     kinds : SUBSET Kinds]

ClerkRecords == [pc : {"idle", "commit"}, proc : Nat, edge : Edges \cup {<<"", "">>}]

\* A sweep is about completed removals, and the processes it has found.
SweepFits(s) ==
    /\ \A x \in s.todo : completed[x[1]] > 0 /\ x[2] \in {0} \cup Ids
    /\ s.pc \in {"open", "cure", "enter"} => s.order \in Orders /\ completed[s.order] > 0
    /\ s.pc \in {"cure", "enter"} => s.proc \in Ids

NotifierFits(n) == n.todo \subseteq Ids /\ (n.pc = "mark" => n.proc \in Ids)

ClerkFits(c) == c.pc = "commit" => c.proc \in Ids /\ c.edge \in Edges

SweepsFit ==
    sweep \in [Sweeps -> SweepRecords] /\ \A w \in Sweeps : SweepFits(sweep[w])

NotifiersFit ==
    notifier \in [Notifiers -> NotifierRecords] /\ \A n \in Notifiers : NotifierFits(notifier[n])

ClerksFit == clerk \in [Clerks -> ClerkRecords] /\ \A c \in Clerks : ClerkFits(clerk[c])

\* The snapshot of a verification verifies; what was read is of the snapshot.
VerifierFits ==
    /\ verifier.valid
    /\ verifier.pc \in {"events", "anchors"} =>
           /\ Valid(verifier.proc, verifier.snap.seq, verifier.snap.hash,
                    verifier.snap.events, verifier.snap.anchors)
           /\ verifier.seq = verifier.snap.seq /\ verifier.hash = verifier.snap.hash
    /\ verifier.pc = "anchors" => verifier.events = verifier.snap.events

CountTypes ==
    /\ now \in Days /\ completed \in [Orders -> 0 .. MaxDay]
    /\ moves \in 0 .. MaxMoves /\ faults \in 0 .. MaxFaults

TrailInv ==
    /\ RecordTypes /\ ChainsSound /\ CountTypes
    /\ SweepsFit /\ NotifiersFit /\ ClerksFit /\ VerifierFits

---------------------------------------------------------------------------
(* The chain.                                                              *)

LEMMA HashType == ASSUME NEW e \in Events PROVE HashOf(e) \in Hashes
<1>1. <<e.seq, e.type>> \in Nat \cup (Nat \X Types) /\ e.prev \in Hashes
  BY DEF Events
<1> QED
  BY <1>1, AppendProperties DEF HashOf, Hashes

\* One row of a table of sequences is replaced.
LEMMA RowReplaced ==
    ASSUME NEW S, NEW s \in Seq(S), NEW p \in 1 .. Len(s), NEW x \in S, NEW t,
           t = [s EXCEPT ![p] = x]
    PROVE  /\ t \in Seq(S) /\ Len(t) = Len(s) /\ t[p] = x
           /\ \A q \in 1 .. Len(s) : q # p => t[q] = s[q]
BY ExceptSeq

LEMMA RowAdded ==
    ASSUME NEW S, NEW s \in Seq(S), NEW x \in S, NEW t, t = Append(s, x)
    PROVE  /\ t \in Seq(S) /\ Len(t) = Len(s) + 1 /\ t[Len(s) + 1] = x
           /\ \A q \in 1 .. Len(s) : t[q] = s[q]
BY AppendProperties

\* A sound chain grows by the next event, its head by the event's hash.
LEMMA ValidGrows ==
    ASSUME NEW p, NEW seq, NEW hash, NEW events \in Seq(Events), events # <<>>,
           NEW found \in SUBSET Anchors, Valid(p, seq, hash, events, found),
           NEW e \in Events, e.seq = seq + 1, e.prev = hash
    PROVE  Valid(p, e.seq, HashOf(e), Append(events, e),
                 found \cup {[seq |-> e.seq, hash |-> HashOf(e)]})
<1> DEFINE all == Append(events, e)
           n == Len(events)
<1>1. /\ n \in Nat \ {0} /\ Len(all) = n + 1 /\ all[n + 1] = e /\ all # <<>>
      /\ \A i \in 1 .. n : all[i] = events[i]
      /\ DOMAIN all = 1 .. n + 1 /\ DOMAIN events = 1 .. n
  BY AppendProperties, EmptySeq
<1>2. /\ \A i \in 1 .. n : events[i].seq = i
      /\ \A i \in 1 .. n : events[i].prev = IF i = 1 THEN Genesis(p) ELSE HashOf(events[i - 1])
      /\ n = seq /\ hash = HashOf(events[n])
      /\ \A a \in found : a.seq <= seq
      /\ \A i \in 1 .. n : [seq |-> i, hash |-> HashOf(events[i])] \in found
  BY <1>1 DEF Valid
<1> HIDE DEF all, n
<1>3. \A i \in 1 .. n + 1 : all[i].seq = i
  BY <1>1, <1>2
<1>4. \A i \in 1 .. n + 1 : all[i].prev = IF i = 1 THEN Genesis(p) ELSE HashOf(all[i - 1])
  <2> SUFFICES ASSUME NEW i \in 1 .. n + 1
               PROVE  all[i].prev = IF i = 1 THEN Genesis(p) ELSE HashOf(all[i - 1])
    OBVIOUS
  <2>1. CASE i = n + 1
    <3>1. i # 1 /\ all[i - 1] = events[n] /\ all[i] = e
      BY <1>1, <2>1
    <3> QED
      BY <1>2, <3>1
  <2>2. CASE i \in 1 .. n
    <3>1. all[i] = events[i] /\ (i # 1 => all[i - 1] = events[i - 1])
      BY <1>1, <2>2
    <3> QED
      BY <1>2, <2>2, <3>1
  <2> QED
    BY <1>1, <2>1, <2>2
<1>5. \A a \in found \cup {[seq |-> e.seq, hash |-> HashOf(e)]} : a.seq <= e.seq
  BY <1>1, <1>2 DEF Anchors
<1>6. \A i \in 1 .. n + 1 : [seq |-> i, hash |-> HashOf(all[i])]
          \in found \cup {[seq |-> e.seq, hash |-> HashOf(e)]}
  BY <1>1, <1>2
<1> QED
  BY <1>1, <1>2, <1>3, <1>4, <1>5, <1>6 DEF Valid, all

\* The records a commit appends to: every other process is left alone.
Grows(p, row) ==
    /\ procs' \in Seq(Rows) /\ chain' \in Seq(Seq(Events))
    /\ anchors' \in Seq(SUBSET Anchors) /\ outbox' \in Seq(Seq(Events))
    /\ Len(procs') = Len(procs) /\ Len(chain') = Len(procs) /\ Len(anchors') = Len(procs)
    /\ Len(outbox') = Len(procs)
    /\ procs'[p].entered = row.entered /\ procs'[p].order = row.order
    /\ \A q \in Ids : q # p => procs'[q] = procs[q]
    /\ ChainsSound'

\* An append, whether it is captured for the outbox or not.
Appended(p, row, type) ==
    LET event == Event(procs[p], type)
    IN  /\ procs' = [procs EXCEPT ![p] = [row EXCEPT !.seq = event.seq, !.hash = HashOf(event)]]
        /\ chain' = [chain EXCEPT ![p] = Append(@, event)]
        /\ anchors' = [anchors EXCEPT ![p] =
                          @ \cup {[seq |-> event.seq, hash |-> HashOf(event)]}]
        /\ \/ outbox' = [outbox EXCEPT ![p] = Append(@, event)]
           \/ outbox' = [outbox EXCEPT ![p] = @]

LEMMA AppendStep ==
    ASSUME RecordTypes, ChainsSound, NEW p \in Ids, NEW row \in Rows, NEW type \in Types,
           Appended(p, row, type)
    PROVE  Grows(p, row)
<1> DEFINE e == Event(procs[p], type)
           new == [row EXCEPT !.seq = e.seq, !.hash = HashOf(e)]
           found == anchors[p] \cup {[seq |-> e.seq, hash |-> HashOf(e)]}
<1>1. /\ procs \in Seq(Rows) /\ chain \in Seq(Seq(Events)) /\ anchors \in Seq(SUBSET Anchors)
      /\ outbox \in Seq(Seq(Events)) /\ Len(procs) \in Nat
      /\ p \in 1 .. Len(procs) /\ p \in 1 .. Len(chain) /\ p \in 1 .. Len(anchors)
      /\ p \in 1 .. Len(outbox)
  BY LenProperties DEF RecordTypes, Ids
<1>2. procs[p] \in Rows /\ chain[p] \in Seq(Events) /\ anchors[p] \in SUBSET Anchors
      /\ outbox[p] \in Seq(Events)
  BY <1>1, ElementOfSeq
<1>3. e \in Events /\ e.seq = procs[p].seq + 1 /\ e.prev = procs[p].hash
  BY <1>2 DEF Event, Events, Rows
<1>4. HashOf(e) \in Hashes
  BY <1>3, HashType
<1>5. e.seq \in Nat
  BY <1>3 DEF Events
<1>6. [seq |-> e.seq, hash |-> HashOf(e)] \in Anchors
  BY <1>4, <1>5 DEF Anchors
<1> HIDE DEF e
<1>7. /\ new \in Rows /\ new.seq = e.seq /\ new.hash = HashOf(e)
      /\ new.entered = row.entered /\ new.order = row.order
  BY <1>4, <1>5 DEF Rows
<1>8. found \in SUBSET Anchors /\ Append(chain[p], e) \in Seq(Events)
      /\ Append(chain[p], e) # <<>> /\ Append(outbox[p], e) \in Seq(Events)
  BY <1>2, <1>3, <1>6, AppendProperties
<1>9. Valid(p, e.seq, HashOf(e), Append(chain[p], e), found)
  BY <1>2, <1>3, ValidGrows DEF ChainsSound
<1>10. /\ procs' = [procs EXCEPT ![p] = new]
       /\ chain' = [chain EXCEPT ![p] = Append(chain[p], e)]
       /\ anchors' = [anchors EXCEPT ![p] = found]
       /\ \/ outbox' = [outbox EXCEPT ![p] = Append(outbox[p], e)]
          \/ outbox' = [outbox EXCEPT ![p] = outbox[p]]
  BY DEF Appended, e
<1> HIDE DEF new, found
<1>11. /\ procs' \in Seq(Rows) /\ Len(procs') = Len(procs) /\ procs'[p] = new
       /\ \A q \in 1 .. Len(procs) : q # p => procs'[q] = procs[q]
  BY <1>1, <1>7, <1>10, RowReplaced
<1>12. /\ chain' \in Seq(Seq(Events)) /\ Len(chain') = Len(chain) /\ chain'[p] = Append(chain[p], e)
       /\ \A q \in 1 .. Len(chain) : q # p => chain'[q] = chain[q]
  BY <1>1, <1>8, <1>10, RowReplaced
<1>13. /\ anchors' \in Seq(SUBSET Anchors) /\ Len(anchors') = Len(anchors) /\ anchors'[p] = found
       /\ \A q \in 1 .. Len(anchors) : q # p => anchors'[q] = anchors[q]
  BY <1>1, <1>8, <1>10, RowReplaced
<1>14. outbox' \in Seq(Seq(Events)) /\ Len(outbox') = Len(outbox)
  <2>1. CASE outbox' = [outbox EXCEPT ![p] = Append(outbox[p], e)]
    BY <1>1, <1>8, <2>1, RowReplaced
  <2>2. CASE outbox' = [outbox EXCEPT ![p] = outbox[p]]
    BY <1>1, <1>2, <2>2, RowReplaced
  <2> QED
    BY <1>10, <2>1, <2>2
<1>15. ChainsSound'
  BY <1>7, <1>8, <1>9, <1>11, <1>12, <1>13 DEF ChainsSound, Ids, RecordTypes
<1> QED
  BY <1>7, <1>11, <1>12, <1>13, <1>14, <1>15 DEF Grows, RecordTypes, Ids

\* A process that is created has the sound chain of its creation.
LEMMA CreateStep ==
    ASSUME RecordTypes, ChainsSound, NEW row \in Rows,
           NEW types, types \in Seq(Types), Len(types) \in {1, 2}, Create(row, types)
    PROVE  /\ RecordTypes' /\ ChainsSound' /\ Len(procs') = Len(procs) + 1
           /\ \A q \in Ids : procs'[q] = procs[q] /\ notes'[q] = notes[q]
<1> DEFINE p == Len(procs) + 1
           first == [seq |-> 1, prev |-> Genesis(p), type |-> types[1]]
           second == [seq |-> 2, prev |-> HashOf(first), type |-> types[2]]
           events == IF Len(types) = 1 THEN <<first>> ELSE <<first, second>>
           last == events[Len(events)]
           new == [row EXCEPT !.seq = last.seq, !.hash = HashOf(last)]
           found == {[seq |-> events[i].seq, hash |-> HashOf(events[i])] : i \in DOMAIN events}
           none == [k \in Kinds |-> "none"]
<1>1. /\ procs \in Seq(Rows) /\ chain \in Seq(Seq(Events)) /\ anchors \in Seq(SUBSET Anchors)
      /\ outbox \in Seq(Seq(Events)) /\ notes \in Seq([Kinds -> NoteStatuses])
      /\ Len(procs) \in Nat /\ Len(chain) = Len(procs) /\ Len(anchors) = Len(procs)
      /\ Len(outbox) = Len(procs) /\ Len(notes) = Len(procs)
  BY LenProperties DEF RecordTypes
<1>2. Genesis(p) \in Hashes
  BY <1>1 DEF Genesis, Hashes
<1>3. first \in Events /\ first.seq = 1 /\ first.prev = Genesis(p)
  BY <1>2, ElementOfSeq DEF Events
<1>4. HashOf(first) \in Hashes
  BY <1>3, HashType
<1>5. Len(types) = 2 => second \in Events /\ second.seq = 2 /\ second.prev = HashOf(first)
  <2> HIDE DEF first
  <2>1. Len(types) = 2 => types[2] \in Types
    BY ElementOfSeq
  <2> QED
    BY <1>4, <2>1 DEF Events
<1> HIDE DEF first, second
<1>6. HashOf(second) \in Hashes \/ Len(types) # 2
  BY <1>5, HashType
<1>7. /\ events \in Seq(Events) /\ events # <<>> /\ found \in SUBSET Anchors
      /\ last.seq \in Nat /\ HashOf(last) \in Hashes
      /\ Valid(p, last.seq, HashOf(last), events, found)
  <2>1. CASE Len(types) = 1
    <3>1. events = <<first>> /\ DOMAIN events = {1} /\ Len(events) = 1 /\ last = first
      BY <2>1
    <3>2. found = {[seq |-> 1, hash |-> HashOf(first)]}
      BY <1>3, <3>1
    <3> HIDE DEF events, found, last
    <3>3. found \in SUBSET Anchors /\ events \in Seq(Events) /\ events # <<>>
      BY <1>3, <1>4, <3>1, <3>2 DEF Anchors
    <3> QED
      BY <1>3, <1>4, <3>1, <3>2, <3>3 DEF Valid
  <2>2. CASE Len(types) = 2
    <3>1. /\ events = <<first, second>> /\ DOMAIN events = {1, 2} /\ Len(events) = 2
          /\ last = second
      BY <2>2
    <3>2. found = {[seq |-> 1, hash |-> HashOf(first)], [seq |-> 2, hash |-> HashOf(second)]}
      BY <1>3, <1>5, <2>2, <3>1
    <3> HIDE DEF events, found, last
    <3>3. found \in SUBSET Anchors /\ events \in Seq(Events) /\ events # <<>>
      BY <1>3, <1>4, <1>5, <1>6, <2>2, <3>1, <3>2 DEF Anchors
    <3> QED
      BY <1>3, <1>4, <1>5, <1>6, <2>2, <3>1, <3>2, <3>3 DEF Valid
  <2> QED
    BY <2>1, <2>2
<1>8. procs' = Append(procs, new) /\ chain' = Append(chain, events)
      /\ anchors' = Append(anchors, found) /\ outbox' = Append(outbox, <<>>)
      /\ notes' = Append(notes, none)
  BY DEF Create, first, second
<1> HIDE DEF events, found, last
<1>9. new \in Rows /\ new.seq = last.seq /\ new.hash = HashOf(last)
  BY <1>7 DEF Rows
<1>10. none \in [Kinds -> NoteStatuses] /\ <<>> \in Seq(Events)
  BY EmptySeq DEF NoteStatuses
<1> HIDE DEF new, none
<1>11. /\ procs' \in Seq(Rows) /\ Len(procs') = p /\ procs'[p] = new
       /\ \A q \in 1 .. Len(procs) : procs'[q] = procs[q]
  BY <1>1, <1>8, <1>9, RowAdded
<1>12. /\ chain' \in Seq(Seq(Events)) /\ Len(chain') = p /\ chain'[p] = events
       /\ \A q \in 1 .. Len(procs) : chain'[q] = chain[q]
  <2>1. chain \in Seq(Seq(Events)) /\ events \in Seq(Events) /\ chain' = Append(chain, events)
    BY <1>1, <1>7, <1>8
  <2>2. Len(chain) = Len(procs)
    BY <1>1
  <2>3. /\ chain' \in Seq(Seq(Events)) /\ Len(chain') = Len(chain) + 1
        /\ chain'[Len(chain) + 1] = events
        /\ \A q \in 1 .. Len(chain) : chain'[q] = chain[q]
    BY <2>1, RowAdded
  <2> QED
    BY <2>2, <2>3
<1>13. /\ anchors' \in Seq(SUBSET Anchors) /\ Len(anchors') = p /\ anchors'[p] = found
       /\ \A q \in 1 .. Len(procs) : anchors'[q] = anchors[q]
  <2>1. /\ anchors \in Seq(SUBSET Anchors) /\ found \in SUBSET Anchors
        /\ anchors' = Append(anchors, found)
    BY <1>1, <1>7, <1>8
  <2>2. Len(anchors) = Len(procs)
    BY <1>1
  <2>3. /\ anchors' \in Seq(SUBSET Anchors) /\ Len(anchors') = Len(anchors) + 1
        /\ anchors'[Len(anchors) + 1] = found
        /\ \A q \in 1 .. Len(anchors) : anchors'[q] = anchors[q]
    BY <2>1, RowAdded
  <2> QED
    BY <2>2, <2>3
<1>14. /\ outbox' \in Seq(Seq(Events)) /\ Len(outbox') = p
  BY SMTT(30), <1>1, <1>8, <1>10, RowAdded
<1>15. /\ notes' \in Seq([Kinds -> NoteStatuses]) /\ Len(notes') = p
       /\ \A q \in 1 .. Len(procs) : notes'[q] = notes[q]
  BY <1>1, <1>8, <1>10, RowAdded
<1>16. ChainsSound'
  <2> SUFFICES ASSUME NEW q \in Ids'
               PROVE  /\ chain'[q] # <<>>
                      /\ Valid(q, procs'[q].seq, procs'[q].hash, chain'[q], anchors'[q])
    BY DEF ChainsSound
  <2>1. CASE q = p
    BY <1>7, <1>9, <1>11, <1>12, <1>13, <2>1
  <2>2. CASE q \in 1 .. Len(procs)
    BY <1>11, <1>12, <1>13, <2>2 DEF ChainsSound, Ids
  <2> QED
    BY <1>1, <1>11, <2>1, <2>2 DEF Ids
<1> QED
  BY <1>1, <1>11, <1>12, <1>13, <1>14, <1>15, <1>16 DEF RecordTypes, Ids

---------------------------------------------------------------------------
(* What every step does to the records, and what it leaves to the others.  *)

Forward(before, after) ==
    <<before, after>> \in {<<"none", "DUE">>, <<"DUE", "ISSUED">>, <<"DUE", "WAIVED">>}

Evidence ==
    \A p \in Ids :
        /\ procs[p].entered # 0 => procs'[p].entered = procs[p].entered
        /\ \A k \in Kinds : notes'[p][k] # notes[p][k] => Forward(notes[p][k], notes'[p][k])

\* One notification changes its status.
Noted(p, kind, status) == notes' = [notes EXCEPT ![p][kind] = status]

Advance == RecordTypes' /\ ChainsSound' /\ Len(procs) <= Len(procs') /\ Evidence

CompletedStays ==
    /\ completed' \in [Orders -> 0 .. MaxDay]
    /\ \A o \in Orders : completed[o] > 0 => completed'[o] > 0

LEMMA RecordsStay ==
    ASSUME TrailInv, UNCHANGED recordVars
    PROVE  Advance
<1>1. /\ procs' = procs /\ chain' = chain /\ anchors' = anchors /\ outbox' = outbox
      /\ notes' = notes
  BY DEF recordVars
<1>2. Len(procs) \in Nat
  BY LenProperties DEF TrailInv, RecordTypes
<1> QED
  BY <1>1, <1>2 DEF TrailInv, Advance, RecordTypes, ChainsSound, Ids, Evidence

LEMMA MoreIds == ASSUME TrailInv, Advance PROVE Ids \subseteq Ids' /\ Ids \subseteq Nat
<1>1. Len(procs) \in Nat /\ Len(procs') \in Nat
  BY LenProperties DEF TrailInv, Advance, RecordTypes
<1> QED
  BY <1>1 DEF Advance, Ids

LEMMA SweepsStay ==
    ASSUME TrailInv, Advance, CompletedStays
    PROVE  /\ \A s \in SweepRecords : SweepFits(s) => SweepFits(s)'
           /\ UNCHANGED sweep => SweepsFit'
<1>1. ASSUME NEW s \in SweepRecords, SweepFits(s) PROVE SweepFits(s)'
  <2>1. s.todo \subseteq Orders \X Nat
    BY DEF SweepRecords
  <2> QED
    BY <1>1, <2>1, MoreIds DEF SweepFits, CompletedStays
<1>2. ASSUME UNCHANGED sweep PROVE SweepsFit'
  BY <1>1, <1>2 DEF TrailInv, SweepsFit
<1> QED
  BY <1>1, <1>2

LEMMA SweepEdit ==
    ASSUME TrailInv, Advance, CompletedStays, NEW w \in Sweeps, NEW s \in SweepRecords,
           SweepFits(s)', sweep' = [sweep EXCEPT ![w] = s]
    PROVE  SweepsFit'
<1>1. sweep \in [Sweeps -> SweepRecords] /\ \A v \in Sweeps : SweepFits(sweep[v])
  BY DEF TrailInv, SweepsFit
<1>2. ASSUME NEW v \in Sweeps PROVE SweepFits(sweep[v])'
  BY <1>1, SweepsStay
<1> QED
  BY <1>1, <1>2 DEF SweepsFit

LEMMA NotifiersStay ==
    ASSUME TrailInv, Advance
    PROVE  UNCHANGED notifier => NotifiersFit'
BY MoreIds DEF TrailInv, NotifiersFit, NotifierFits

LEMMA NotifierEdit ==
    ASSUME TrailInv, Advance, NEW n \in Notifiers, NEW m \in NotifierRecords,
           NotifierFits(m), notifier' = [notifier EXCEPT ![n] = m]
    PROVE  NotifiersFit'
<1>1. \A x \in NotifierRecords : NotifierFits(x) => NotifierFits(x)'
  BY MoreIds DEF NotifierFits
<1> QED
  BY <1>1 DEF TrailInv, NotifiersFit

LEMMA ClerksStay ==
    ASSUME TrailInv, Advance
    PROVE  UNCHANGED clerk => ClerksFit'
BY MoreIds DEF TrailInv, ClerksFit, ClerkFits

LEMMA ClerkEdit ==
    ASSUME TrailInv, Advance, NEW c \in Clerks, NEW d \in ClerkRecords,
           ClerkFits(d), clerk' = [clerk EXCEPT ![c] = d]
    PROVE  ClerksFit'
<1>1. \A x \in ClerkRecords : ClerkFits(x) => ClerkFits(x)'
  BY MoreIds DEF ClerkFits
<1> QED
  BY <1>1 DEF TrailInv, ClerksFit

LEMMA VerifierStays ==
    ASSUME TrailInv
    PROVE  UNCHANGED verifier => VerifierFits'
BY DEF TrailInv, VerifierFits

LEMMA CompletedSame == ASSUME TrailInv, UNCHANGED completed PROVE CompletedStays
BY DEF TrailInv, CountTypes, CompletedStays

---------------------------------------------------------------------------
(* Transactions on the records.                                            *)

LEMMA EdgeTypes ==
    \A edge \in Lifecycle!EnabledEdges :
        edge[1] \in Lifecycle!Statuses /\ edge[2] \in Lifecycle!Statuses
BY DEF Lifecycle!EnabledEdges, Lifecycle!Statuses

LEMMA RowOf == ASSUME TrailInv, NEW p \in Ids PROVE procs[p] \in Rows /\ notes[p] \in [Kinds -> NoteStatuses]
BY ElementOfSeq DEF TrailInv, RecordTypes, Ids

\* An append that leaves the notifications alone and the day of entry, once set.
LEMMA EventStep ==
    ASSUME TrailInv, NEW p \in Ids, NEW row, Grows(p, row),
           procs[p].entered # 0 => row.entered = procs[p].entered, UNCHANGED notes
    PROVE  Advance
<1>1. Len(procs) \in Nat
  BY LenProperties DEF TrailInv, RecordTypes
<1>2. RecordTypes'
  BY DEF Grows, TrailInv, RecordTypes
<1>3. Evidence
  BY DEF Grows, Evidence
<1> QED
  BY <1>1, <1>2, <1>3 DEF Grows, Advance

LEMMA FollowStep ==
    ASSUME TrailInv, NEW p \in Ids, NEW edge \in Lifecycle!EnabledEdges,
           NEW at \in 0 .. MaxDay, Follow(p, edge, at)
    PROVE  Advance
<1> DEFINE row == [procs[p] EXCEPT
                      !.status = edge[2],
                      !.entered = IF edge[2] = "RECEPTION" /\ @ = 0 THEN at ELSE @,
                      !.stopped = @ \/ edge \in Lifecycle!StoppingEdges]
<1>1. row \in Rows /\ (procs[p].entered # 0 => row.entered = procs[p].entered)
  <2>1. procs[p] \in Rows /\ edge[2] \in Lifecycle!Statuses
    BY RowOf, EdgeTypes
  <2>2. (procs[p].stopped \/ edge \in Lifecycle!StoppingEdges) \in BOOLEAN
    BY <2>1 DEF Rows
  <2>3. /\ (IF edge[2] = "RECEPTION" /\ procs[p].entered = 0 THEN at ELSE procs[p].entered)
               \in 0 .. MaxDay
    BY <2>1 DEF Rows
  <2> QED
    BY <2>1, <2>2, <2>3 DEF Rows
<1>2. Status(edge[2]) \in Types
  BY EdgeTypes DEF Types
<1>3. Appended(p, row, Status(edge[2])) /\ UNCHANGED notes
  BY DEF Follow, Append1, Appended
<1> HIDE DEF row
<1>4. Grows(p, row)
  BY <1>1, <1>2, <1>3, AppendStep DEF TrailInv
<1> QED
  BY <1>1, <1>3, <1>4, EventStep

\* A notification is marked, issued or waived, with its event.
LEMMA NoteStep ==
    ASSUME TrailInv, NEW p \in Ids, NEW kind \in Kinds, NEW status,
           Forward(notes[p][kind], status), Noted(p, kind, status),
           Appended(p, procs[p], <<kind, status>>)
    PROVE  Advance
<1>1. status \in NoteStatuses
  BY DEF Forward, NoteStatuses
<1>2. <<kind, status>> \in Types
  BY <1>1 DEF Types
<1>3. procs[p] \in Rows /\ notes[p] \in [Kinds -> NoteStatuses]
  BY RowOf
<1>4. Grows(p, procs[p])
  BY <1>2, <1>3, AppendStep DEF TrailInv
<1>5. Len(procs) \in Nat /\ p \in 1 .. Len(notes) /\ Len(notes) = Len(procs)
      /\ notes \in Seq([Kinds -> NoteStatuses])
  BY LenProperties DEF TrailInv, RecordTypes, Ids
<1> DEFINE row == [notes[p] EXCEPT ![kind] = status]
<1>6. /\ row \in [Kinds -> NoteStatuses] /\ row[kind] = status
      /\ \A k \in Kinds : k # kind => row[k] = notes[p][k]
  BY <1>1, <1>3
<1>7. notes' = [notes EXCEPT ![p] = row]
  BY DEF Noted
<1> HIDE DEF row
<1>8. /\ notes' \in Seq([Kinds -> NoteStatuses]) /\ Len(notes') = Len(notes) /\ notes'[p] = row
      /\ \A q \in 1 .. Len(notes) : q # p => notes'[q] = notes[q]
  BY <1>5, <1>6, <1>7, RowReplaced
<1>9. Evidence
  BY <1>4, <1>5, <1>6, <1>8 DEF Grows, Evidence, Ids
<1> QED
  BY <1>4, <1>5, <1>8, <1>9 DEF Grows, Advance, RecordTypes

LEMMA OpenStep ==
    ASSUME TrailInv, NEW row \in Rows, NEW types \in Seq(Types), Len(types) \in {1, 2},
           Create(row, types)
    PROVE  Advance
<1>1. Len(procs) \in Nat
  BY LenProperties DEF TrailInv, RecordTypes
<1> QED
  BY <1>1, CreateStep DEF TrailInv, Advance, Evidence

LEMMA OpeningRow ==
    ASSUME NEW o \in Orders
    PROVE  /\ Opening(o) \in Rows
           /\ \A day \in 0 .. MaxDay :
                 [Opening(o) EXCEPT !.status = "RECEPTION", !.entered = day] \in Rows
           /\ <<Status("IN_REMOVAL")>> \in Seq(Types)
           /\ <<Status("IN_REMOVAL"), Status("RECEPTION")>> \in Seq(Types)
<1>1. <<>> \in Hashes /\ 0 \in 0 .. MaxDay
  BY EmptySeq, BoundsAssumption DEF Hashes
<1>2. "IN_REMOVAL" \in Lifecycle!Statuses /\ "RECEPTION" \in Lifecycle!Statuses
  BY DEF Lifecycle!Statuses
<1>3. Opening(o) \in Rows
  BY <1>1, <1>2 DEF Opening, Rows
<1>4. Status("IN_REMOVAL") \in Types /\ Status("RECEPTION") \in Types
  BY <1>2 DEF Types
<1>5. <<Status("IN_REMOVAL")>> \in Seq(Types)
      /\ <<Status("IN_REMOVAL"), Status("RECEPTION")>> \in Seq(Types)
  BY <1>4
<1> QED
  BY <1>2, <1>3, <1>5 DEF Rows

---------------------------------------------------------------------------
(* One step each.                                                          *)

LEMMA CountsStay ==
    ASSUME TrailInv
    PROVE  /\ UNCHANGED <<now, completed, moves, faults>> => CountTypes'
           /\ UNCHANGED <<now, completed, moves>> /\ Fault => CountTypes'
           /\ UNCHANGED <<now, completed, faults>> /\ moves < MaxMoves /\ moves' = moves + 1
                 => CountTypes'
BY BoundsAssumption DEF TrailInv, CountTypes, Fault

LEMMA CompleteStep ==
    ASSUME TrailInv, NEW o \in Orders, Complete(o) PROVE TrailInv' /\ Evidence
<1>1. Advance
  BY RecordsStay DEF Complete
<1>2. CompletedStays
  BY BoundsAssumption DEF Complete, CompletedStays, TrailInv, CountTypes, Days
<1>3. CountTypes'
  BY <1>2 DEF Complete, CompletedStays, TrailInv, CountTypes
<1>4. SweepsFit' /\ NotifiersFit' /\ ClerksFit' /\ VerifierFits'
  BY <1>1, <1>2, SweepsStay, NotifiersStay, ClerksStay, VerifierStays DEF Complete, workVars
<1> QED
  BY <1>1, <1>3, <1>4 DEF Advance, TrailInv

LEMMA CreateByHandStep ==
    ASSUME TrailInv, NEW o \in Orders, CreateByHand(o) PROVE TrailInv' /\ Evidence
<1>1. Advance
  <2>1. Len(<<Status("IN_REMOVAL")>>) \in {1, 2}
    OBVIOUS
  <2> QED
    BY <2>1, OpenStep, OpeningRow DEF CreateByHand
<1>2. CompletedStays
  BY CompletedSame DEF CreateByHand
<1>3. CountTypes'
  BY CountsStay DEF CreateByHand
<1>4. SweepsFit' /\ NotifiersFit' /\ ClerksFit' /\ VerifierFits'
  BY <1>1, <1>2, SweepsStay, NotifiersStay, ClerksStay, VerifierStays DEF CreateByHand, workVars
<1> QED
  BY <1>1, <1>3, <1>4 DEF Advance, TrailInv

LEMMA ReadStep ==
    ASSUME TrailInv, NEW c \in Clerks, NEW p \in Ids, NEW edge \in Edges, Read(c, p, edge)
    PROVE  TrailInv' /\ Evidence
<1>1. Advance /\ CompletedStays
  BY RecordsStay, CompletedSame DEF Read
<1>2. CountTypes'
  BY CountsStay DEF Read
<1> DEFINE d == [pc |-> "commit", proc |-> p, edge |-> edge]
<1>3. d \in ClerkRecords /\ ClerkFits(d)
  BY MoreIds, <1>1 DEF ClerkRecords, ClerkFits
<1>4. clerk' = [clerk EXCEPT ![c] = d]
  BY DEF Read
<1> HIDE DEF d
<1>5. ClerksFit'
  BY <1>1, <1>3, <1>4, ClerkEdit
<1>6. SweepsFit' /\ NotifiersFit' /\ VerifierFits'
  BY <1>1, SweepsStay, NotifiersStay, VerifierStays DEF Read
<1> QED
  BY <1>1, <1>2, <1>5, <1>6 DEF Advance, TrailInv

LEMMA CommitStep ==
    ASSUME TrailInv, NEW c \in Clerks, Commit(c) PROVE TrailInv' /\ Evidence
<1>1. clerk[c].proc \in Ids /\ clerk[c].edge \in Lifecycle!EnabledEdges
  BY EdgesAssumption DEF TrailInv, ClerksFit, ClerkFits, Commit
<1>2. now \in 0 .. MaxDay
  BY DEF TrailInv, CountTypes, Days
<1>3. Advance
  <2>1. CASE procs[clerk[c].proc].status = clerk[c].edge[1]
    BY <1>1, <1>2, <2>1, FollowStep DEF Commit
  <2>2. CASE procs[clerk[c].proc].status # clerk[c].edge[1]
    BY <2>2, RecordsStay DEF Commit
  <2> QED
    BY <2>1, <2>2
<1>4. CompletedStays /\ CountTypes'
  BY CompletedSame, CountsStay DEF Commit
<1>5. IdleClerk \in ClerkRecords /\ ClerkFits(IdleClerk)
  BY DEF IdleClerk, ClerkRecords, ClerkFits
<1>6. clerk' = [clerk EXCEPT ![c] = IdleClerk]
  BY DEF Commit
<1>7. ClerksFit'
  BY <1>3, <1>5, <1>6, ClerkEdit
<1>8. SweepsFit' /\ NotifiersFit' /\ VerifierFits'
  BY <1>3, <1>4, SweepsStay, NotifiersStay, VerifierStays DEF Commit
<1> QED
  BY <1>3, <1>4, <1>7, <1>8 DEF Advance, TrailInv

LEMMA AnswerStep ==
    ASSUME TrailInv, NEW p \in Ids, NEW kind \in Kinds, NEW status \in {"ISSUED", "WAIVED"},
           Answer(p, kind, status)
    PROVE  TrailInv' /\ Evidence
<1>1. Advance
  <2>1. Forward(notes[p][kind], status)
    BY DEF Answer, Forward
  <2>2. Noted(p, kind, status) /\ Appended(p, procs[p], <<kind, status>>)
    BY DEF Answer, Append1, Appended, Noted
  <2> QED
    BY <2>1, <2>2, NoteStep
<1>2. CompletedStays /\ CountTypes'
  BY CompletedSame, CountsStay DEF Answer
<1>3. SweepsFit' /\ NotifiersFit' /\ ClerksFit' /\ VerifierFits'
  BY <1>1, <1>2, SweepsStay, NotifiersStay, ClerksStay, VerifierStays DEF Answer, workVars
<1> QED
  BY <1>1, <1>2, <1>3 DEF Advance, TrailInv

LEMMA SweepTypes ==
    ASSUME TrailInv, NEW w \in Sweeps
    PROVE  sweep[w] \in SweepRecords /\ SweepFits(sweep[w])
BY DEF TrailInv, SweepsFit

\* The sweep w becomes s, and nothing else but the records changes.
LEMMA SweepTurn ==
    ASSUME TrailInv, Advance, NEW w \in Sweeps, NEW s \in SweepRecords, SweepFits(s),
           sweep' = [sweep EXCEPT ![w] = s], CountTypes',
           UNCHANGED <<completed, notifier, clerk, verifier>>
    PROVE  TrailInv' /\ Evidence
<1>1. CompletedStays
  BY CompletedSame
<1>2. SweepsFit'
  BY <1>1, SweepsStay, SweepEdit
<1>3. NotifiersFit' /\ ClerksFit' /\ VerifierFits'
  BY NotifiersStay, ClerksStay, VerifierStays
<1> QED
  BY <1>2, <1>3 DEF Advance, TrailInv

LEMMA SweepListStep ==
    ASSUME TrailInv, NEW w \in Sweeps, SweepList(w) PROVE TrailInv' /\ Evidence
<1>1. Advance /\ CountTypes'
  BY RecordsStay, CountsStay DEF SweepList
<1> DEFINE found == {<<o, ProcessOf(o)>> : o \in Candidates}
<1>2. \A o \in Candidates : o \in Orders /\ completed[o] > 0 /\ ProcessOf(o) \in {0} \cup Ids
  BY DEF Candidates, ProcessOf, Unopened
<1>3. \A x \in found : x \in Orders \X Nat /\ completed[x[1]] > 0 /\ x[2] \in {0} \cup Ids
  BY <1>1, <1>2, MoreIds
<1>4. PICK page \in Pages(found, CompletedAt, OpenPage) :
          sweep' = [sweep EXCEPT ![w] = [IdleSweep EXCEPT !.pc = "next", !.todo = page]]
  BY DEF SweepList
<1>5. page \subseteq found
  BY DEF Pages
<1> HIDE DEF found
<1> DEFINE s == [IdleSweep EXCEPT !.pc = "next", !.todo = page]
<1>6. s \in SweepRecords /\ SweepFits(s)
  BY <1>3, <1>5 DEF IdleSweep, SweepRecords, SweepFits
<1>7. UNCHANGED <<completed, notifier, clerk, verifier>>
  BY DEF SweepList
<1> HIDE DEF s
<1> QED
  BY <1>1, <1>4, <1>6, <1>7, SweepTurn DEF s

LEMMA SweepNextStep ==
    ASSUME TrailInv, NEW w \in Sweeps, SweepNext(w) PROVE TrailInv' /\ Evidence
<1>1. Advance /\ CountTypes'
  BY RecordsStay, CountsStay DEF SweepNext
<1>2. UNCHANGED <<completed, notifier, clerk, verifier>>
  BY DEF SweepNext
<1>3. CASE sweep[w].todo = {}
  <2>1. IdleSweep \in SweepRecords /\ SweepFits(IdleSweep)
    BY DEF IdleSweep, SweepRecords, SweepFits
  <2> QED
    BY <1>1, <1>2, <1>3, <2>1, SweepTurn DEF SweepNext
<1>4. CASE sweep[w].todo # {}
  <2>1. PICK x \in First(sweep[w].todo, CompletedAt) :
            sweep' = [sweep EXCEPT ![w].pc = IF x[2] = 0 THEN "open" ELSE "cure",
                                   ![w].todo = @ \ {x}, ![w].order = x[1], ![w].proc = x[2]]
    BY <1>4 DEF SweepNext
  <2> DEFINE s == [sweep[w] EXCEPT !.pc = IF x[2] = 0 THEN "open" ELSE "cure",
                                   !.todo = @ \ {x}, !.order = x[1], !.proc = x[2]]
  <2>2. sweep \in [Sweeps -> SweepRecords] /\ sweep[w] \in SweepRecords /\ SweepFits(sweep[w])
    BY SweepTypes DEF TrailInv, SweepsFit
  <2>3. x \in sweep[w].todo /\ x \in Orders \X Nat
    BY <2>2 DEF First, SweepRecords
  <2>4. completed[x[1]] > 0 /\ x[2] \in {0} \cup Ids /\ x[1] \in Orders /\ x[2] \in Nat
    BY <2>2, <2>3 DEF SweepFits
  <2>5. /\ s.pc = IF x[2] = 0 THEN "open" ELSE "cure"
        /\ s.todo = sweep[w].todo \ {x} /\ s.order = x[1] /\ s.proc = x[2]
        /\ s \in SweepRecords
    BY <2>2, <2>4 DEF SweepRecords
  <2>6. sweep' = [sweep EXCEPT ![w] = s]
    BY <2>1, <2>2
  <2> HIDE DEF s
  <2>7. SweepFits(s)
    BY <2>2, <2>4, <2>5 DEF SweepFits
  <2> QED
    BY <1>1, <1>2, <2>5, <2>6, <2>7, SweepTurn
<1> QED
  BY <1>3, <1>4

\* It goes on to its next candidate.
LEMMA ContinueStep ==
    ASSUME TrailInv, Advance, NEW w \in Sweeps, Continue(w), CountTypes',
           UNCHANGED <<completed, notifier, clerk, verifier>>
    PROVE  TrailInv' /\ Evidence
<1> DEFINE s == [IdleSweep EXCEPT !.pc = "next", !.todo = sweep[w].todo]
<1>1. sweep[w] \in SweepRecords /\ SweepFits(sweep[w])
  BY SweepTypes
<1>2. s \in SweepRecords /\ SweepFits(s)
  BY <1>1 DEF IdleSweep, SweepRecords, SweepFits
<1>3. sweep' = [sweep EXCEPT ![w] = s]
  BY DEF Continue
<1> HIDE DEF s
<1> QED
  BY <1>2, <1>3, SweepTurn

LEMMA SweepOpenStep ==
    ASSUME TrailInv, NEW w \in Sweeps, Open(w) PROVE TrailInv' /\ Evidence
<1> DEFINE o == sweep[w].order
<1>1. o \in Orders /\ completed[o] \in 0 .. MaxDay
  BY SweepTypes DEF Open, SweepFits, TrailInv, CountTypes
<1>2. Advance
  <2>1. CASE Unopened(o)
    <3>1. Len(<<Status("IN_REMOVAL"), Status("RECEPTION")>>) \in {1, 2}
      OBVIOUS
    <3>2. Create([Opening(o) EXCEPT !.status = "RECEPTION", !.entered = completed[o]],
                 <<Status("IN_REMOVAL"), Status("RECEPTION")>>)
      BY <2>1 DEF Open
    <3>3. /\ [Opening(o) EXCEPT !.status = "RECEPTION", !.entered = completed[o]] \in Rows
          /\ <<Status("IN_REMOVAL"), Status("RECEPTION")>> \in Seq(Types)
      BY <1>1, OpeningRow
    <3> QED
      BY <3>1, <3>2, <3>3, OpenStep
  <2>2. CASE ~Unopened(o)
    BY <2>2, RecordsStay DEF Open
  <2> QED
    BY <2>1, <2>2
<1>3. CountTypes' /\ Continue(w) /\ UNCHANGED <<completed, notifier, clerk, verifier>>
  BY CountsStay DEF Open
<1> QED
  BY <1>2, <1>3, ContinueStep

LEMMA CureStep ==
    ASSUME TrailInv, NEW w \in Sweeps, Cure(w) PROVE TrailInv' /\ Evidence
<1>1. Advance /\ CountTypes' /\ UNCHANGED <<completed, notifier, clerk, verifier>>
  BY RecordsStay, CountsStay DEF Cure
<1>2. CASE HalfOpen(sweep[w].proc)
  <2> DEFINE s == [sweep[w] EXCEPT !.pc = "enter"]
  <2>1. sweep \in [Sweeps -> SweepRecords] /\ sweep[w] \in SweepRecords /\ SweepFits(sweep[w])
    BY SweepTypes DEF TrailInv, SweepsFit
  <2>2. s \in SweepRecords /\ SweepFits(s)
    BY <2>1 DEF SweepRecords, SweepFits, Cure
  <2>3. sweep' = [sweep EXCEPT ![w] = s]
    BY <1>2, <2>1 DEF Cure
  <2> HIDE DEF s
  <2> QED
    BY <1>1, <2>2, <2>3, SweepTurn
<1>3. CASE ~HalfOpen(sweep[w].proc)
  BY <1>1, <1>3, ContinueStep DEF Cure
<1> QED
  BY <1>2, <1>3

LEMMA EnterStep ==
    ASSUME TrailInv, NEW w \in Sweeps, Enter(w) PROVE TrailInv' /\ Evidence
<1>1. /\ sweep[w].proc \in Ids /\ sweep[w].order \in Orders
      /\ completed[sweep[w].order] \in 0 .. MaxDay
  BY SweepTypes DEF Enter, SweepFits, TrailInv, CountTypes
<1>2. Advance
  <2>1. CASE procs[sweep[w].proc].status = "IN_REMOVAL"
    <3>1. <<"IN_REMOVAL", "RECEPTION">> \in Lifecycle!EnabledEdges
      BY DEF Lifecycle!EnabledEdges
    <3> QED
      BY <1>1, <2>1, <3>1, FollowStep DEF Enter
  <2>2. CASE procs[sweep[w].proc].status # "IN_REMOVAL"
    BY <2>2, RecordsStay DEF Enter
  <2> QED
    BY <2>1, <2>2
<1>3. CountTypes' /\ Continue(w) /\ UNCHANGED <<completed, notifier, clerk, verifier>>
  BY CountsStay DEF Enter
<1> QED
  BY <1>2, <1>3, ContinueStep

LEMMA SweepFailsStep ==
    ASSUME TrailInv, NEW w \in Sweeps, SweepFails(w) PROVE TrailInv' /\ Evidence
<1>1. Advance /\ CountTypes' /\ UNCHANGED <<completed, notifier, clerk, verifier>>
  BY RecordsStay, CountsStay DEF SweepFails
<1> QED
  BY <1>1, ContinueStep DEF SweepFails

LEMMA NotifierTypes ==
    ASSUME TrailInv, NEW n \in Notifiers
    PROVE  /\ notifier[n] \in NotifierRecords /\ NotifierFits(notifier[n])
           /\ notifier \in [Notifiers -> NotifierRecords]
BY DEF TrailInv, NotifiersFit

\* The notifier n becomes m, and nothing else but the records changes.
LEMMA NotifierTurn ==
    ASSUME TrailInv, Advance, NEW n \in Notifiers, NEW m \in NotifierRecords, NotifierFits(m),
           notifier' = [notifier EXCEPT ![n] = m], CountTypes',
           UNCHANGED <<completed, sweep, clerk, verifier>>
    PROVE  TrailInv' /\ Evidence
<1>1. CompletedStays
  BY CompletedSame
<1>2. SweepsFit' /\ NotifiersFit' /\ ClerksFit' /\ VerifierFits'
  BY <1>1, SweepsStay, NotifierEdit, ClerksStay, VerifierStays
<1> QED
  BY <1>2 DEF Advance, TrailInv

LEMMA LeftFits ==
    ASSUME TrailInv, NEW n \in Notifiers
    PROVE  Left(n) \in NotifierRecords /\ NotifierFits(Left(n))
BY NotifierTypes DEF Left, NotifierRecords, NotifierFits

LEMMA NoticeListStep ==
    ASSUME TrailInv, NEW n \in Notifiers, NoticeList(n) PROVE TrailInv' /\ Evidence
<1>1. Advance /\ CountTypes' /\ UNCHANGED <<completed, sweep, clerk, verifier>>
  BY RecordsStay, CountsStay DEF NoticeList
<1>2. PICK page \in Pages({p \in Ids : Running(p)}, EnteredAt, NoticePage) :
          notifier' = [notifier EXCEPT ![n] =
                          [IdleNotifier EXCEPT !.pc = "next", !.at = now, !.todo = page]]
  BY DEF NoticeList
<1>3. page \subseteq Ids
  BY DEF Pages
<1> DEFINE m == [IdleNotifier EXCEPT !.pc = "next", !.at = now, !.todo = page]
<1>4. now \in 0 .. MaxDay /\ Ids \subseteq Nat
  BY <1>1, MoreIds DEF TrailInv, CountTypes, Days
<1>5. m \in NotifierRecords /\ NotifierFits(m)
  BY <1>3, <1>4 DEF IdleNotifier, NotifierRecords, NotifierFits
<1>6. notifier' = [notifier EXCEPT ![n] = m]
  BY <1>2
<1> HIDE DEF m
<1> QED
  BY <1>1, <1>5, <1>6, NotifierTurn

LEMMA NoticeReadStep ==
    ASSUME TrailInv, NEW n \in Notifiers, NoticeRead(n) PROVE TrailInv' /\ Evidence
<1>1. Advance /\ CountTypes' /\ UNCHANGED <<completed, sweep, clerk, verifier>>
  BY RecordsStay, CountsStay DEF NoticeRead
<1>2. CASE notifier[n].todo = {}
  <2>1. IdleNotifier \in NotifierRecords /\ NotifierFits(IdleNotifier)
    BY BoundsAssumption DEF IdleNotifier, NotifierRecords, NotifierFits
  <2> QED
    BY <1>1, <1>2, <2>1, NotifierTurn DEF NoticeRead
<1>3. CASE notifier[n].todo # {}
  <2>1. PICK p \in First(notifier[n].todo, EnteredAt) :
            LET kinds == IF Running(p) THEN Marks(p, notifier[n].at) ELSE {}
            IN  notifier' = [notifier EXCEPT ![n].todo = @ \ {p},
                                ![n].pc = IF kinds = {} THEN "next" ELSE "mark",
                                ![n].proc = IF kinds = {} THEN 0 ELSE p,
                                ![n].kinds = kinds]
    BY <1>3 DEF NoticeRead
  <2> DEFINE kinds == IF Running(p) THEN Marks(p, notifier[n].at) ELSE {}
             m == [notifier[n] EXCEPT !.todo = @ \ {p},
                                      !.pc = IF kinds = {} THEN "next" ELSE "mark",
                                      !.proc = IF kinds = {} THEN 0 ELSE p,
                                      !.kinds = kinds]
  <2>2. kinds \subseteq Kinds
    BY DEF Marks
  <2> HIDE DEF kinds
  <2>3. p \in notifier[n].todo /\ p \in Ids /\ p \in Nat
    BY <1>1, NotifierTypes, MoreIds DEF First, NotifierFits
  <2>4. m \in NotifierRecords /\ NotifierFits(m)
    BY <2>2, <2>3, NotifierTypes DEF NotifierRecords, NotifierFits
  <2>5. notifier' = [notifier EXCEPT ![n] = m]
    BY <2>1, NotifierTypes DEF kinds
  <2> HIDE DEF m
  <2> QED
    BY <1>1, <2>4, <2>5, NotifierTurn
<1> QED
  BY <1>2, <1>3

LEMMA MarkStep ==
    ASSUME TrailInv, NEW n \in Notifiers, Mark(n) PROVE TrailInv' /\ Evidence
<1> DEFINE p == notifier[n].proc
<1>1. PICK k \in First(notifier[n].kinds, DaysOf) :
          /\ IF Absent(p, k)
             THEN /\ notes' = [notes EXCEPT ![p][k] = "DUE"]
                  /\ Append1(p, procs[p], <<k, "DUE">>, FALSE)
             ELSE UNCHANGED recordVars
          /\ IF notifier[n].kinds = {k} THEN notifier' = [notifier EXCEPT ![n] = Left(n)]
             ELSE notifier' = [notifier EXCEPT ![n].kinds = @ \ {k}]
  BY DEF Mark
<1>2. p \in Ids /\ k \in Kinds
  BY NotifierTypes DEF Mark, NotifierFits, NotifierRecords, First
<1>3. Advance
  <2>1. CASE Absent(p, k)
    <3>1. Forward(notes[p][k], "DUE")
      BY <2>1 DEF Absent, Forward
    <3>2. Noted(p, k, "DUE") /\ Appended(p, procs[p], <<k, "DUE">>)
      BY <1>1, <2>1 DEF Append1, Appended, Noted
    <3> QED
      BY <1>2, <3>1, <3>2, NoteStep
  <2>2. CASE ~Absent(p, k)
    BY <1>1, <2>2, RecordsStay
  <2> QED
    BY <2>1, <2>2
<1>4. CountTypes' /\ UNCHANGED <<completed, sweep, clerk, verifier>>
  BY CountsStay DEF Mark
<1> DEFINE m == IF notifier[n].kinds = {k} THEN Left(n)
                ELSE [notifier[n] EXCEPT !.kinds = @ \ {k}]
<1>5. m \in NotifierRecords /\ NotifierFits(m)
  BY LeftFits, NotifierTypes DEF NotifierRecords, NotifierFits
<1>6. notifier' = [notifier EXCEPT ![n] = m]
  BY <1>1, NotifierTypes
<1> HIDE DEF m
<1> QED
  BY <1>3, <1>4, <1>5, <1>6, NotifierTurn

LEMMA MarkFailsStep ==
    ASSUME TrailInv, NEW n \in Notifiers, MarkFails(n) PROVE TrailInv' /\ Evidence
<1>1. Advance /\ CountTypes' /\ UNCHANGED <<completed, sweep, clerk, verifier>>
  BY RecordsStay, CountsStay DEF MarkFails
<1> QED
  BY <1>1, LeftFits, NotifierTurn DEF MarkFails

\* The three reads of a verification.
LEMMA VerifierTurn ==
    ASSUME TrailInv, UNCHANGED <<now, completed, recordVars, sweep, notifier, clerk, moves, faults>>,
           VerifierFits'
    PROVE  TrailInv' /\ Evidence
<1>1. Advance /\ CompletedStays /\ CountTypes'
  BY RecordsStay, CompletedSame, CountsStay
<1>2. SweepsFit' /\ NotifiersFit' /\ ClerksFit'
  BY <1>1, SweepsStay, NotifiersStay, ClerksStay
<1> QED
  BY <1>1, <1>2 DEF Advance, TrailInv

LEMMA VerifySteps ==
    ASSUME TrailInv, (\E p \in Ids : VerifyBegin(p)) \/ VerifyEvents \/ VerifyAnchors
    PROVE  TrailInv' /\ Evidence
<1>1. VerifierFits'
  <2>1. ASSUME NEW p \in Ids, VerifyBegin(p) PROVE VerifierFits'
    <3>1. Valid(p, procs[p].seq, procs[p].hash, chain[p], anchors[p])
      BY DEF TrailInv, ChainsSound
    <3> QED
      BY <2>1, <3>1 DEF VerifyBegin, VerifierFits, IdleVerifier, Stored
  <2>2. CASE VerifyEvents
    BY <2>2 DEF TrailInv, VerifyEvents, VerifierFits, Seen
  <2>3. CASE VerifyAnchors
    BY <2>3 DEF TrailInv, VerifyAnchors, VerifierFits, Seen, IdleVerifier
  <2> QED
    BY <2>1, <2>2, <2>3
<1>2. UNCHANGED <<now, completed, recordVars, sweep, notifier, clerk, moves, faults>>
  BY DEF VerifyBegin, VerifyEvents, VerifyAnchors
<1> QED
  BY <1>1, <1>2, VerifierTurn

LEMMA TickStep == ASSUME TrailInv, Tick PROVE TrailInv' /\ Evidence
<1>1. Advance /\ CompletedStays
  BY RecordsStay, CompletedSame DEF Tick
<1>2. CountTypes'
  BY BoundsAssumption DEF Tick, TrailInv, CountTypes, Days
<1>3. SweepsFit' /\ NotifiersFit' /\ ClerksFit' /\ VerifierFits'
  BY <1>1, SweepsStay, NotifiersStay, ClerksStay, VerifierStays DEF Tick, workVars
<1> QED
  BY <1>1, <1>2, <1>3 DEF Advance, TrailInv

\* Nobody is at work.
LEMMA AtRest ==
    ASSUME sweep = [w \in Sweeps |-> IdleSweep], notifier = [n \in Notifiers |-> IdleNotifier],
           clerk = [c \in Clerks |-> IdleClerk], verifier = IdleVerifier
    PROVE  SweepsFit /\ NotifiersFit /\ ClerksFit /\ VerifierFits
<1>1. IdleSweep \in SweepRecords /\ SweepFits(IdleSweep)
  BY DEF IdleSweep, SweepRecords, SweepFits
<1>2. IdleNotifier \in NotifierRecords /\ NotifierFits(IdleNotifier)
  BY BoundsAssumption DEF IdleNotifier, NotifierRecords, NotifierFits
<1>3. IdleClerk \in ClerkRecords /\ ClerkFits(IdleClerk)
  BY DEF IdleClerk, ClerkRecords, ClerkFits
<1>4. VerifierFits
  BY DEF IdleVerifier, VerifierFits
<1> QED
  BY <1>1, <1>2, <1>3, <1>4 DEF SweepsFit, NotifiersFit, ClerksFit

LEMMA CrashStep == ASSUME TrailInv, Crash PROVE TrailInv' /\ Evidence
<1>1. Advance /\ CountTypes'
  BY RecordsStay, CountsStay DEF Crash
<1>2. SweepsFit' /\ NotifiersFit' /\ ClerksFit' /\ VerifierFits'
  <2>1. IdleSweep \in SweepRecords /\ SweepFits(IdleSweep)'
    BY DEF IdleSweep, SweepRecords, SweepFits
  <2>2. IdleNotifier \in NotifierRecords /\ NotifierFits(IdleNotifier)'
    BY BoundsAssumption DEF IdleNotifier, NotifierRecords, NotifierFits
  <2>3. IdleClerk \in ClerkRecords /\ ClerkFits(IdleClerk)'
    BY DEF IdleClerk, ClerkRecords, ClerkFits
  <2>4. VerifierFits'
    BY DEF Crash, IdleVerifier, VerifierFits
  <2> QED
    BY <2>1, <2>2, <2>3, <2>4 DEF Crash, SweepsFit, NotifiersFit, ClerksFit
<1> QED
  BY <1>1, <1>2 DEF Advance, TrailInv

LEMMA FirstState == Init => TrailInv
<1> SUFFICES ASSUME Init PROVE TrailInv
  OBVIOUS
<1>1. RecordTypes /\ ChainsSound
  BY EmptySeq DEF Init, RecordTypes, ChainsSound, Ids
<1>2. CountTypes
  BY BoundsAssumption DEF Init, CountTypes, Days
<1>3. SweepsFit /\ NotifiersFit /\ ClerksFit /\ VerifierFits
  BY AtRest DEF Init
<1> QED
  BY <1>1, <1>2, <1>3 DEF TrailInv

LEMMA TrailInvIsInductive == TrailInv /\ [Next]_vars => TrailInv' /\ Evidence
<1> SUFFICES ASSUME TrailInv, [Next]_vars PROVE TrailInv' /\ Evidence
  OBVIOUS
<1>1. CASE Tick \/ Crash
  BY <1>1, TickStep, CrashStep
<1>2. ASSUME NEW o \in Orders, Complete(o) \/ CreateByHand(o) PROVE TrailInv' /\ Evidence
  BY <1>2, CompleteStep, CreateByHandStep
<1>3. ASSUME NEW c \in Clerks, (\E p \in Ids, edge \in Edges : Read(c, p, edge)) \/ Commit(c)
      PROVE  TrailInv' /\ Evidence
  BY <1>3, ReadStep, CommitStep
<1>4. ASSUME NEW p \in Ids, NEW k \in Kinds, NEW status \in {"ISSUED", "WAIVED"},
             Answer(p, k, status)
      PROVE  TrailInv' /\ Evidence
  BY <1>4, AnswerStep
<1>5. ASSUME NEW w \in Sweeps, Sweeping(w) \/ SweepFails(w) PROVE TrailInv' /\ Evidence
  BY <1>5, SweepListStep, SweepNextStep, SweepOpenStep, CureStep, EnterStep, SweepFailsStep
     DEF Sweeping
<1>6. ASSUME NEW n \in Notifiers, Notifying(n) \/ MarkFails(n) PROVE TrailInv' /\ Evidence
  BY <1>6, NoticeListStep, NoticeReadStep, MarkStep, MarkFailsStep DEF Notifying
<1>7. CASE (\E p \in Ids : VerifyBegin(p)) \/ VerifyEvents \/ VerifyAnchors
  BY <1>7, VerifySteps
<1>8. CASE UNCHANGED vars
  <2>1. UNCHANGED <<now, completed, recordVars, sweep, notifier, clerk, moves, faults>>
        /\ UNCHANGED verifier
    BY <1>8 DEF vars, workVars, recordVars
  <2> QED
    BY <2>1, VerifierStays, VerifierTurn
<1> QED
  BY <1>1, <1>2, <1>3, <1>4, <1>5, <1>6, <1>7, <1>8 DEF Next

---------------------------------------------------------------------------
(* The theorems.                                                           *)

\* Every chain verifies in every state, and whoever is at work is about
\* processes and removals that exist.
THEOREM TrailInvariant == Spec => []TrailInv
<1>1. Init => TrailInv
  BY FirstState
<1>2. TrailInv /\ [Next]_vars => TrailInv'
  BY TrailInvIsInductive
<1> QED
  BY <1>1, <1>2, PTL DEF Spec

\* The tables keep their types and stay of one length.
THEOREM TrailTypeCorrect == Spec => []TypeOK
<1>1. TrailInv => TypeOK
  <2> SUFFICES ASSUME TrailInv PROVE TypeOK
    OBVIOUS
  <2>1. \A p \in Ids : procs[p] \in Rows
    BY RowOf
  <2> QED
    BY <2>1 DEF TrailInv, RecordTypes, CountTypes, TypeOK, Rows
<1> QED
  BY <1>1, TrailInvariant, PTL

\* A verification never takes a sound chain for a broken one, however many
\* commits append while it reads.
THEOREM SoundChainsPass == Spec => []NoFalseAlarm
<1>1. TrailInv => NoFalseAlarm
  BY DEF TrailInv, VerifierFits, NoFalseAlarm
<1> QED
  BY <1>1, TrailInvariant, PTL

\* The day of entry is set once, and a notification only goes forward.
THEOREM EvidenceStays == Spec => EvidenceKept
<1>1. TrailInv /\ [Next]_vars => [Evidence]_vars
  BY TrailInvIsInductive
<1> QED
  BY <1>1, TrailInvariant, PTL DEF Spec, EvidenceKept, Evidence, Forward
=============================================================================
