------------------------ MODULE FieldDispatchProofs ------------------------
(***************************************************************************)
(* Machine-checked theorems about FieldDispatch, for any requests, however *)
(* they overlap, fail or break off, any technicians and dispatches, any    *)
(* order they start from and any body that the requests bring.             *)
(***************************************************************************)
EXTENDS FieldDispatch, WellFoundedInduction, TLAPS

---------------------------------------------------------------------------
(* The invariants.                                                         *)

\* The requests about a dispatch that was there, and the steps that assign the order.
About   == {"status", "activate", "reassign"}
Assigns == {"get", "guard", "pick", "put", "undo"}

\* What a request is about, at each of its steps.
CallFits(c) ==
    /\ c.pc = "idle" => c = Idle
    /\ c.pc # "idle" => c.op # "none"
    /\ c.op \in About \cup {"create", "move"} => c.user \in Techs /\ c.operator = c.user
    /\ c.op = "assign" => c.operator \in Techs
    /\ c.op \in About \cup {"move"} => c.disp \in Dispatches
    /\ c.op = "order" => c.to \in OrderStatuses /\ c.pc = "write"
    /\ c.op = "assign" => c.pc \in {"check", "write"}
    /\ c.op \in About \cup {"create"} => c.to \in DispatchStatuses
    /\ c.op = "move" => c.pc \in Assigns
    /\ c.pc \in Assigns => /\ c.op \in {"create", "activate", "reassign", "move"}
                           /\ c.disp \in Dispatches
    /\ c.pc \in {"follow", "list"} => c.op = "status"
    /\ c.pc = "look" => c.op \in {"activate", "reassign"}
    /\ c.pc = "check" => c.op # "status"
    /\ c.pc = "put" => c.kept \in OrderStatuses

TypeInv ==
    /\ order \in Order
    /\ dispatch \in [Dispatches -> Dispatch]
    /\ rows \subseteq Row
    /\ call \in [Requests -> Call]
    /\ \A r \in Requests : CallFits(call[r])

PastInv == made \in Nat /\ overtaken \subseteq Requests /\ mislaid \subseteq Dispatches

\* An assignment names t for d, or a request of S has still to make one.
Backed(S, d, t) ==
    \/ [tech |-> t, dispatch |-> d] \in rows
    \/ \E q \in S : Owes(q) /\ call[q].disp = d /\ call[q].user = t

ActiveBacked ==
    \A d \in Dispatches \ mislaid :
        dispatch[d].status \in ActiveDispatch => Backed(Requests, d, dispatch[d].tech)

\* What a request about d has still to write leaves d backed: the status it
\* moves d to, the draft it activates, and what it may give d back, which no
\* assignment of its own has to back.
Pending(r) ==
    LET c == call[r]
        d == call[r].disp
    IN  /\ c.op = "create" => c.back = Absent
        /\ c.op = "activate" => c.back.status = "draft"
        /\ c.op \in About /\ d \notin mislaid /\ dispatch[d] # Absent =>
              /\ c.op = "status" /\ c.pc = "write" /\ c.to \in ActiveDispatch =>
                     Backed(Requests, d, dispatch[d].tech)
              /\ c.op = "activate" /\ c.pc \in {"look", "check", "write"} =>
                     dispatch[d].tech = c.user \/ Backed(Requests, d, dispatch[d].tech)
              /\ c.op = "reassign" => Backed(Requests \ {r}, d, c.back.tech)

AssignInv == TypeInv /\ ActiveBacked /\ \A r \in Requests : Pending(r)

\* The technicians of the request may be named: the question of the lock.
MayName(c) == ~Started \/ Technician(order) \in {None, c.user, c.operator}

\* What the request has been answered still holds.
Answered(c) ==
    /\ c.op = "order" => May(OrderNext, order.status, c.to)
    /\ c.op = "assign" =>
           /\ May(OrderNext, order.status, "assigned")
           /\ c.pc = "check" => order.status \notin ServiceStarted
           /\ c.pc = "write" => MayName(c)
    /\ c.pc \in {"guard", "pick", "put"} => order.status \notin ClosedOrder
    /\ c.pc = "guard" => order.status \notin ServiceStarted
    /\ c.pc \in {"pick", "put"} => MayName(c)
    /\ c.pc = "put" => c.kept = order.status

AnswersInv == TypeInv /\ \A r \in Requests \ overtaken : Answered(call[r])

---------------------------------------------------------------------------
(* The tables of transitions.                                              *)

LEMMA OrderTable ==
    /\ OrderStatuses = {"open", "assigned", "accepted", "on_route", "on_site", "in_progress",
                        "paused", "completed", "cancelled", "rejected"}
    /\ ClosedOrder = {"completed", "cancelled", "rejected"}
    /\ \A s \in ClosedOrder : \A t : May(OrderNext, s, t) => t = s
BY DEF OrderStatuses, OrderNext, ClosedOrder, May

LEMMA DispatchTable ==
    /\ DispatchStatuses = {"draft", "assigned", "accepted", "on_route", "arrived", "in_service",
                           "reassigned", "completed", "cancelled", "failed"}
    /\ ActiveDispatch = {"assigned", "accepted", "on_route", "arrived", "in_service",
                         "reassigned"}
    /\ \A s \in DispatchStatuses, t \in ActiveDispatch :
           May(DispatchNext, s, t) => s \in ActiveDispatch \/ (s = "draft" /\ t = "assigned")
    /\ \A s \in DispatchStatuses :
           May(DispatchNext, s, "reassigned") => s \in ActiveDispatch
BY DEF DispatchStatuses, DispatchNext, ActiveDispatch, May

LEMMA NoTech == None \notin Techs /\ Desk \notin Techs
BY TechsAssumption

LEMMA IdleCall == Idle \in Call /\ CallFits(Idle)
<1>1. Absent \in Dispatch
  BY DEF Dispatch
<1> QED
  BY <1>1 DEF Idle, Call, CallFits, About, Assigns

---------------------------------------------------------------------------
(* Types: what each step makes of its request.                             *)

LEMMA CallOf ==
    ASSUME TypeInv, NEW r \in Requests
    PROVE  call[r] \in Call /\ CallFits(call[r]) /\ call \in [Requests -> Call]
BY DEF TypeInv

LEMMA DispatchOf ==
    ASSUME TypeInv, NEW d \in Dispatches
    PROVE  /\ dispatch[d] \in Dispatch /\ dispatch[d].status \in DispatchStatuses \cup {"absent"}
           /\ dispatch[d] # Absent => dispatch[d].tech \in Techs /\ dispatch[d].status \in DispatchStatuses
           /\ dispatch[d].status \in DispatchStatuses => dispatch[d] # Absent
<1>1. "absent" \notin DispatchStatuses
  BY DispatchTable
<1> QED
  BY <1>1 DEF TypeInv, Dispatch, Absent

\* The other requests stay as they are.
Turn(r) == \A q \in Requests \ {r} : call'[q] = call[q]

\* The request r becomes c.
LEMMA TypeTurn ==
    ASSUME TypeInv, NEW r \in Requests, NEW c \in Call, CallFits(c),
           call' = [call EXCEPT ![r] = c],
           order' \in Order, dispatch' \in [Dispatches -> Dispatch], rows' \subseteq Row
    PROVE  TypeInv' /\ Turn(r) /\ call'[r] = c
<1>1. call' \in [Requests -> Call] /\ call'[r] = c
  BY CallOf
<1>2. \A q \in Requests : q # r => call'[q] = call[q]
  BY CallOf
<1>3. \A q \in Requests : CallFits(call'[q])
  BY <1>1, <1>2, CallOf
<1> QED
  BY <1>1, <1>2, <1>3 DEF TypeInv, Turn

LEMMA NothingWritten ==
    ASSUME TypeInv, UNCHANGED <<order, dispatch, rows>>
    PROVE  order' \in Order /\ dispatch' \in [Dispatches -> Dispatch] /\ rows' \subseteq Row
BY DEF TypeInv

LEMMA StartTurn ==
    ASSUME TypeInv, NEW r \in Requests, NEW c \in Call, CallFits(c), Start(r, c),
           UNCHANGED <<order, dispatch, rows>>
    PROVE  TypeInv' /\ Turn(r) /\ call'[r] = c
BY TypeTurn, NothingWritten DEF Start

LEMMA EndTurn ==
    ASSUME TypeInv, NEW r \in Requests, End(r),
           order' \in Order, dispatch' \in [Dispatches -> Dispatch], rows' \subseteq Row
    PROVE  TypeInv' /\ Turn(r) /\ call'[r] = Idle
BY IdleCall, TypeTurn DEF End

\* All of a request but its step and the status it has read.
SameCall(r) ==
    /\ call'[r].op = call[r].op /\ call'[r].disp = call[r].disp
    /\ call'[r].user = call[r].user /\ call'[r].operator = call[r].operator
    /\ call'[r].to = call[r].to /\ call'[r].back = call[r].back

Pcs == {"idle", "look", "check", "write", "get", "guard", "pick", "put", "undo", "follow", "list"}

\* A request goes on to another step.
LEMMA GotoTurn ==
    ASSUME TypeInv, NEW r \in Requests, NEW pc \in Pcs, Goto(r, pc),
           CallFits([call[r] EXCEPT !.pc = pc]),
           order' \in Order, dispatch' \in [Dispatches -> Dispatch], rows' \subseteq Row
    PROVE  /\ TypeInv' /\ Turn(r) /\ SameCall(r)
           /\ call'[r].pc = pc /\ call'[r].kept = call[r].kept
<1> DEFINE c == [call[r] EXCEPT !.pc = pc]
<1>1. c \in Call /\ c.pc = pc /\ CallFits(c) /\ c.kept = call[r].kept
  BY CallOf DEF Call, Pcs
<1>2. /\ c.op = call[r].op /\ c.disp = call[r].disp /\ c.user = call[r].user
      /\ c.operator = call[r].operator /\ c.to = call[r].to /\ c.back = call[r].back
  BY CallOf DEF Call
<1>3. call' = [call EXCEPT ![r] = c]
  BY CallOf DEF Goto
<1> HIDE DEF c
<1>4. TypeInv' /\ Turn(r) /\ call'[r] = c
  BY <1>1, <1>3, TypeTurn
<1> QED
  BY <1>1, <1>2, <1>4 DEF SameCall

\* What the lock says of the order that is read.
LEMMA Admits ==
    ASSUME NEW user, NEW operator, NEW passed, NEW ask, NEW refused, NEW c,
           c = Admit(user, operator, passed, ask, refused)
    PROVE  \/ c = passed /\ Technician(order) \in {None, user, operator}
           \/ c = refused
           \/ c = ask /\ order.status \notin ServiceStarted
BY DEF Admit

\* The calls that the handlers start.
OrderCall(to) == [Idle EXCEPT !.op = "order", !.pc = "write", !.to = to]

AssignCall(pc, user, operator) ==
    [Idle EXCEPT !.op = "assign", !.pc = pc, !.user = user, !.operator = operator]

CreateCall(pc, t, status) ==
    [Idle EXCEPT !.op = "create", !.pc = pc, !.user = t, !.operator = t, !.to = status]

MoveCall(d) ==
    [Idle EXCEPT !.op = "move", !.pc = "get", !.disp = d, !.user = dispatch[d].tech,
                 !.operator = dispatch[d].tech]

LEMMA BeginOrderTypes ==
    ASSUME TypeInv, NEW r \in Requests, NEW actor, NEW to \in OrderStatuses,
           BeginOrder(r, actor, to)
    PROVE  TypeInv' /\ Turn(r) /\ call'[r] = OrderCall(to)
<1>1. OrderCall(to) \in Call /\ CallFits(OrderCall(to))
  BY ZenonT(60), IdleCall DEF OrderCall, Call, CallFits, Idle, About, Assigns
<1>2. Start(r, OrderCall(to)) /\ UNCHANGED <<order, dispatch, rows>>
  BY DEF BeginOrder, OrderCall
<1> QED
  BY <1>1, <1>2, StartTurn

LEMMA BeginAssignTypes ==
    ASSUME TypeInv, NEW r \in Requests, NEW user \in Techs \cup {None}, NEW t \in Techs,
           BeginAssign(r, user, t)
    PROVE  /\ TypeInv' /\ Turn(r)
           /\ \/ call'[r] = AssignCall("write", user, t) /\ Technician(order) \in {None, user, t}
              \/ call'[r] = AssignCall("check", user, t) /\ order.status \notin ServiceStarted
<1> DEFINE pc == Admit(user, t, "write", "check", "refused")
           c == AssignCall(pc, user, t)
<1>1. /\ pc \in {"write", "check"}
      /\ pc = "write" => Technician(order) \in {None, user, t}
      /\ pc = "check" => order.status \notin ServiceStarted
  <2>1. pc # "refused"
    BY DEF BeginAssign
  <2> QED
    BY <2>1, Admits
<1>2. Start(r, c) /\ UNCHANGED <<order, dispatch, rows>>
  BY DEF BeginAssign, AssignCall
<1> HIDE DEF pc
<1>3. c \in Call /\ CallFits(c)
  BY ZenonT(60), <1>1, IdleCall DEF AssignCall, Call, CallFits, Idle, About, Assigns
<1> HIDE DEF c
<1>4. TypeInv' /\ Turn(r) /\ call'[r] = c
  BY <1>2, <1>3, StartTurn
<1> QED
  BY <1>1, <1>4 DEF c

LEMMA BeginCreateTypes ==
    ASSUME TypeInv, NEW r \in Requests, NEW t \in Techs, NEW status \in {"draft", "assigned"},
           BeginCreate(r, t, status)
    PROVE  /\ TypeInv' /\ Turn(r)
           /\ \E pc \in {"write", "check"} : call'[r] = CreateCall(pc, t, status)
<1> DEFINE pc == IF status = "draft" THEN "write"
                 ELSE Admit(t, t, "write", "check", "refused")
           c == CreateCall(pc, t, status)
<1>1. pc \in {"write", "check"} /\ status \in DispatchStatuses
  <2>1. pc # "refused"
    BY DEF BeginCreate
  <2> QED
    BY <2>1, Admits, DispatchTable
<1>2. Start(r, c) /\ UNCHANGED <<order, dispatch, rows>>
  BY DEF BeginCreate, CreateCall
<1> HIDE DEF pc
<1>3. c \in Call
  BY <1>1, IdleCall DEF CreateCall, Call, Idle
<1>4. CallFits(c)
  BY <1>1 DEF CreateCall, CallFits, Idle, About, Assigns
<1> HIDE DEF c
<1>5. TypeInv' /\ Turn(r) /\ call'[r] = c
  BY <1>2, <1>3, <1>4, StartTurn
<1> QED
  BY <1>1, <1>5 DEF c

LEMMA AboutCallFits ==
    ASSUME TypeInv, NEW d \in Dispatches, dispatch[d] # Absent, NEW t \in Techs,
           NEW to \in DispatchStatuses, NEW op \in About, NEW pc,
           pc = IF op = "status" THEN "write" ELSE "look"
    PROVE  AboutCall(op, pc, d, t, to) \in Call /\ CallFits(AboutCall(op, pc, d, t, to))
<1> DEFINE c == AboutCall(op, pc, d, t, to)
<1>1. /\ c.op = op /\ c.pc = pc /\ c.disp = d /\ c.user = t /\ c.operator = t /\ c.to = to
      /\ c.back = dispatch[d]
  BY DEF AboutCall, Idle
<1>2. dispatch[d] \in Dispatch /\ pc \in {"write", "look"}
  BY DispatchOf
<1>3. c \in Call
  BY ZenonT(60), <1>2, IdleCall DEF AboutCall, Call, Idle, About
<1> HIDE DEF c
<1>4. CallFits(c)
  BY <1>1, <1>2 DEF CallFits, About, Assigns
<1> QED
  BY <1>3, <1>4 DEF c

LEMMA BeginStatusTypes ==
    ASSUME TypeInv, NEW r \in Requests, NEW actor, NEW d \in Dispatches,
           NEW to \in DispatchStatuses, BeginStatus(r, actor, d, to)
    PROVE  /\ TypeInv' /\ Turn(r)
           /\ call'[r] = IF dispatch[d].status = "draft" /\ to = "assigned"
                         THEN AboutCall("activate", "look", d, dispatch[d].tech, to)
                         ELSE AboutCall("status", "write", d, dispatch[d].tech, to)
<1>1. dispatch[d] # Absent /\ dispatch[d].tech \in Techs
  BY DispatchOf DEF BeginStatus
<1>2. UNCHANGED <<order, dispatch, rows>>
  BY DEF BeginStatus
<1>3. CASE dispatch[d].status = "draft" /\ to = "assigned"
  BY <1>1, <1>2, <1>3, AboutCallFits, StartTurn DEF BeginStatus, About
<1>4. CASE ~(dispatch[d].status = "draft" /\ to = "assigned")
  BY <1>1, <1>2, <1>4, AboutCallFits, StartTurn DEF BeginStatus, About
<1> QED
  BY <1>3, <1>4

LEMMA BeginReassignTypes ==
    ASSUME TypeInv, NEW r \in Requests, NEW d \in Dispatches, NEW t \in Techs,
           BeginReassign(r, d, t)
    PROVE  TypeInv' /\ Turn(r) /\ call'[r] = AboutCall("reassign", "look", d, t, "reassigned")
<1>1. dispatch[d] # Absent /\ "reassigned" \in DispatchStatuses
  BY DispatchTable DEF BeginReassign
<1> QED
  BY <1>1, AboutCallFits, StartTurn DEF BeginReassign, About

LEMMA LookTypes ==
    ASSUME TypeInv, NEW r \in Requests, Look(r)
    PROVE  /\ TypeInv' /\ Turn(r)
           /\ \/ call'[r] = Idle
              \/ SameCall(r) /\ call'[r].pc \in {"check", "write"}
<1> DEFINE pc == Admit(call[r].user, call[r].operator, "write", "check", "refused")
<1>1. UNCHANGED <<order, dispatch, rows>>
  BY DEF Look
<1>2. CASE End(r)
  BY <1>1, <1>2, EndTurn, NothingWritten
<1>3. CASE pc # "refused" /\ Goto(r, pc)
  <2>1. pc \in {"check", "write"}
    BY <1>3, Admits
  <2> HIDE DEF pc
  <2>2. CallFits([call[r] EXCEPT !.pc = pc])
    BY <2>1, CallOf DEF Look, CallFits, Call, About, Assigns
  <2> QED
    BY <1>1, <1>3, <2>1, <2>2, GotoTurn, NothingWritten DEF Pcs
<1> QED
  BY <1>2, <1>3 DEF Look

LEMMA CheckTypes ==
    ASSUME TypeInv, NEW r \in Requests, Check(r)
    PROVE  /\ TypeInv' /\ Turn(r)
           /\ \/ call'[r] = Idle
              \/ SameCall(r) /\ call'[r].pc = "write" /\ ~SiteReached
<1>1. UNCHANGED <<order, dispatch, rows>>
  BY DEF Check
<1>2. CASE End(r)
  BY <1>1, <1>2, EndTurn, NothingWritten
<1>3. CASE Goto(r, "write") /\ ~SiteReached
  <2>1. CallFits([call[r] EXCEPT !.pc = "write"])
    BY CallOf DEF Check, CallFits, Call, About, Assigns
  <2> QED
    BY <1>1, <1>3, <2>1, GotoTurn, NothingWritten DEF Pcs
<1> QED
  BY <1>2, <1>3 DEF Check

LEMMA WriteOrderTypes ==
    ASSUME TypeInv, NEW r \in Requests, WriteOrder(r)
    PROVE  TypeInv' /\ Turn(r) /\ call'[r] = Idle
<1>1. call[r].to \in OrderStatuses /\ order \in Order
  BY CallOf DEF WriteOrder, CallFits, TypeInv
<1>2. order' \in Order /\ dispatch' \in [Dispatches -> Dispatch] /\ rows' \subseteq Row
  BY <1>1 DEF WriteOrder, Order, TypeInv
<1> QED
  BY <1>2, EndTurn DEF WriteOrder

LEMMA WriteAssignTypes ==
    ASSUME TypeInv, NEW r \in Requests, WriteAssign(r)
    PROVE  TypeInv' /\ Turn(r) /\ call'[r] = Idle
<1>1. call[r].user \in Techs \cup {None} /\ call[r].operator \in Techs \cup {None}
  BY CallOf DEF Call
<1>2. order' \in Order /\ dispatch' \in [Dispatches -> Dispatch] /\ rows' \subseteq Row
  BY <1>1, OrderTable DEF WriteAssign, Order, TypeInv
<1> QED
  BY <1>2, EndTurn DEF WriteAssign

LEMMA WriteCreateTypes ==
    ASSUME TypeInv, NEW r \in Requests, NEW d \in Dispatches, WriteCreate(r, d)
    PROVE  /\ TypeInv' /\ Turn(r)
           /\ \/ call'[r] = Idle /\ call[r].to = "draft"
              \/ /\ call'[r].pc = "get" /\ call'[r].op = "create" /\ call'[r].disp = d
                 /\ call'[r].user = call[r].user /\ call'[r].back = call[r].back
<1>1. call[r].user \in Techs /\ call[r].to \in DispatchStatuses
  BY CallOf DEF WriteCreate, CallFits
<1>2. order' \in Order /\ dispatch' \in [Dispatches -> Dispatch] /\ rows' \subseteq Row
  BY <1>1 DEF WriteCreate, Dispatch, TypeInv
<1>3. CASE call[r].to = "draft"
  BY <1>2, <1>3, EndTurn DEF WriteCreate
<1>4. CASE call[r].to # "draft"
  <2> DEFINE c == [call[r] EXCEPT !.pc = "get", !.disp = d]
  <2>1. /\ c.pc = "get" /\ c.op = "create" /\ c.disp = d /\ c.user = call[r].user
        /\ c.operator = call[r].operator /\ c.to = call[r].to /\ c.back = call[r].back
    BY CallOf DEF WriteCreate, Call
  <2>2. c \in Call
    BY ZenonT(60), CallOf DEF Call
  <2>3. call' = [call EXCEPT ![r] = c]
    BY <1>4, CallOf DEF WriteCreate
  <2>4. call[r].operator = call[r].user
    BY CallOf DEF WriteCreate, CallFits
  <2> HIDE DEF c
  <2>5. CallFits(c)
    BY <1>1, <2>1, <2>4 DEF CallFits, About, Assigns
  <2> QED
    BY <1>2, <2>1, <2>2, <2>3, <2>5, TypeTurn
<1> QED
  BY <1>3, <1>4

LEMMA WriteDispatchTypes ==
    ASSUME TypeInv, NEW r \in Requests, WriteDispatch(r)
    PROVE  /\ TypeInv' /\ Turn(r)
           /\ \/ call'[r] = Idle /\ (dispatch[call[r].disp] = Absent \/ call[r].op = "status")
              \/ SameCall(r) /\ call[r].op # "status" /\ call'[r].pc = "get"
              \/ SameCall(r) /\ call[r].op = "status" /\ call'[r].pc = "follow"
<1>1. /\ call[r].user \in Techs /\ call[r].to \in DispatchStatuses /\ call[r].disp \in Dispatches
      /\ call[r].op \in About /\ call[r].pc = "write"
  BY CallOf DEF WriteDispatch, CallFits, About
<1>2. order' \in Order /\ dispatch' \in [Dispatches -> Dispatch] /\ rows' \subseteq Row
  BY <1>1, DispatchOf DEF WriteDispatch, Dispatch, TypeInv
<1>3. CASE End(r) /\ (dispatch[call[r].disp] = Absent \/ call[r].op = "status")
  BY <1>2, <1>3, EndTurn
<1>4. CASE Goto(r, "get") /\ call[r].op # "status"
  <2>1. CallFits([call[r] EXCEPT !.pc = "get"])
    BY <1>1, <1>4, CallOf DEF CallFits, Call, About, Assigns
  <2> QED
    BY <1>2, <1>4, <2>1, GotoTurn DEF Pcs
<1>5. CASE Goto(r, "follow") /\ call[r].op = "status"
  <2>1. CallFits([call[r] EXCEPT !.pc = "follow"])
    BY <1>1, <1>5, CallOf DEF CallFits, Call, About, Assigns
  <2> QED
    BY <1>2, <1>5, <2>1, GotoTurn DEF Pcs
<1> QED
  BY <1>3, <1>4, <1>5 DEF WriteDispatch

LEMMA FollowTypes ==
    ASSUME TypeInv, NEW r \in Requests, Follow(r)
    PROVE  TypeInv' /\ Turn(r) /\ (call'[r] = Idle \/ (SameCall(r) /\ call'[r].pc = "list"))
<1>1. UNCHANGED <<order, dispatch, rows>>
  BY DEF Follow
<1>2. CASE End(r)
  BY <1>1, <1>2, EndTurn, NothingWritten
<1>3. CASE Goto(r, "list")
  <2>1. CallFits([call[r] EXCEPT !.pc = "list"])
    BY CallOf DEF Follow, CallFits, Call, About, Assigns
  <2> QED
    BY <1>1, <1>3, <2>1, GotoTurn, NothingWritten DEF Pcs
<1> QED
  BY <1>2, <1>3 DEF Follow

\* A set of dispatches that is not empty has a latest one.
LEMMA Latest ==
    ASSUME NEW D \in SUBSET Dispatches, D # {}
    PROVE  \E e \in D : \A f \in D : f <= e
<1> DEFINE R == OpToRel(<, Nat)
           K == {MaxDispatches - e : e \in D}
<1>1. MaxDispatches \in Nat /\ \A e \in D : e \in Nat /\ e <= MaxDispatches
  BY BoundsAssumption DEF Dispatches
<1>2. IsWellFoundedOn(R, Nat)
  BY NatLessThanWellFounded
<1>3. \A x, y \in Nat : y < x => <<y, x>> \in R
  BY DEF OpToRel
<1> HIDE DEF R
<1>4. K \subseteq Nat /\ K # {}
  BY <1>1
<1> HIDE DEF K
<1>5. PICK m \in K : \A k \in K : ~(<<k, m>> \in R)
  BY <1>2, <1>4, WFMin
<1>6. \A k \in K : ~(k < m)
  BY <1>3, <1>4, <1>5
<1>7. PICK e \in D : m = MaxDispatches - e
  BY <1>5 DEF K
<1>8. ASSUME NEW f \in D PROVE f <= e
  <2>1. MaxDispatches - f \in K
    BY DEF K
  <2>2. ~(MaxDispatches - f < MaxDispatches - e)
    BY <1>6, <1>7, <2>1
  <2> QED
    BY <1>1, <2>2
<1> QED
  BY <1>8

LEMMA ListTypes ==
    ASSUME TypeInv, NEW r \in Requests, List(r)
    PROVE  /\ TypeInv' /\ Turn(r)
           /\ call'[r] = Idle \/ \E e \in Dispatches : call'[r] = MoveCall(e)
<1> DEFINE d == call[r].disp
           e == CHOOSE x \in Remaining(d) : \A f \in Remaining(d) : f <= x
<1>1. UNCHANGED <<order, dispatch, rows>>
  BY DEF List
<1>2. CASE End(r)
  BY <1>1, <1>2, EndTurn, NothingWritten
<1>3. CASE Remaining(d) # {} /\ Start(r, MoveCall(e))
  <2>1. e \in Remaining(d)
    <3>1. Remaining(d) \in SUBSET Dispatches
      BY DEF Remaining
    <3> QED
      BY <1>3, <3>1, Latest
  <2> HIDE DEF e
  <2>2. e \in Dispatches /\ dispatch[e].status \in ActiveDispatch
    BY <2>1 DEF Remaining
  <2>3. dispatch[e].tech \in Techs
    BY <2>2, DispatchOf, DispatchTable
  <2>4. MoveCall(e) \in Call /\ CallFits(MoveCall(e))
    BY ZenonT(60), <2>2, <2>3, IdleCall DEF MoveCall, Call, CallFits, Idle, About, Assigns
  <2> QED
    BY <1>1, <1>3, <2>2, <2>4, StartTurn
<1> QED
  BY <1>2, <1>3 DEF List, MoveCall

LEMMA GetTypes ==
    ASSUME TypeInv, NEW r \in Requests, Get(r)
    PROVE  /\ TypeInv' /\ Turn(r) /\ SameCall(r)
           /\ \/ call'[r].pc = "undo"
              \/ /\ call'[r].pc = "guard" /\ order.status \notin ClosedOrder \cup ServiceStarted
              \/ /\ call'[r].pc = "pick" /\ order.status \notin ClosedOrder
                 /\ Technician(order) \in {None, call[r].user, call[r].operator}
<1> DEFINE pc == IF order.status \in ClosedOrder THEN "undo"
                 ELSE Admit(call[r].user, call[r].operator, "pick", "guard", "undo")
<1>1. UNCHANGED <<order, dispatch, rows>>
  BY DEF Get
<1>2. \/ pc = "undo"
      \/ pc = "guard" /\ order.status \notin ClosedOrder \cup ServiceStarted
      \/ /\ pc = "pick" /\ order.status \notin ClosedOrder
         /\ Technician(order) \in {None, call[r].user, call[r].operator}
  BY Admits
<1>3. Goto(r, pc)
  BY DEF Get
<1> HIDE DEF pc
<1>4. pc \in Pcs
  BY <1>2 DEF Pcs
<1>5. CallFits([call[r] EXCEPT !.pc = pc])
  BY <1>2, CallOf DEF Get, CallFits, Call, About, Assigns
<1> QED
  BY <1>1, <1>2, <1>3, <1>4, <1>5, GotoTurn, NothingWritten

LEMMA GuardTypes ==
    ASSUME TypeInv, NEW r \in Requests, Guard(r)
    PROVE  /\ TypeInv' /\ Turn(r) /\ SameCall(r)
           /\ call'[r].pc = "undo" \/ (call'[r].pc = "pick" /\ ~SiteReached)
<1>1. UNCHANGED <<order, dispatch, rows>>
  BY DEF Guard
<1>2. CallFits([call[r] EXCEPT !.pc = "undo"]) /\ CallFits([call[r] EXCEPT !.pc = "pick"])
  BY CallOf DEF Guard, CallFits, Call, About, Assigns
<1>3. CASE Goto(r, "undo")
  BY <1>1, <1>2, <1>3, GotoTurn, NothingWritten DEF Pcs
<1>4. CASE Goto(r, "pick") /\ ~SiteReached
  BY <1>1, <1>2, <1>4, GotoTurn, NothingWritten DEF Pcs
<1> QED
  BY <1>3, <1>4 DEF Guard

LEMMA PickTypes ==
    ASSUME TypeInv, NEW r \in Requests, Pick(r)
    PROVE  /\ TypeInv' /\ Turn(r) /\ SameCall(r)
           /\ call'[r].pc = "put" /\ call'[r].kept = order.status
<1> DEFINE c == [call[r] EXCEPT !.pc = "put", !.kept = order.status]
<1>1. UNCHANGED <<order, dispatch, rows>> /\ order.status \in OrderStatuses
  BY DEF Pick, TypeInv, Order
<1>2. c \in Call /\ c.pc = "put" /\ c.kept = order.status
  BY ZenonT(60), <1>1, CallOf DEF Call
<1>3. /\ c.op = call[r].op /\ c.disp = call[r].disp /\ c.user = call[r].user
      /\ c.operator = call[r].operator /\ c.to = call[r].to /\ c.back = call[r].back
  BY CallOf DEF Call
<1>4. CallFits(c)
  BY <1>1, CallOf DEF Pick, CallFits, Call, About, Assigns
<1>5. call' = [call EXCEPT ![r] = c]
  BY CallOf DEF Pick
<1> HIDE DEF c
<1>6. TypeInv' /\ Turn(r) /\ call'[r] = c
  BY <1>1, <1>2, <1>4, <1>5, TypeTurn, NothingWritten
<1> QED
  BY <1>2, <1>3, <1>6 DEF SameCall

LEMMA PutTypes ==
    ASSUME TypeInv, NEW r \in Requests, Put(r)
    PROVE  TypeInv' /\ Turn(r) /\ call'[r] = Idle
<1>1. /\ call[r].user \in Techs /\ call[r].operator \in Techs /\ call[r].disp \in Dispatches
      /\ call[r].kept \in OrderStatuses
  BY CallOf DEF Put, CallFits, Assigns, About
<1>2. order' \in Order /\ rows' \subseteq Row
  BY <1>1, OrderTable DEF Put, Order, Row, TypeInv
<1>3. dispatch' \in [Dispatches -> Dispatch]
  BY DEF Put, TypeInv
<1> QED
  BY <1>2, <1>3, EndTurn DEF Put

LEMMA FailTypes ==
    ASSUME TypeInv, NEW r \in Requests, Fail(r)
    PROVE  TypeInv' /\ Turn(r) /\ SameCall(r) /\ call'[r].pc = "undo"
<1>1. CallFits([call[r] EXCEPT !.pc = "undo"])
  BY CallOf DEF Fail, CallFits, Call, About, Assigns
<1> QED
  BY <1>1, GotoTurn, NothingWritten DEF Fail, Pcs

LEMMA BreakTypes ==
    ASSUME TypeInv, NEW r \in Requests, Break(r)
    PROVE  TypeInv' /\ Turn(r) /\ call'[r] = Idle
BY EndTurn, NothingWritten DEF Break

LEMMA UndoTypes ==
    ASSUME TypeInv, NEW r \in Requests, Undo(r)
    PROVE  TypeInv' /\ Turn(r) /\ call'[r] = Idle
<1>1. call[r].back \in Dispatch
  BY CallOf DEF Call
<1>2. order' \in Order /\ dispatch' \in [Dispatches -> Dispatch] /\ rows' \subseteq Row
  BY <1>1 DEF Undo, TypeInv
<1> QED
  BY <1>2, EndTurn DEF Undo

LEMMA FirstTypes == Init => TypeInv /\ PastInv
BY IdleCall, OrdersAssumption DEF Init, TypeInv, PastInv, Dispatch

LEMMA TypeInvIsInductive == TypeInv /\ [Next]_vars => TypeInv'
<1> SUFFICES ASSUME TypeInv, [Next]_vars PROVE TypeInv'
  OBVIOUS
<1>1. ASSUME NEW r \in Requests, Serve(r) PROVE TypeInv'
  <2>1. CASE \E actor \in Actors, to \in OrderStatuses : BeginOrder(r, actor, to)
    BY <2>1, BeginOrderTypes
  <2>2. CASE \E user \in Techs \cup {None}, t \in Techs : BeginAssign(r, user, t)
    BY <2>2, BeginAssignTypes
  <2>3. CASE \E t \in Techs, s \in {"draft", "assigned"} : BeginCreate(r, t, s)
    BY <2>3, BeginCreateTypes
  <2>4. CASE \E actor \in Actors, d \in Dispatches, to \in DispatchStatuses :
                 BeginStatus(r, actor, d, to)
    BY <2>4, BeginStatusTypes
  <2>5. CASE \E d \in Dispatches, t \in Techs : BeginReassign(r, d, t)
    BY <2>5, BeginReassignTypes
  <2>6. CASE Look(r) \/ Check(r) \/ WriteOrder(r) \/ WriteAssign(r) \/ WriteDispatch(r)
    BY <2>6, LookTypes, CheckTypes, WriteOrderTypes, WriteAssignTypes, WriteDispatchTypes
  <2>7. CASE \E d \in Dispatches : WriteCreate(r, d)
    BY <2>7, WriteCreateTypes
  <2>8. CASE Follow(r) \/ List(r) \/ Get(r) \/ Guard(r) \/ Pick(r) \/ Put(r) \/ Fail(r)
    BY <2>8, FollowTypes, ListTypes, GetTypes, GuardTypes, PickTypes, PutTypes, FailTypes
  <2> QED
    BY <1>1, <2>1, <2>2, <2>3, <2>4, <2>5, <2>6, <2>7, <2>8 DEF Serve
<1>2. ASSUME NEW r \in Requests, Undo(r) \/ Break(r) PROVE TypeInv'
  BY <1>2, UndoTypes, BreakTypes
<1>3. CASE UNCHANGED vars
  BY <1>3 DEF vars, TypeInv
<1> QED
  BY <1>1, <1>2, <1>3 DEF Next

\* Every step counts a request or none.
LEMMA MadeSteps ==
    ASSUME NEW r \in Requests, Serve(r) \/ Undo(r) \/ Break(r)
    PROVE  made' \in {made, made + 1}
<1>1. CASE \/ \E actor \in Actors, to \in OrderStatuses : BeginOrder(r, actor, to)
           \/ \E user \in Techs \cup {None}, t \in Techs : BeginAssign(r, user, t)
           \/ \E t \in Techs, s \in {"draft", "assigned"} : BeginCreate(r, t, s)
           \/ \E actor \in Actors, d \in Dispatches, to \in DispatchStatuses :
                  BeginStatus(r, actor, d, to)
           \/ \E d \in Dispatches, t \in Techs : BeginReassign(r, d, t)
  BY <1>1 DEF BeginOrder, BeginAssign, BeginCreate, BeginStatus, BeginReassign, Arrives
<1>2. CASE Look(r) \/ Check(r) \/ WriteOrder(r) \/ WriteAssign(r) \/ WriteDispatch(r)
  BY <1>2 DEF Look, Check, WriteOrder, WriteAssign, WriteDispatch
<1>3. CASE Follow(r) \/ List(r) \/ Get(r) \/ Guard(r) \/ Pick(r) \/ Put(r) \/ Fail(r)
  BY <1>3 DEF Follow, List, Get, Guard, Pick, Put, Fail
<1>4. CASE (\E d \in Dispatches : WriteCreate(r, d)) \/ Undo(r) \/ Break(r)
  BY <1>4 DEF WriteCreate, Undo, Break
<1> QED
  BY <1>1, <1>2, <1>3, <1>4 DEF Serve

LEMMA PastInvIsInductive == TypeInv /\ PastInv /\ [Next]_vars => PastInv'
<1> SUFFICES ASSUME TypeInv, PastInv, [Next]_vars PROVE PastInv'
  OBVIOUS
<1>1. ASSUME NEW r \in Requests, Serve(r) \/ Undo(r) \/ Break(r), NEW lost \in SUBSET Dispatches,
             Remember(r, lost)
      PROVE  PastInv'
  BY <1>1, MadeSteps DEF PastInv, Remember
<1>2. ASSUME NEW r \in Requests, Undo(r) PROVE Crossed(r) \subseteq Dispatches
  BY <1>2, CallOf DEF Undo, Crossed, CallFits, Assigns
<1>3. ASSUME NEW r \in Requests PROVE {d \in {call[r].disp} : Owes(r)} \subseteq Dispatches
  BY CallOf DEF Owes, CallFits, Assigns
<1>4. CASE UNCHANGED vars
  BY <1>4 DEF vars, past, PastInv
<1> QED
  BY <1>1, <1>2, <1>3, <1>4 DEF Next

\* The tables, the requests and what is remembered of them keep their types.
THEOREM DispatchTypeCorrect == Spec => []TypeOK
<1>1. Init => TypeInv /\ PastInv
  BY FirstTypes
<1>2. TypeInv /\ PastInv /\ [Next]_vars => (TypeInv /\ PastInv)'
  BY TypeInvIsInductive, PastInvIsInductive
<1>3. TypeInv /\ PastInv => TypeOK
  BY DEF TypeInv, PastInv, TypeOK
<1> QED
  BY <1>1, <1>2, <1>3, PTL DEF Spec

---------------------------------------------------------------------------
(* What a request was answered holds until it writes, or it is overtaken.  *)

\* The answers to the requests that are not r, whatever r does.
LEMMA OthersAnswered ==
    ASSUME AnswersInv, NEW r \in Requests, Turn(r), NEW lost, Remember(r, lost),
           NEW q \in Requests, q # r, q \notin overtaken'
    PROVE  Answered(call[q])'
<1>1. /\ q \notin overtaken /\ call'[q] = call[q]
      /\ Asked(q) => Question' = Question
  BY DEF Remember, Turn
<1>2. CallFits(call[q]) /\ Answered(call[q])
  BY <1>1, CallOf DEF AnswersInv
<1>3. CASE ~Asked(q)
  BY <1>1, <1>2, <1>3 DEF Asked, Answered, CallFits
<1>4. CASE Asked(q)
  <2>1. /\ order'.status = order.status /\ Technician(order') = Technician(order)
        /\ SiteReached' = SiteReached
    BY <1>1, <1>4 DEF Question
  <2>2. Started' = Started
    BY <2>1 DEF Started
  <2>3. MayName(call[q])' <=> MayName(call[q])
    BY <1>1, <2>1, <2>2 DEF MayName
  <2> QED
    BY <1>1, <1>2, <2>1, <2>3 DEF Answered
<1> QED
  BY <1>3, <1>4

\* When r itself has an answer that holds, or none, or is overtaken still.
LEMMA AnswersKept ==
    ASSUME AnswersInv, NEW r \in Requests, TypeInv', Turn(r), NEW lost, Remember(r, lost),
           r \notin overtaken' => Answered(call[r])'
    PROVE  AnswersInv'
BY OthersAnswered DEF AnswersInv

\* A request that is not overtaken has an answer that holds; one that reads
\* the order is not overtaken.
LEMMA OwnAnswer ==
    ASSUME AnswersInv, NEW r \in Requests, NEW lost, Remember(r, lost), r \notin overtaken',
           call[r].pc \notin {"idle", "look", "get"}, call'[r].pc # "idle"
    PROVE  r \notin overtaken /\ Answered(call[r])
BY DEF AnswersInv, Remember

\* A request that has asked nothing.
LEMMA NothingAsked ==
    ASSUME NEW r \in Requests,
           \/ call'[r] = Idle
           \/ /\ call'[r].pc \in {"look", "get", "undo", "follow", "list"}
              /\ call'[r].op \notin {"order", "assign"}
           \/ call'[r].op \in {"create", "status", "activate", "reassign"}
                /\ call'[r].pc \in {"check", "write"}
    PROVE  Answered(call[r])'
BY DEF Answered, Idle

LEMMA BeginAnswers ==
    ASSUME AnswersInv, NEW r \in Requests, Remember(r, {}),
           \/ \E actor \in Actors, to \in OrderStatuses : BeginOrder(r, actor, to)
           \/ \E user \in Techs \cup {None}, t \in Techs : BeginAssign(r, user, t)
           \/ \E t \in Techs, s \in {"draft", "assigned"} : BeginCreate(r, t, s)
           \/ \E actor \in Actors, d \in Dispatches, to \in DispatchStatuses :
                  BeginStatus(r, actor, d, to)
           \/ \E d \in Dispatches, t \in Techs : BeginReassign(r, d, t)
    PROVE  AnswersInv'
<1>0. TypeInv
  BY DEF AnswersInv
<1>1. ASSUME NEW actor, NEW to \in OrderStatuses, BeginOrder(r, actor, to)
      PROVE  AnswersInv'
  <2>1. TypeInv' /\ Turn(r) /\ call'[r] = OrderCall(to)
    BY <1>0, <1>1, BeginOrderTypes
  <2>2. May(OrderNext, order.status, to) /\ order' = order
    BY <1>1 DEF BeginOrder
  <2>3. /\ call'[r].op = "order" /\ call'[r].pc = "write" /\ call'[r].to = to
    BY <2>1 DEF OrderCall, Idle
  <2>4. Answered(call[r])'
    BY <2>2, <2>3 DEF Answered
  <2> QED
    BY <2>1, <2>4, AnswersKept
<1>2. ASSUME NEW user \in Techs \cup {None}, NEW t \in Techs, BeginAssign(r, user, t)
      PROVE  AnswersInv'
  <2>1. /\ TypeInv' /\ Turn(r)
        /\ \/ call'[r] = AssignCall("write", user, t) /\ Technician(order) \in {None, user, t}
           \/ call'[r] = AssignCall("check", user, t) /\ order.status \notin ServiceStarted
    BY <1>0, <1>2, BeginAssignTypes
  <2>2. May(OrderNext, order.status, "assigned") /\ order' = order
    BY <1>2 DEF BeginAssign
  <2>3. CASE call'[r] = AssignCall("write", user, t) /\ Technician(order) \in {None, user, t}
    <3>1. /\ call'[r].op = "assign" /\ call'[r].pc = "write" /\ call'[r].user = user
          /\ call'[r].operator = t
      BY <2>3 DEF AssignCall, Idle
    <3>2. MayName(call[r])'
      BY <2>2, <2>3, <3>1 DEF MayName
    <3>3. Answered(call[r])'
      BY <2>2, <3>1, <3>2 DEF Answered
    <3> QED
      BY <2>1, <3>3, AnswersKept
  <2>4. CASE call'[r] = AssignCall("check", user, t) /\ order.status \notin ServiceStarted
    <3>1. call'[r].op = "assign" /\ call'[r].pc = "check"
      BY <2>4 DEF AssignCall, Idle
    <3>2. Answered(call[r])'
      BY <2>2, <2>4, <3>1 DEF Answered
    <3> QED
      BY <2>1, <3>2, AnswersKept
  <2> QED
    BY <2>1, <2>3, <2>4
<1>3. ASSUME NEW t \in Techs, NEW s \in {"draft", "assigned"}, BeginCreate(r, t, s)
      PROVE  AnswersInv'
  <2>1. TypeInv' /\ Turn(r) /\ \E pc \in {"write", "check"} : call'[r] = CreateCall(pc, t, s)
    BY <1>0, <1>3, BeginCreateTypes
  <2>2. call'[r].op = "create" /\ call'[r].pc \in {"check", "write"}
    BY <2>1 DEF CreateCall, Idle
  <2> QED
    BY <2>1, <2>2, NothingAsked, AnswersKept
<1>4. ASSUME NEW actor, NEW d \in Dispatches, NEW to \in DispatchStatuses,
             BeginStatus(r, actor, d, to)
      PROVE  AnswersInv'
  <2>1. /\ TypeInv' /\ Turn(r)
        /\ \/ call'[r] = AboutCall("activate", "look", d, dispatch[d].tech, to)
           \/ call'[r] = AboutCall("status", "write", d, dispatch[d].tech, to)
    BY <1>0, <1>4, BeginStatusTypes
  <2>2. \/ call'[r].op = "activate" /\ call'[r].pc = "look"
        \/ call'[r].op = "status" /\ call'[r].pc = "write"
    BY <2>1 DEF AboutCall, Idle
  <2> QED
    BY <2>1, <2>2, NothingAsked, AnswersKept
<1>5. ASSUME NEW d \in Dispatches, NEW t \in Techs, BeginReassign(r, d, t)
      PROVE  AnswersInv'
  <2>1. /\ TypeInv' /\ Turn(r)
        /\ call'[r] = AboutCall("reassign", "look", d, t, "reassigned")
    BY <1>0, <1>5, BeginReassignTypes
  <2>2. call'[r].op = "reassign" /\ call'[r].pc = "look"
    BY <2>1 DEF AboutCall, Idle
  <2> QED
    BY <2>1, <2>2, NothingAsked, AnswersKept
<1> QED
  BY <1>1, <1>2, <1>3, <1>4, <1>5

\* The steps before the first write, and that write.
LEMMA WriteAnswers ==
    ASSUME AnswersInv, NEW r \in Requests, Remember(r, {}),
           \/ Look(r) \/ Check(r) \/ WriteOrder(r) \/ WriteAssign(r) \/ WriteDispatch(r)
           \/ \E d \in Dispatches : WriteCreate(r, d)
    PROVE  AnswersInv'
<1>0. TypeInv /\ CallFits(call[r])
  BY CallOf DEF AnswersInv
<1>1. ASSUME Look(r) PROVE AnswersInv'
  <2>1. TypeInv' /\ Turn(r) /\ (call'[r] = Idle \/ (SameCall(r) /\ call'[r].pc \in {"check", "write"}))
    BY <1>0, <1>1, LookTypes
  <2>2. call[r].op \in {"activate", "reassign"}
    BY <1>0, <1>1 DEF Look, CallFits
  <2> QED
    BY <2>1, <2>2, NothingAsked, AnswersKept DEF SameCall
<1>2. ASSUME Check(r) PROVE AnswersInv'
  <2>1. /\ TypeInv' /\ Turn(r)
        /\ \/ call'[r] = Idle
           \/ SameCall(r) /\ call'[r].pc = "write" /\ ~SiteReached
    BY <1>0, <1>2, CheckTypes
  <2>2. CASE call'[r] = Idle
    BY <2>1, <2>2, NothingAsked, AnswersKept
  <2>3. CASE SameCall(r) /\ call'[r].pc = "write" /\ ~SiteReached
    <3>1. SUFFICES ASSUME r \notin overtaken' PROVE Answered(call[r])'
      BY <2>1, AnswersKept
    <3>2. Answered(call[r])
      BY <1>2, <2>3, <3>1, OwnAnswer DEF Check
    <3>3. UNCHANGED <<order, dispatch>> /\ SiteReached' = SiteReached
      BY <1>2 DEF Check, SiteReached
    <3>4. call[r].op = "assign" => MayName(call[r])'
      BY <1>2, <2>3, <3>2, <3>3 DEF Check, Answered, MayName, Started
    <3>5. call[r].op # "order"
      BY <1>0, <1>2 DEF Check, CallFits
    <3> QED
      BY <2>3, <3>2, <3>3, <3>4, <3>5 DEF SameCall, Answered
  <2> QED
    BY <2>1, <2>2, <2>3
<1>3. ASSUME WriteOrder(r) \/ WriteAssign(r) PROVE AnswersInv'
  BY <1>0, <1>3, WriteOrderTypes, WriteAssignTypes, NothingAsked, AnswersKept
<1>4. ASSUME WriteDispatch(r) PROVE AnswersInv'
  <2>1. /\ TypeInv' /\ Turn(r)
        /\ call'[r] = Idle \/ (SameCall(r) /\ call'[r].pc \in {"get", "follow"})
    BY <1>0, <1>4, WriteDispatchTypes
  <2>2. call[r].op \in About
    BY <1>4 DEF WriteDispatch, About
  <2> QED
    BY <2>1, <2>2, NothingAsked, AnswersKept DEF SameCall, About
<1>5. ASSUME NEW d \in Dispatches, WriteCreate(r, d) PROVE AnswersInv'
  <2>1. /\ TypeInv' /\ Turn(r)
        /\ call'[r] = Idle \/ (call'[r].op = "create" /\ call'[r].pc = "get")
    BY <1>0, <1>5, WriteCreateTypes
  <2> QED
    BY <2>1, NothingAsked, AnswersKept
<1> QED
  BY <1>1, <1>2, <1>3, <1>4, <1>5

\* The steps after it.
LEMMA AssignAnswers ==
    ASSUME AnswersInv, NEW r \in Requests, Remember(r, {}),
           Follow(r) \/ List(r) \/ Get(r) \/ Guard(r) \/ Pick(r) \/ Put(r) \/ Fail(r)
    PROVE  AnswersInv'
<1>0. TypeInv /\ CallFits(call[r])
  BY CallOf DEF AnswersInv
<1>1. ASSUME Follow(r) PROVE AnswersInv'
  <2>1. TypeInv' /\ Turn(r) /\ (call'[r] = Idle \/ (SameCall(r) /\ call'[r].pc = "list"))
    BY <1>0, <1>1, FollowTypes
  <2>2. call[r].op = "status"
    BY <1>0, <1>1 DEF Follow, CallFits
  <2> QED
    BY <2>1, <2>2, NothingAsked, AnswersKept DEF SameCall
<1>2. ASSUME List(r) PROVE AnswersInv'
  <2>1. /\ TypeInv' /\ Turn(r)
        /\ call'[r] = Idle \/ \E e \in Dispatches : call'[r] = MoveCall(e)
    BY <1>0, <1>2, ListTypes
  <2>2. call'[r] = Idle \/ (call'[r].op = "move" /\ call'[r].pc = "get")
    BY <2>1 DEF MoveCall, Idle
  <2> QED
    BY <2>1, <2>2, NothingAsked, AnswersKept
<1>3. ASSUME Get(r) PROVE AnswersInv'
  <2>1. /\ TypeInv' /\ Turn(r) /\ SameCall(r)
        /\ \/ call'[r].pc = "undo"
           \/ /\ call'[r].pc = "guard" /\ order.status \notin ClosedOrder \cup ServiceStarted
           \/ /\ call'[r].pc = "pick" /\ order.status \notin ClosedOrder
              /\ Technician(order) \in {None, call[r].user, call[r].operator}
    BY <1>0, <1>3, GetTypes
  <2>2. call'[r].op \notin {"order", "assign"} /\ order' = order
    BY <1>0, <1>3, <2>1 DEF Get, CallFits, SameCall, Assigns
  <2>3. call'[r].pc = "pick" => MayName(call[r])'
    BY <2>1, <2>2 DEF MayName, SameCall
  <2>4. Answered(call[r])'
    BY <2>1, <2>2, <2>3 DEF Answered
  <2> QED
    BY <2>1, <2>4, AnswersKept
<1>4. ASSUME Guard(r) PROVE AnswersInv'
  <2>1. /\ TypeInv' /\ Turn(r) /\ SameCall(r)
        /\ call'[r].pc = "undo" \/ (call'[r].pc = "pick" /\ ~SiteReached)
    BY <1>0, <1>4, GuardTypes
  <2>2. call'[r].op \notin {"order", "assign"}
    BY <1>0, <1>4, <2>1 DEF Guard, CallFits, SameCall, Assigns
  <2>3. CASE call'[r].pc = "undo"
    BY <2>1, <2>2, <2>3, NothingAsked, AnswersKept
  <2>4. CASE call'[r].pc = "pick" /\ ~SiteReached
    <3>1. SUFFICES ASSUME r \notin overtaken' PROVE Answered(call[r])'
      BY <2>1, AnswersKept
    <3>2. Answered(call[r]) /\ call[r].pc = "guard"
      BY <1>4, <2>4, <3>1, OwnAnswer DEF Guard
    <3>3. UNCHANGED <<order, dispatch>> /\ SiteReached' = SiteReached
      BY <1>4 DEF Guard, SiteReached
    <3>4. MayName(call[r])'
      BY <2>4, <3>2, <3>3 DEF Answered, MayName, Started
    <3> QED
      BY <2>2, <2>4, <3>2, <3>3, <3>4 DEF Answered
  <2> QED
    BY <2>1, <2>3, <2>4
<1>5. ASSUME Pick(r) PROVE AnswersInv'
  <2>1. /\ TypeInv' /\ Turn(r) /\ SameCall(r)
        /\ call'[r].pc = "put" /\ call'[r].kept = order.status
    BY <1>0, <1>5, PickTypes
  <2>2. call'[r].op \notin {"order", "assign"}
    BY <1>0, <1>5, <2>1 DEF Pick, CallFits, SameCall, Assigns
  <2>3. SUFFICES ASSUME r \notin overtaken' PROVE Answered(call[r])'
    BY <2>1, AnswersKept
  <2>4. Answered(call[r]) /\ call[r].pc = "pick"
    BY <1>5, <2>1, <2>3, OwnAnswer DEF Pick
  <2>5. UNCHANGED <<order, dispatch>> /\ Started' = Started
    BY <1>5 DEF Pick, SiteReached, Started
  <2>6. MayName(call[r])'
    BY <2>1, <2>4, <2>5 DEF Answered, MayName, SameCall
  <2> QED
    BY <2>1, <2>2, <2>4, <2>5, <2>6 DEF Answered
<1>6. ASSUME Put(r) PROVE AnswersInv'
  BY <1>0, <1>6, PutTypes, NothingAsked, AnswersKept
<1>7. ASSUME Fail(r) PROVE AnswersInv'
  <2>1. TypeInv' /\ Turn(r) /\ SameCall(r) /\ call'[r].pc = "undo"
    BY <1>0, <1>7, FailTypes
  <2>2. call'[r].op \notin {"order", "assign"}
    BY <1>0, <1>7, <2>1 DEF Fail, CallFits, SameCall, Assigns
  <2> QED
    BY <2>1, <2>2, NothingAsked, AnswersKept
<1> QED
  BY <1>1, <1>2, <1>3, <1>4, <1>5, <1>6, <1>7

LEMMA AnswersInvIsInductive == AnswersInv /\ [Next]_vars => AnswersInv'
<1> SUFFICES ASSUME AnswersInv, [Next]_vars PROVE AnswersInv'
  OBVIOUS
<1>1. ASSUME NEW r \in Requests, Serve(r), Remember(r, {}) PROVE AnswersInv'
  BY <1>1, BeginAnswers, WriteAnswers, AssignAnswers DEF Serve
<1>2. ASSUME NEW r \in Requests, Undo(r) \/ Break(r), NEW lost, Remember(r, lost)
      PROVE  AnswersInv'
  <2>1. TypeInv' /\ Turn(r) /\ call'[r] = Idle
    BY <1>2, UndoTypes, BreakTypes DEF AnswersInv
  <2> QED
    BY <1>2, <2>1, NothingAsked, AnswersKept
<1>3. CASE UNCHANGED vars
  <2>1. TypeInv' /\ Started' = Started /\ UNCHANGED <<order, call, overtaken>>
    BY <1>3 DEF vars, past, AnswersInv, TypeInv, Started, SiteReached
  <2> QED
    BY <2>1 DEF AnswersInv, Answered, MayName
<1> QED
  BY <1>1, <1>2, <1>3 DEF Next

LEMMA FirstAnswers == Init => AnswersInv
<1>1. Init => \A r \in Requests : Answered(Idle)
  BY DEF Answered, Idle
<1> QED
  BY <1>1, FirstTypes DEF Init, AnswersInv

\* The order is written by three steps only.
LEMMA OrderWriters ==
    ASSUME NEW r \in Requests, Serve(r) \/ Undo(r) \/ Break(r)
    PROVE  order' = order \/ WriteOrder(r) \/ WriteAssign(r) \/ Put(r)
<1>1. CASE \/ \E actor \in Actors, to \in OrderStatuses : BeginOrder(r, actor, to)
           \/ \E user \in Techs \cup {None}, t \in Techs : BeginAssign(r, user, t)
           \/ \E t \in Techs, s \in {"draft", "assigned"} : BeginCreate(r, t, s)
           \/ \E actor \in Actors, d \in Dispatches, to \in DispatchStatuses :
                  BeginStatus(r, actor, d, to)
           \/ \E d \in Dispatches, t \in Techs : BeginReassign(r, d, t)
  BY <1>1 DEF BeginOrder, BeginAssign, BeginCreate, BeginStatus, BeginReassign
<1>2. CASE Look(r) \/ Check(r) \/ WriteDispatch(r)
  BY <1>2 DEF Look, Check, WriteDispatch
<1>3. CASE Follow(r) \/ List(r) \/ Get(r) \/ Guard(r) \/ Pick(r) \/ Fail(r)
  BY <1>3 DEF Follow, List, Get, Guard, Pick, Fail
<1>4. CASE (\E d \in Dispatches : WriteCreate(r, d)) \/ Undo(r) \/ Break(r)
  BY <1>4 DEF WriteCreate, Undo, Break
<1> QED
  BY <1>1, <1>2, <1>3, <1>4 DEF Serve

\* A write is one of a request that was overtaken, or of one whose answer holds.
LEMMA WrittenOnAnswer ==
    ASSUME AnswersInv, NEW r \in Requests, WriteOrder(r) \/ WriteAssign(r) \/ Put(r)
    PROVE  OvertakenWrite \/ Answered(call[r])
<1>1. call'[r] = Idle
  BY WriteOrderTypes, WriteAssignTypes, PutTypes DEF AnswersInv
<1>2. call[r].pc # "idle"
  BY DEF WriteOrder, WriteAssign, Put
<1>3. call'[r] # call[r]
  BY <1>1, <1>2 DEF Idle
<1> QED
  BY <1>3 DEF AnswersInv, OvertakenWrite

NamedAgain ==
    Started /\ Technician(order) # None =>
        \/ Technician(order) \in {order'.user, order'.operator}
        \/ OvertakenWrite

LEMMA NamedAgainSteps == AnswersInv /\ [Next]_vars => NamedAgain
<1> SUFFICES ASSUME AnswersInv, [Next]_vars, Started, Technician(order) # None, ~OvertakenWrite
             PROVE  Technician(order) \in {order'.user, order'.operator}
  BY DEF NamedAgain
<1>1. order \in Order /\ Technician(order) \in {order.user, order.operator}
  BY DEF AnswersInv, TypeInv, Technician
<1>2. CASE order' = order
  BY <1>1, <1>2
<1>3. ASSUME NEW r \in Requests, WriteOrder(r)
      PROVE  Technician(order) \in {order'.user, order'.operator}
  BY <1>1, <1>3 DEF WriteOrder, Order
<1>4. ASSUME NEW r \in Requests, WriteAssign(r) \/ Put(r)
      PROVE  Technician(order) \in {order'.user, order'.operator}
  <2>1. Answered(call[r])
    BY <1>4, WrittenOnAnswer
  <2>2. MayName(call[r])
    BY <1>4, <2>1 DEF Answered, WriteAssign, Put
  <2>3. Technician(order) \in {call[r].user, call[r].operator}
    BY <2>2 DEF MayName
  <2> QED
    BY <1>4, <2>3 DEF WriteAssign, Put
<1>5. ASSUME NEW r \in Requests, Serve(r) \/ Undo(r) \/ Break(r)
      PROVE  Technician(order) \in {order'.user, order'.operator}
  BY <1>2, <1>3, <1>4, <1>5, OrderWriters
<1>6. CASE UNCHANGED vars
  BY <1>2, <1>6 DEF vars
<1> QED
  BY <1>5, <1>6 DEF Next

\* assertTechnicianChangeAllowed, for any requests, any bodies and any order to
\* start from: once the service has started, whatever is written names the
\* technician of the order again, but for a request that asked before.
THEOREM TechnicianStaysNamed == Spec => TechnicianNamed
<1>1. Init => AnswersInv
  BY FirstAnswers
<1>2. AnswersInv /\ [Next]_vars => AnswersInv'
  BY AnswersInvIsInductive
<1>3. AnswersInv /\ [Next]_vars => [NamedAgain]_vars
  BY NamedAgainSteps
<1> QED
  BY <1>1, <1>2, <1>3, PTL DEF Spec, TechnicianNamed, NamedAgain

ClosedAgain == order.status \in ClosedOrder => order' = order \/ OvertakenWrite

LEMMA ClosedAgainSteps == AnswersInv /\ [Next]_vars => ClosedAgain
<1> SUFFICES ASSUME AnswersInv, [Next]_vars, order.status \in ClosedOrder, ~OvertakenWrite
             PROVE  order' = order
  BY DEF ClosedAgain
<1>1. order \in Order
  BY DEF AnswersInv, TypeInv
<1>2. ASSUME NEW r \in Requests, WriteOrder(r) PROVE order' = order
  <2>1. May(OrderNext, order.status, call[r].to)
    BY <1>2, WrittenOnAnswer DEF WriteOrder, Answered
  <2>2. call[r].to = order.status
    BY <2>1, OrderTable
  <2> QED
    BY <1>1, <1>2, <2>2 DEF WriteOrder, Order
<1>3. ASSUME NEW r \in Requests, WriteAssign(r) PROVE FALSE
  <2>1. May(OrderNext, order.status, "assigned")
    BY <1>3, WrittenOnAnswer DEF WriteAssign, Answered
  <2> QED
    BY <2>1, OrderTable
<1>4. ASSUME NEW r \in Requests, Put(r) PROVE FALSE
  BY <1>4, WrittenOnAnswer DEF Put, Answered
<1>5. ASSUME NEW r \in Requests, Serve(r) \/ Undo(r) \/ Break(r) PROVE order' = order
  BY <1>2, <1>3, <1>4, <1>5, OrderWriters
<1>6. CASE UNCHANGED vars
  BY <1>6 DEF vars
<1> QED
  BY <1>5, <1>6 DEF Next

\* The end of an order is the end, for any requests that overlap: a closed
\* order is written by none but a request that asked before it was closed.
THEOREM ClosedStaysClosed == Spec => ClosedOrderKept
<1>1. Init => AnswersInv
  BY FirstAnswers
<1>2. AnswersInv /\ [Next]_vars => AnswersInv'
  BY AnswersInvIsInductive
<1>3. AnswersInv /\ [Next]_vars => [ClosedAgain]_vars
  BY ClosedAgainSteps
<1> QED
  BY <1>1, <1>2, <1>3, PTL DEF Spec, ClosedOrderKept, ClosedAgain

---------------------------------------------------------------------------
(* Every active dispatch is backed.                                        *)

\* What r owes of the dispatch d it still owes, or has paid.
KeepsWord(r, d) ==
    Owes(r) /\ call[r].disp = d =>
        \/ Owes(r)' /\ call'[r].disp = d /\ call'[r].user = call[r].user
        \/ [tech |-> call[r].user, dispatch |-> d] \in rows'

LEMMA BackedKept ==
    ASSUME NEW r \in Requests, Turn(r), rows \subseteq rows', NEW d, KeepsWord(r, d),
           rows' \subseteq rows \cup {[tech |-> call[r].user, dispatch |-> call[r].disp]},
           NEW S \in SUBSET Requests, NEW t, Backed(S, d, t)
    PROVE  Backed(S, d, t)'
<1>1. CASE [tech |-> t, dispatch |-> d] \in rows
  BY <1>1 DEF Backed
<1>2. CASE r \in S /\ Owes(r) /\ call[r].disp = d /\ call[r].user = t
  BY <1>2 DEF Backed, KeepsWord
<1>3. ASSUME NEW q \in S, q # r, Owes(q), call[q].disp = d, call[q].user = t
      PROVE  Backed(S, d, t)'
  <2>1. call'[q] = call[q]
    BY <1>3 DEF Turn
  <2>2. CASE [tech |-> t, dispatch |-> d] \in rows'
    BY <2>2 DEF Backed
  <2>3. CASE [tech |-> t, dispatch |-> d] \notin rows'
    <3>1. Owes(q)'
      BY <1>3, <2>1, <2>3 DEF Owes
    <3> QED
      BY <1>3, <2>1, <3>1 DEF Backed
  <2> QED
    BY <2>2, <2>3
<1> QED
  BY <1>1, <1>2, <1>3 DEF Backed

\* The requests that are not r, when those about a dispatch that remains keep
\* what they were promised.
LEMMA OthersPending ==
    ASSUME AssignInv, NEW r \in Requests, Turn(r), NEW q \in Requests, q # r,
           NEW d, d = call[q].disp,
           d \in Dispatches /\ d \notin mislaid' /\ dispatch'[d] # Absent =>
               /\ d \notin mislaid /\ dispatch[d] # Absent
               /\ \A S \in SUBSET Requests : \A t : Backed(S, d, t) => Backed(S, d, t)'
               /\ \/ dispatch'[d].tech = dispatch[d].tech
                  \/ Backed(Requests, d, dispatch[d].tech)'
    PROVE  Pending(q)'
<1> PICK c : c = call[q]
  OBVIOUS
<1>1. call'[q] = c /\ Pending(q) /\ CallFits(c)
  BY CallOf DEF AssignInv, Turn
<1>2. CASE c.op \in About /\ d \notin mislaid' /\ dispatch'[d] # Absent
  <2>1. d \in Dispatches
    BY <1>1, <1>2 DEF CallFits
  <2>2. /\ d \notin mislaid /\ dispatch[d] # Absent
        /\ \A S \in SUBSET Requests : \A t : Backed(S, d, t) => Backed(S, d, t)'
        /\ \/ dispatch'[d].tech = dispatch[d].tech
           \/ Backed(Requests, d, dispatch[d].tech)'
    BY <1>2, <2>1
  <2>3. Backed(Requests, d, dispatch[d].tech) => Backed(Requests, d, dispatch[d].tech)'
    <3>1. CASE dispatch'[d].tech = dispatch[d].tech
      <4>1. PICK t : t = dispatch[d].tech
        OBVIOUS
      <4>2. Backed(Requests, d, t) => Backed(Requests, d, t)'
        BY <2>2
      <4> QED
        BY <3>1, <4>1, <4>2 DEF Backed
    <3> QED
      BY <2>2, <3>1
  <2>4. Backed(Requests \ {q}, d, c.back.tech) => Backed(Requests \ {q}, d, c.back.tech)'
    <3>1. Requests \ {q} \in SUBSET Requests
      OBVIOUS
    <3> QED
      BY <2>2, <3>1
  <2>5. Backed(Requests \ {q}, d, c.back.tech)' <=>
            Backed(Requests \ {q}, call[q].disp, call[q].back.tech)'
    BY <1>1 DEF Backed
  <2>6. Backed(Requests, d, dispatch[d].tech)' <=>
            Backed(Requests, call[q].disp, dispatch[call[q].disp].tech)'
    BY <1>1 DEF Backed
  <2>7. dispatch'[d].tech = c.user \/ Backed(Requests, d, dispatch[d].tech)'
           \/ dispatch[d].tech # c.user
    BY <2>2
  <2> QED
    BY <1>1, <1>2, <2>2, <2>3, <2>4, <2>5, <2>6, <2>7 DEF Pending
<1>3. CASE ~(c.op \in About /\ d \notin mislaid' /\ dispatch'[d] # Absent)
  BY <1>1, <1>3 DEF Pending
<1> QED
  BY <1>2, <1>3

\* A dispatch that is there and not mislaid after the step was neither before,
\* nor is it one that the step mislays.
LEMMA NotMislaid ==
    ASSUME NEW r, NEW lost, Remember(r, lost), NEW d, d \notin mislaid', dispatch'[d] # Absent
    PROVE  d \notin mislaid /\ d \notin lost
BY DEF Remember

\* A step that writes no dispatch, and keeps what it owes of those it does not mislay.
LEMMA QuietStep ==
    ASSUME AssignInv, NEW r \in Requests, TypeInv', Turn(r), UNCHANGED dispatch,
           rows \subseteq rows',
           rows' \subseteq rows \cup {[tech |-> call[r].user, dispatch |-> call[r].disp]},
           NEW lost, Remember(r, lost),
           \A d \in Dispatches : d \notin lost => KeepsWord(r, d),
           Pending(r)'
    PROVE  AssignInv'
<1>1. ASSUME NEW d \in Dispatches, d \notin lost, NEW S \in SUBSET Requests, NEW t,
             Backed(S, d, t)
      PROVE  Backed(S, d, t)'
  BY <1>1, BackedKept
<1>2. ASSUME NEW q \in Requests, q # r PROVE Pending(q)'
  <2> PICK d : d = call[q].disp
    OBVIOUS
  <2>1. d \in Dispatches /\ d \notin mislaid' /\ dispatch'[d] # Absent =>
           /\ d \notin mislaid /\ dispatch[d] # Absent
           /\ \A S \in SUBSET Requests : \A t : Backed(S, d, t) => Backed(S, d, t)'
           /\ dispatch'[d].tech = dispatch[d].tech
    BY <1>1, NotMislaid
  <2> QED
    BY <1>2, <2>1, OthersPending
<1>3. ActiveBacked'
  <2>1. SUFFICES ASSUME NEW d \in Dispatches, d \notin mislaid',
                        dispatch'[d].status \in ActiveDispatch
                 PROVE  Backed(Requests, d, dispatch[d].tech)'
    BY DEF ActiveBacked
  <2>2. dispatch'[d] # Absent
    BY <2>1, DispatchTable DEF Absent
  <2>3. Backed(Requests, d, dispatch[d].tech)
    BY <2>1, <2>2, NotMislaid DEF AssignInv, ActiveBacked
  <2>4. \A t : Backed(Requests, d, t) => Backed(Requests, d, t)'
    BY <1>1, <2>1, <2>2, NotMislaid
  <2> QED
    BY <2>3, <2>4 DEF Backed
<1> QED
  BY <1>2, <1>3 DEF AssignInv

\* What r is about stays as it was, and so does what it is to leave backed.
LEMMA OwnPending ==
    ASSUME AssignInv, NEW r \in Requests, Turn(r), SameCall(r), UNCHANGED <<dispatch, rows>>,
           Remember(r, {}), \A d \in Dispatches : KeepsWord(r, d),
           call'[r].pc = "write" => call[r].pc \in {"look", "check"} /\ call[r].op # "status",
           call'[r].pc \in {"look", "check"} => call[r].pc \in {"look", "check"}
    PROVE  Pending(r)'
<1> PICK c, d : c = call[r] /\ d = call[r].disp
  OBVIOUS
<1>1. Pending(r) /\ CallFits(c)
  BY CallOf DEF AssignInv
<1>2. CASE c.op \in About /\ d \notin mislaid' /\ dispatch'[d] # Absent
  <2>1. d \in Dispatches /\ d \notin mislaid
    BY <1>1, <1>2, NotMislaid DEF CallFits
  <2>2. \A S \in SUBSET Requests : \A t : Backed(S, d, t) => Backed(S, d, t)'
    BY <2>1, BackedKept
  <2>3. Backed(Requests \ {r}, d, c.back.tech) => Backed(Requests \ {r}, d, c.back.tech)'
    <3>1. Requests \ {r} \in SUBSET Requests
      OBVIOUS
    <3> QED
      BY <2>2, <3>1
  <2>4. Backed(Requests, d, dispatch[d].tech) => Backed(Requests, d, dispatch[d].tech)'
    <3>1. PICK t : t = dispatch[d].tech
      OBVIOUS
    <3>2. Backed(Requests, d, t) => Backed(Requests, d, t)'
      BY <2>2
    <3> QED
      BY <3>1, <3>2 DEF Backed
  <2>5. /\ Backed(Requests \ {r}, d, c.back.tech)' <=>
               Backed(Requests \ {r}, call[r].disp, call[r].back.tech)'
        /\ Backed(Requests, d, dispatch[d].tech)' <=>
               Backed(Requests, call[r].disp, dispatch[call[r].disp].tech)'
    BY DEF SameCall, Backed
  <2> QED
    BY <1>1, <1>2, <2>1, <2>3, <2>4, <2>5 DEF Pending, SameCall
<1>3. CASE ~(c.op \in About /\ d \notin mislaid' /\ dispatch'[d] # Absent)
  BY <1>1, <1>3 DEF Pending, SameCall
<1> QED
  BY <1>2, <1>3

\* A request that is about no dispatch, or is over.
LEMMA NothingPending ==
    ASSUME NEW r \in Requests, call'[r].op \in {"none", "order", "assign", "move"}
    PROVE  Pending(r)'
BY DEF Pending, About

LEMMA IdlePending ==
    ASSUME NEW r \in Requests, call'[r] = Idle
    PROVE  Pending(r)'
BY NothingPending DEF Idle

\* A request that owes nothing keeps its word.
LEMMA NothingOwed ==
    ASSUME NEW r, call[r].pc \notin {"get", "guard", "pick", "put", "undo"}, NEW d
    PROVE  KeepsWord(r, d)
BY DEF KeepsWord, Owes

\* A step that writes neither a dispatch nor a row.
LEMMA ReadingStep ==
    ASSUME AssignInv, NEW r \in Requests, TypeInv', Turn(r), UNCHANGED <<dispatch, rows>>,
           NEW lost, Remember(r, lost),
           \A d \in Dispatches : d \notin lost => KeepsWord(r, d),
           Pending(r)'
    PROVE  AssignInv'
BY QuietStep

LEMMA BeginPending ==
    ASSUME AssignInv, NEW r \in Requests, Remember(r, {}),
           \/ \E actor \in Actors, to \in OrderStatuses : BeginOrder(r, actor, to)
           \/ \E user \in Techs \cup {None}, t \in Techs : BeginAssign(r, user, t)
           \/ \E t \in Techs, s \in {"draft", "assigned"} : BeginCreate(r, t, s)
           \/ \E actor \in Actors, d \in Dispatches, to \in DispatchStatuses :
                  BeginStatus(r, actor, d, to)
           \/ \E d \in Dispatches, t \in Techs : BeginReassign(r, d, t)
    PROVE  AssignInv'
<1>0. TypeInv
  BY DEF AssignInv
<1>1. call[r].pc = "idle" /\ UNCHANGED <<dispatch, rows>>
  BY DEF BeginOrder, BeginAssign, BeginCreate, BeginStatus, BeginReassign, Arrives
<1>2. \A d : KeepsWord(r, d)
  BY <1>1, NothingOwed
<1>3. \A d \in Dispatches : d \notin mislaid' /\ dispatch[d].status \in ActiveDispatch =>
          Backed(Requests \ {r}, d, dispatch[d].tech)
  <2>1. SUFFICES ASSUME NEW d \in Dispatches, d \notin mislaid',
                        dispatch[d].status \in ActiveDispatch
                 PROVE  Backed(Requests \ {r}, d, dispatch[d].tech)
    OBVIOUS
  <2>2. dispatch'[d] # Absent
    BY <1>1, <2>1, DispatchTable DEF Absent
  <2>3. Backed(Requests, d, dispatch[d].tech)
    BY <2>1, <2>2, NotMislaid DEF AssignInv, ActiveBacked
  <2> QED
    BY <1>1, <2>3 DEF Backed, Owes
<1>4. ASSUME Turn(r), NEW S \in SUBSET Requests, NEW d, NEW t, Backed(S, d, t)
      PROVE  Backed(S, d, t)'
  BY <1>1, <1>2, <1>4, BackedKept
<1>5. ASSUME NEW actor, NEW to \in OrderStatuses, BeginOrder(r, actor, to)
      PROVE  AssignInv'
  <2>1. TypeInv' /\ Turn(r) /\ call'[r] = OrderCall(to)
    BY <1>0, <1>5, BeginOrderTypes
  <2>2. Pending(r)'
    BY <2>1, NothingPending DEF OrderCall, Idle
  <2> QED
    BY <1>1, <1>2, <2>1, <2>2, ReadingStep
<1>6. ASSUME NEW user \in Techs \cup {None}, NEW t \in Techs, BeginAssign(r, user, t)
      PROVE  AssignInv'
  <2>1. /\ TypeInv' /\ Turn(r)
        /\ \E pc : call'[r] = AssignCall(pc, user, t)
    BY <1>0, <1>6, BeginAssignTypes
  <2>2. call'[r].op = "assign"
    BY <2>1 DEF AssignCall, Idle
  <2> QED
    BY <1>1, <1>2, <2>1, <2>2, NothingPending, ReadingStep
<1>7. ASSUME NEW t \in Techs, NEW s \in {"draft", "assigned"}, BeginCreate(r, t, s)
      PROVE  AssignInv'
  <2>1. TypeInv' /\ Turn(r) /\ \E pc \in {"write", "check"} : call'[r] = CreateCall(pc, t, s)
    BY <1>0, <1>7, BeginCreateTypes
  <2>2. call'[r].op = "create" /\ call'[r].back = Absent
    BY <2>1 DEF CreateCall, Idle
  <2>3. Pending(r)'
    BY <2>2 DEF Pending, About
  <2> QED
    BY <1>1, <1>2, <2>1, <2>3, ReadingStep
<1>8. ASSUME NEW actor, NEW d \in Dispatches, NEW to \in DispatchStatuses,
             BeginStatus(r, actor, d, to)
      PROVE  AssignInv'
  <2>1. /\ TypeInv' /\ Turn(r)
        /\ call'[r] = IF dispatch[d].status = "draft" /\ to = "assigned"
                      THEN AboutCall("activate", "look", d, dispatch[d].tech, to)
                      ELSE AboutCall("status", "write", d, dispatch[d].tech, to)
    BY <1>0, <1>8, BeginStatusTypes
  <2>2. CASE dispatch[d].status = "draft" /\ to = "assigned"
    <3>1. /\ call'[r].op = "activate" /\ call'[r].disp = d
          /\ call'[r].user = dispatch[d].tech /\ call'[r].back = dispatch[d]
      BY <2>1, <2>2 DEF AboutCall, Idle
    <3>2. Pending(r)'
      BY <1>1, <2>2, <3>1 DEF Pending
    <3> QED
      BY <1>1, <1>2, <2>1, <3>2, ReadingStep
  <2>3. CASE ~(dispatch[d].status = "draft" /\ to = "assigned")
    <3>1. call'[r].op = "status" /\ call'[r].disp = d /\ call'[r].to = to
      BY <2>1, <2>3 DEF AboutCall, Idle
    <3>2. ASSUME d \notin mislaid', to \in ActiveDispatch
          PROVE  Backed(Requests, d, dispatch[d].tech)'
      <4>1. PICK t : t = dispatch[d].tech
        OBVIOUS
      <4>2. dispatch[d].status \in ActiveDispatch
        BY <1>0, <1>8, <2>3, <3>2, DispatchOf, DispatchTable DEF BeginStatus
      <4>3. Backed(Requests \ {r}, d, t)
        BY <1>3, <3>2, <4>1, <4>2
      <4>4. Backed(Requests, d, t)'
        BY <1>4, <2>1, <4>3 DEF Backed
      <4> QED
        BY <1>1, <4>1, <4>4
    <3>3. Backed(Requests, d, dispatch[d].tech)' <=>
              Backed(Requests, call[r].disp, dispatch[call[r].disp].tech)'
      BY <3>1
    <3>4. Pending(r)'
      BY <3>1, <3>2, <3>3 DEF Pending
    <3> QED
      BY <1>1, <1>2, <2>1, <3>4, ReadingStep
  <2> QED
    BY <2>2, <2>3
<1>9. ASSUME NEW d \in Dispatches, NEW u \in Techs, BeginReassign(r, d, u)
      PROVE  AssignInv'
  <2>1. TypeInv' /\ Turn(r) /\ call'[r] = AboutCall("reassign", "look", d, u, "reassigned")
    BY <1>0, <1>9, BeginReassignTypes
  <2>2. call'[r].op = "reassign" /\ call'[r].disp = d /\ call'[r].back = dispatch[d]
    BY <2>1 DEF AboutCall, Idle
  <2>3. PICK t : t = dispatch[d].tech
    OBVIOUS
  <2>4. ASSUME d \notin mislaid' PROVE Backed(Requests \ {r}, d, t)'
    <3>1. dispatch[d].status \in ActiveDispatch
      BY <1>0, <1>9, DispatchOf, DispatchTable DEF BeginReassign
    <3>2. Backed(Requests \ {r}, d, t)
      BY <1>3, <2>3, <2>4, <3>1
    <3>3. Requests \ {r} \in SUBSET Requests
      OBVIOUS
    <3> QED
      BY <1>4, <2>1, <3>2, <3>3
  <2>5. Backed(Requests \ {r}, d, t)' <=>
            Backed(Requests \ {r}, call[r].disp, call[r].back.tech)'
    BY <2>2, <2>3
  <2>6. Pending(r)'
    BY <2>2, <2>4, <2>5 DEF Pending
  <2> QED
    BY <1>1, <1>2, <2>1, <2>6, ReadingStep
<1> QED
  BY <1>5, <1>6, <1>7, <1>8, <1>9

\* The steps that only read, and the writes of the order alone.
LEMMA ReadsPending ==
    ASSUME AssignInv, NEW r \in Requests, Remember(r, {}),
           \/ Look(r) \/ Check(r) \/ WriteOrder(r) \/ WriteAssign(r) \/ Follow(r) \/ List(r)
           \/ Get(r) \/ Guard(r) \/ Pick(r) \/ Fail(r)
    PROVE  AssignInv'
<1>0. TypeInv /\ CallFits(call[r])
  BY CallOf DEF AssignInv
<1>1. UNCHANGED <<dispatch, rows>>
  BY DEF Look, Check, WriteOrder, WriteAssign, Follow, List, Get, Guard, Pick, Fail
<1>2. ASSUME Look(r) \/ Check(r) \/ WriteOrder(r) \/ WriteAssign(r) \/ Follow(r) \/ List(r)
      PROVE  AssignInv'
  <2>1. \A d : KeepsWord(r, d)
    BY <1>2, NothingOwed DEF Look, Check, WriteOrder, WriteAssign, Follow, List
  <2>2. /\ TypeInv' /\ Turn(r)
        /\ \/ call'[r] = Idle
           \/ \E e \in Dispatches : call'[r] = MoveCall(e)
           \/ SameCall(r) /\ call'[r].pc = "list"
           \/ /\ SameCall(r) /\ call'[r].pc \in {"check", "write"}
              /\ call[r].pc \in {"look", "check"}
    BY <1>0, <1>2, LookTypes, CheckTypes, WriteOrderTypes, WriteAssignTypes, FollowTypes,
       ListTypes DEF Look, Check
  <2>3. CASE call'[r] = Idle
    BY <1>1, <2>1, <2>2, <2>3, IdlePending, ReadingStep
  <2>4. CASE \E e \in Dispatches : call'[r] = MoveCall(e)
    <3>1. call'[r].op = "move"
      BY <2>4 DEF MoveCall, Idle
    <3> QED
      BY <1>1, <2>1, <2>2, <3>1, NothingPending, ReadingStep
  <2>5. CASE SameCall(r) /\ call'[r].pc = "list"
    <3>1. Pending(r)'
      BY <1>1, <2>1, <2>2, <2>5, OwnPending
    <3> QED
      BY <1>1, <2>1, <2>2, <3>1, ReadingStep
  <2>6. CASE /\ SameCall(r) /\ call'[r].pc \in {"check", "write"}
             /\ call[r].pc \in {"look", "check"}
    <3>1. CASE call[r].op = "status"
      <4>1. Pending(r)'
        BY <1>0, <1>2, <2>6, <3>1 DEF Look, Check, CallFits, AssignInv, Pending, SameCall
      <4> QED
        BY <1>1, <2>1, <2>2, <4>1, ReadingStep
    <3>2. CASE call[r].op # "status"
      <4>1. Pending(r)'
        BY <1>1, <2>1, <2>2, <2>6, <3>2, OwnPending
      <4> QED
        BY <1>1, <2>1, <2>2, <4>1, ReadingStep
    <3> QED
      BY <3>1, <3>2
  <2> QED
    BY <2>2, <2>3, <2>4, <2>5, <2>6
<1>3. ASSUME Get(r) \/ Guard(r) \/ Pick(r) \/ Fail(r) PROVE AssignInv'
  <2>1. /\ TypeInv' /\ Turn(r) /\ SameCall(r)
        /\ call'[r].pc \in {"guard", "pick", "put", "undo"}
    BY <1>0, <1>3, GetTypes, GuardTypes, PickTypes, FailTypes
  <2>2. ASSUME NEW d PROVE KeepsWord(r, d)
    BY <1>1, <2>1 DEF KeepsWord, Owes, SameCall
  <2>3. Pending(r)'
    BY <1>1, <2>1, <2>2, OwnPending
  <2> QED
    BY <1>1, <2>1, <2>2, <2>3, ReadingStep
<1> QED
  BY <1>2, <1>3

\* The assignment is made.
LEMMA PutPending ==
    ASSUME AssignInv, NEW r \in Requests, Remember(r, {}), Put(r)
    PROVE  AssignInv'
<1>1. TypeInv' /\ Turn(r) /\ call'[r] = Idle
  BY PutTypes DEF AssignInv
<1>2. UNCHANGED dispatch /\ rows' = rows \cup {[tech |-> call[r].user, dispatch |-> call[r].disp]}
  BY DEF Put
<1>3. \A d : KeepsWord(r, d)
  BY <1>2 DEF KeepsWord
<1>4. Pending(r)'
  BY <1>1, IdlePending
<1> QED
  BY <1>1, <1>2, <1>3, <1>4, QuietStep

\* What a request owed when it was broken off is mislaid.
LEMMA BreakPending ==
    ASSUME AssignInv, NEW r \in Requests, Break(r),
           Remember(r, {d \in {call[r].disp} : Owes(r)})
    PROVE  AssignInv'
<1>1. TypeInv' /\ Turn(r) /\ call'[r] = Idle
  BY BreakTypes DEF AssignInv
<1>2. UNCHANGED <<dispatch, rows>>
  BY DEF Break
<1>3. PICK lost : lost = {d \in {call[r].disp} : Owes(r)}
  OBVIOUS
<1>4. Remember(r, lost)
  BY <1>3
<1>5. \A d : d \notin lost => KeepsWord(r, d)
  BY <1>3 DEF KeepsWord
<1>6. Pending(r)'
  BY <1>1, IdlePending
<1> QED
  BY <1>1, <1>2, <1>4, <1>5, <1>6, ReadingStep

\* A step that writes the dispatch d and no row.
LEMMA WritingStep ==
    ASSUME AssignInv, NEW r \in Requests, TypeInv', Turn(r), UNCHANGED rows,
           NEW lost, Remember(r, lost), NEW d \in Dispatches,
           \A e \in Dispatches \ {d} : dispatch'[e] = dispatch[e] /\ KeepsWord(r, e),
           d \notin mislaid' /\ dispatch'[d] # Absent
                 /\ (\E q \in Requests \ {r} : call[q].disp = d) =>
               /\ dispatch[d] # Absent /\ KeepsWord(r, d)
               /\ \/ dispatch'[d].tech = dispatch[d].tech
                  \/ Backed(Requests, d, dispatch[d].tech)',
           d \notin mislaid' /\ dispatch'[d].status \in ActiveDispatch =>
               Backed(Requests, d, dispatch[d].tech)',
           Pending(r)'
    PROVE  AssignInv'
<1>1. ASSUME NEW e, KeepsWord(r, e), NEW S \in SUBSET Requests, NEW t, Backed(S, e, t)
      PROVE  Backed(S, e, t)'
  BY <1>1, BackedKept
<1>2. ASSUME NEW q \in Requests, q # r PROVE Pending(q)'
  <2> PICK e : e = call[q].disp
    OBVIOUS
  <2>1. ASSUME e \in Dispatches, e \notin mislaid', dispatch'[e] # Absent
        PROVE  /\ e \notin mislaid /\ dispatch[e] # Absent
               /\ \A S \in SUBSET Requests : \A t : Backed(S, e, t) => Backed(S, e, t)'
               /\ \/ dispatch'[e].tech = dispatch[e].tech
                  \/ Backed(Requests, e, dispatch[e].tech)'
    <3>1. e \notin mislaid
      BY <2>1, NotMislaid
    <3>2. CASE e # d
      BY <1>1, <2>1, <3>1, <3>2
    <3>3. CASE e = d
      <4>1. \E p \in Requests \ {r} : call[p].disp = d
        BY <1>2, <3>3
      <4>2. /\ dispatch[d] # Absent /\ KeepsWord(r, d)
            /\ \/ dispatch'[d].tech = dispatch[d].tech
               \/ Backed(Requests, d, dispatch[d].tech)'
        BY <2>1, <3>3, <4>1
      <4> QED
        BY <1>1, <3>1, <3>3, <4>2
    <3> QED
      BY <3>2, <3>3
  <2> QED
    BY <1>2, <2>1, OthersPending
<1>3. ActiveBacked'
  <2>1. SUFFICES ASSUME NEW e \in Dispatches, e \notin mislaid',
                        dispatch'[e].status \in ActiveDispatch
                 PROVE  Backed(Requests, e, dispatch[e].tech)'
    BY DEF ActiveBacked
  <2>2. CASE e = d
    BY <2>1, <2>2
  <2>3. CASE e # d
    <3>1. dispatch'[e] # Absent /\ dispatch'[e] = dispatch[e]
      BY <2>1, <2>3, DispatchTable DEF Absent
    <3>2. PICK t : t = dispatch[e].tech
      OBVIOUS
    <3>3. Backed(Requests, e, t)
      BY <2>1, <3>1, <3>2, NotMislaid DEF AssignInv, ActiveBacked
    <3>4. Backed(Requests, e, t)'
      BY <1>1, <2>3, <3>3
    <3> QED
      BY <3>1, <3>2, <3>4
  <2> QED
    BY <2>2, <2>3
<1> QED
  BY <1>2, <1>3 DEF AssignInv

\* A request that has written d for t owes the assignment, or it is there.
LEMMA OwedOrMade ==
    ASSUME NEW r \in Requests, NEW d, NEW t,
           call'[r].op \in {"create", "activate", "reassign"}, call'[r].pc = "get",
           call'[r].disp = d, call'[r].user = t
    PROVE  Backed(Requests, d, t)'
BY DEF Backed, Owes

LEMMA CreatePending ==
    ASSUME AssignInv, NEW r \in Requests, Remember(r, {}), NEW d \in Dispatches, WriteCreate(r, d)
    PROVE  AssignInv'
<1>1. /\ TypeInv' /\ Turn(r)
      /\ \/ call'[r] = Idle /\ call[r].to = "draft"
         \/ /\ call'[r].pc = "get" /\ call'[r].op = "create" /\ call'[r].disp = d
            /\ call'[r].user = call[r].user /\ call'[r].back = call[r].back
  BY WriteCreateTypes DEF AssignInv
<1>2. /\ dispatch \in [Dispatches -> Dispatch]
      /\ dispatch' = [dispatch EXCEPT ![d] = [tech |-> call[r].user, status |-> call[r].to]]
      /\ UNCHANGED rows
  BY DEF WriteCreate, AssignInv, TypeInv
<1>3. /\ dispatch'[d] = [tech |-> call[r].user, status |-> call[r].to]
      /\ \A e \in Dispatches \ {d} : dispatch'[e] = dispatch[e]
  BY <1>2
<1>4. \A e : KeepsWord(r, e)
  BY NothingOwed DEF WriteCreate
<1>5. \A q \in Requests : call[q].disp # d
  BY DEF WriteCreate, NextId
<1>6. ASSUME dispatch'[d].status \in ActiveDispatch
      PROVE  Backed(Requests, d, dispatch[d].tech)'
  <2>1. PICK t : t = call[r].user
    OBVIOUS
  <2>2. call[r].to # "draft"
    BY <1>3, <1>6, DispatchTable
  <2>3. Backed(Requests, d, t)'
    BY <1>1, <2>1, <2>2, OwedOrMade
  <2> QED
    BY <1>3, <2>1, <2>3
<1>7. Pending(r)'
  <2>1. CASE call'[r] = Idle
    BY <2>1, IdlePending
  <2>2. CASE call'[r].op = "create" /\ call'[r].back = call[r].back
    BY <2>2 DEF WriteCreate, AssignInv, Pending, About
  <2> QED
    BY <1>1, <2>1, <2>2
<1> QED
  BY <1>1, <1>2, <1>3, <1>4, <1>5, <1>6, <1>7, WritingStep

LEMMA WritePending ==
    ASSUME AssignInv, NEW r \in Requests, Remember(r, {}), WriteDispatch(r)
    PROVE  AssignInv'
<1>0. TypeInv /\ Pending(r)
  BY DEF AssignInv
<1>1. PICK d, u : d = call[r].disp /\ u = call[r].user
  OBVIOUS
<1>2. d \in Dispatches /\ call[r].pc = "write" /\ call[r].op \in About
  BY <1>0, <1>1, CallOf DEF WriteDispatch, CallFits, About
<1>3. /\ TypeInv' /\ Turn(r) /\ UNCHANGED rows
      /\ \/ call'[r] = Idle /\ (dispatch[d] = Absent \/ call[r].op = "status")
         \/ SameCall(r) /\ call[r].op # "status" /\ call'[r].pc = "get"
         \/ SameCall(r) /\ call[r].op = "status" /\ call'[r].pc = "follow"
  BY <1>0, <1>1, WriteDispatchTypes DEF WriteDispatch
<1>4. /\ \A e \in Dispatches \ {d} : dispatch'[e] = dispatch[e]
      /\ dispatch[d] = Absent => dispatch'[d] = Absent
      /\ dispatch[d] # Absent =>
             dispatch'[d] = [tech |-> IF call[r].op = "reassign" THEN u ELSE dispatch[d].tech,
                             status |-> call[r].to]
  BY <1>0, <1>1, <1>2 DEF WriteDispatch, TypeInv
<1>5. \A e : KeepsWord(r, e)
  BY <1>2, NothingOwed
<1>6. ASSUME NEW S \in SUBSET Requests, NEW t, Backed(S, d, t) PROVE Backed(S, d, t)'
  BY <1>3, <1>5, <1>6, BackedKept
<1>7. ASSUME dispatch[d] # Absent, call[r].op # "status" PROVE Backed(Requests, d, u)'
  <2>1. /\ call'[r].pc = "get" /\ call'[r].disp = d /\ call'[r].user = u
        /\ call'[r].op \in {"create", "activate", "reassign"}
    BY <1>1, <1>2, <1>3, <1>7 DEF SameCall, About
  <2> QED
    BY <2>1, OwedOrMade
<1>8. /\ dispatch'[d] # Absent => dispatch[d] # Absent
      /\ dispatch'[d] # Absent =>
             dispatch'[d].tech = dispatch[d].tech \/ Backed(Requests, d, dispatch[d].tech)'
  <2>1. SUFFICES ASSUME dispatch'[d] # Absent, dispatch'[d].tech # dispatch[d].tech
                 PROVE  Backed(Requests, d, dispatch[d].tech)'
    BY <1>4
  <2>2. dispatch'[d].tech = u /\ dispatch[d] # Absent /\ call[r].op = "reassign"
    BY <1>4, <2>1
  <2> QED
    BY <1>7, <2>2
<1>9. ASSUME d \notin mislaid', dispatch'[d].status \in ActiveDispatch
      PROVE  Backed(Requests, d, dispatch[d].tech)'
  <2>1. dispatch'[d] # Absent /\ dispatch[d] # Absent
    BY <1>4, <1>9, DispatchTable DEF Absent
  <2>2. d \notin mislaid
    BY <1>9, <2>1, NotMislaid
  <2>3. PICK t : t = dispatch[d].tech
    OBVIOUS
  <2>4. CASE call[r].op = "reassign"
    <3>1. dispatch'[d].tech = u
      BY <1>4, <2>1, <2>4
    <3> QED
      BY <1>7, <2>1, <2>4, <3>1
  <2>5. CASE call[r].op # "reassign"
    <3>1. dispatch'[d].tech = t /\ call[r].to \in ActiveDispatch
      BY <1>4, <1>9, <2>1, <2>3, <2>5
    <3>2. Backed(Requests, d, t) \/ (call[r].op = "activate" /\ t = u)
      BY <1>0, <1>1, <1>2, <2>1, <2>2, <2>3, <2>5, <3>1 DEF Pending, About
    <3>3. Backed(Requests, d, t)'
      BY <1>6, <1>7, <2>1, <3>2
    <3> QED
      BY <3>1, <3>3
  <2> QED
    BY <2>4, <2>5
<1>10. Pending(r)'
  <2>1. CASE call'[r] = Idle
    BY <2>1, IdlePending
  <2>2. CASE SameCall(r) /\ call[r].op = "status" /\ call'[r].pc = "follow"
    BY <2>2 DEF SameCall, Pending
  <2>3. CASE SameCall(r) /\ call[r].op # "status" /\ call'[r].pc = "get"
    <3>1. PICK b : b = call[r].back
      OBVIOUS
    <3>2. ASSUME call[r].op = "reassign", d \notin mislaid', dispatch'[d] # Absent
          PROVE  Backed(Requests \ {r}, d, b.tech)'
      <4>1. d \notin mislaid /\ dispatch[d] # Absent
        BY <1>4, <3>2, NotMislaid
      <4>2. Backed(Requests \ {r}, d, b.tech)
        BY <1>0, <1>1, <3>1, <3>2, <4>1 DEF Pending, About
      <4>3. Requests \ {r} \in SUBSET Requests
        OBVIOUS
      <4> QED
        BY <1>6, <4>2, <4>3
    <3>3. /\ call'[r].op = call[r].op /\ call'[r].pc = "get" /\ call'[r].disp = d
          /\ call'[r].back = b
      BY <1>1, <2>3, <3>1 DEF SameCall
    <3>4. Backed(Requests \ {r}, d, b.tech)' <=>
              Backed(Requests \ {r}, call[r].disp, call[r].back.tech)'
      BY <3>3
    <3> QED
      BY <1>0, <1>2, <2>3, <3>1, <3>2, <3>3, <3>4 DEF Pending, About
  <2> QED
    BY <1>3, <2>1, <2>2, <2>3
<1> QED
  BY <1>2, <1>3, <1>4, <1>5, <1>8, <1>9, <1>10, WritingStep

\* To undo gives a dispatch back what an assignment backs, unless another
\* request is about it.
LEMMA UndoPending ==
    ASSUME AssignInv, NEW r \in Requests, Undo(r), Remember(r, Crossed(r))
    PROVE  AssignInv'
<1>0. TypeInv /\ Pending(r) /\ ActiveBacked
  BY DEF AssignInv
<1>1. PICK d, lost : d = call[r].disp /\ lost = Crossed(r)
  OBVIOUS
<1>2. d \in Dispatches /\ call[r].op \in {"create", "activate", "reassign", "move"}
  BY <1>0, <1>1, CallOf DEF Undo, CallFits, Assigns
<1>3. TypeInv' /\ Turn(r) /\ UNCHANGED rows /\ call'[r] = Idle
  BY <1>0, UndoTypes DEF Undo
<1>4. /\ \A e \in Dispatches \ {d} : dispatch'[e] = dispatch[e]
      /\ dispatch[d] = Absent \/ call[r].op = "move" => dispatch'[d] = dispatch[d]
      /\ dispatch[d] # Absent /\ call[r].op # "move" => dispatch'[d] = call[r].back
  BY <1>0, <1>1, <1>2 DEF Undo, TypeInv
<1>5. Remember(r, lost)
  BY <1>1
<1>6. ASSUME d \notin mislaid', dispatch'[d] # Absent
      PROVE  /\ d \notin mislaid /\ dispatch[d] # Absent
             /\ call[r].op = "move" \/ ~\E q \in Requests \ {r} : call[q].disp = d
  <2>1. d \notin mislaid /\ d \notin lost
    BY <1>5, <1>6, NotMislaid
  <2> QED
    BY <1>1, <1>4, <1>6, <2>1 DEF Crossed
<1>7. /\ \A e \in Dispatches \ {d} : KeepsWord(r, e)
      /\ call[r].op = "move" => KeepsWord(r, d)
  BY <1>1 DEF KeepsWord, Owes
<1>8. ASSUME d \notin mislaid', dispatch'[d].status \in ActiveDispatch
      PROVE  Backed(Requests, d, dispatch[d].tech)'
  <2>1. dispatch'[d] # Absent
    BY <1>8, DispatchTable DEF Absent
  <2>2. /\ d \notin mislaid /\ dispatch[d] # Absent
        /\ call[r].op = "move" \/ ~\E q \in Requests \ {r} : call[q].disp = d
    BY <1>6, <1>8, <2>1
  <2>3. PICK t : t = dispatch'[d].tech
    OBVIOUS
  <2>4. CASE call[r].op = "move"
    <3>1. Backed(Requests, d, t)
      BY <1>0, <1>2, <1>4, <1>8, <2>2, <2>3, <2>4 DEF ActiveBacked
    <3>2. Backed(Requests, d, t)'
      BY <1>3, <1>7, <2>4, <3>1, BackedKept
    <3> QED
      BY <2>3, <3>2
  <2>5. CASE call[r].op # "move"
    <3>1. dispatch'[d] = call[r].back
      BY <1>4, <2>2, <2>5
    <3>2. call[r].op = "reassign"
      BY <1>0, <1>2, <1>8, <2>5, <3>1, DispatchTable DEF Pending, Absent
    <3>3. Backed(Requests \ {r}, d, t)
      BY <1>0, <1>1, <2>2, <2>3, <3>1, <3>2 DEF Pending, About
    <3>4. [tech |-> t, dispatch |-> d] \in rows'
      BY <1>3, <2>2, <3>2, <3>3 DEF Backed
    <3>5. Backed(Requests, d, t)'
      BY <3>4 DEF Backed
    <3> QED
      BY <2>3, <3>5
  <2> QED
    BY <2>4, <2>5
<1>9. Pending(r)'
  BY <1>3, IdlePending
<1>10. d \notin mislaid' /\ dispatch'[d] # Absent
             /\ (\E q \in Requests \ {r} : call[q].disp = d) =>
           dispatch[d] # Absent /\ KeepsWord(r, d) /\ dispatch'[d].tech = dispatch[d].tech
  BY <1>4, <1>6, <1>7
<1> QED
  BY <1>2, <1>3, <1>4, <1>5, <1>7, <1>8, <1>9, <1>10, WritingStep

LEMMA AssignInvIsInductive == AssignInv /\ [Next]_vars => AssignInv'
<1> SUFFICES ASSUME AssignInv, [Next]_vars PROVE AssignInv'
  OBVIOUS
<1>1. ASSUME NEW r \in Requests, Serve(r), Remember(r, {}) PROVE AssignInv'
  BY <1>1, BeginPending, ReadsPending, CreatePending, WritePending, PutPending DEF Serve
<1>2. ASSUME NEW r \in Requests, Undo(r), Remember(r, Crossed(r)) PROVE AssignInv'
  BY <1>2, UndoPending
<1>3. ASSUME NEW r \in Requests, Break(r), Remember(r, {d \in {call[r].disp} : Owes(r)})
      PROVE  AssignInv'
  BY <1>3, BreakPending
<1>4. CASE UNCHANGED vars
  <2>1. UNCHANGED <<order, dispatch, rows, call, mislaid>>
    BY <1>4 DEF vars, past
  <2>2. \A r \in Requests : Owes(r)' <=> Owes(r)
    BY <2>1 DEF Owes
  <2>3. \A S \in SUBSET Requests : \A d, t : Backed(S, d, t)' <=> Backed(S, d, t)
    BY <2>1, <2>2 DEF Backed
  <2>4. TypeInv' /\ ActiveBacked'
    BY <2>1, <2>3 DEF AssignInv, TypeInv, ActiveBacked
  <2>5. ASSUME NEW r \in Requests PROVE Pending(r)'
    <3>1. Requests \ {r} \in SUBSET Requests
      OBVIOUS
    <3> QED
      BY <2>1, <2>3, <3>1 DEF AssignInv, Pending
  <2> QED
    BY <2>4, <2>5 DEF AssignInv
<1> QED
  BY <1>1, <1>2, <1>3, <1>4 DEF Next

LEMMA FirstAssign == Init => AssignInv
<1> SUFFICES ASSUME Init PROVE AssignInv
  OBVIOUS
<1>1. TypeInv
  BY FirstTypes
<1>2. ActiveBacked
  BY DispatchTable DEF Init, ActiveBacked, Absent
<1>3. \A r \in Requests : Pending(r)
  BY DEF Init, Pending, Idle, About
<1> QED
  BY <1>1, <1>2, <1>3 DEF AssignInv

\* For any requests, however they overlap and wherever they fail: an active
\* dispatch that none of them is about is one the order was assigned by, but
\* for one whose undoing was broken off or crossed by another request.
THEOREM AssignedOrUndone == Spec => []ActiveDispatchAssigned
<1>1. Init => AssignInv
  BY FirstAssign
<1>2. AssignInv /\ [Next]_vars => AssignInv'
  BY AssignInvIsInductive
<1>3. AssignInv => ActiveDispatchAssigned
  <2>1. SUFFICES ASSUME AssignInv, NEW d \in Dispatches \ mislaid,
                        dispatch[d].status \in ActiveDispatch, ~Attended(d)
                 PROVE  \E w \in rows : w.dispatch = d /\ w.tech = dispatch[d].tech
    BY DEF ActiveDispatchAssigned
  <2>2. [tech |-> dispatch[d].tech, dispatch |-> d] \in rows
    BY <2>1 DEF AssignInv, ActiveBacked, Backed, Attended
  <2> QED
    BY <2>2
<1> QED
  BY <1>1, <1>2, <1>3, PTL DEF Spec

=============================================================================
