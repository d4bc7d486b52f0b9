---------------------------- MODULE FieldDispatch ----------------------------
(***************************************************************************)
(* One work order and its field dispatches                                 *)
(* (src/src/modules/work-orders, src/src/modules/field-dispatch).          *)
(*                                                                         *)
(* "To dispatch is to assign": creating a dispatch, activating a draft and *)
(* reassigning a dispatch also write the technician of the order, and to   *)
(* close a dispatch may hand the order to the one that remains.  The two   *)
(* repositories share no transaction: the dispatch is written first, and   *)
(* undone when the order refuses.  Every database call is a step, and a    *)
(* request works on what it has read; no update looks at the status it     *)
(* replaces.  Any call may fail, the undoing too, and the process may die  *)
(* between two calls.                                                      *)
(*                                                                         *)
(* Left out: the checklists a dispatch freezes and provisions, the events  *)
(* and notifications, and the field profiles (a technician is known by the *)
(* id of the user).                                                        *)
(***************************************************************************)
EXTENDS Integers, FiniteSets

CONSTANTS
    Requests,       \* requests that can be under way at one time (a bound)
    Techs,          \* field technicians
    Desk,           \* whoever dispatches and manages
    Orders,         \* the order before its first dispatch (a bound)
    MaxDispatches,  \* dispatches of the order (a bound)
    MaxCalls,       \* requests that are ever made (a bound)
    None

ASSUME TechsAssumption == Desk \notin Techs /\ None \notin Techs \cup {Desk}

ASSUME BoundsAssumption == MaxDispatches \in Nat /\ MaxCalls \in Nat

VARIABLES
    order,      \* work_orders: status, assigned_user_id, assigned_operator_id
    dispatch,   \* field_dispatches, in the order they were created
    rows,       \* work_order_assignments that a dispatch made
    call,       \* what each request is about
    made,       \* requests made so far (a bound)
    overtaken,  \* history: requests that wait to write on an old answer
    mislaid     \* history: dispatches whose undoing was lost or crossed

past == <<overtaken, mislaid>>
vars == <<order, dispatch, rows, call, made, past>>

Dispatches == 1 .. MaxDispatches
Actors     == Techs \cup {Desk}

(* WORK_ORDER_STATUS_TRANSITIONS and FIELD_DISPATCH_STATUS_TRANSITIONS.    *)
OrderNext ==
    [open        |-> {"assigned", "cancelled"},
     assigned    |-> {"accepted", "cancelled", "rejected"},
     accepted    |-> {"on_route", "cancelled"},
     on_route    |-> {"on_site", "cancelled"},
     on_site     |-> {"in_progress", "cancelled"},
     in_progress |-> {"paused", "completed", "cancelled"},
     paused      |-> {"in_progress"},
     completed   |-> {}, cancelled |-> {}, rejected |-> {}]

DispatchNext ==
    [draft      |-> {"assigned", "cancelled"},
     assigned   |-> {"accepted", "on_route", "reassigned", "cancelled", "failed"},
     accepted   |-> {"on_route", "arrived", "reassigned", "cancelled", "failed"},
     on_route   |-> {"arrived", "reassigned", "cancelled", "failed"},
     arrived    |-> {"in_service", "reassigned", "cancelled", "failed"},
     in_service |-> {"completed", "reassigned", "cancelled", "failed"},
     reassigned |-> {"accepted", "on_route", "cancelled", "failed"},
     completed  |-> {}, cancelled |-> {}, failed |-> {}]

OrderStatuses    == DOMAIN OrderNext
DispatchStatuses == DOMAIN DispatchNext

ClosedOrder    == {s \in OrderStatuses : OrderNext[s] = {}}
ServiceStarted == {"on_site", "in_progress", "paused"}
ActiveDispatch == {s \in DispatchStatuses : DispatchNext[s] # {}} \ {"draft"}
AtSite         == {"arrived", "in_service"}

\* assertStatusTransition, of either module: to stay is allowed.
May(next, from, to) == from = to \/ to \in next[from]

Order == [status : OrderStatuses, user : Techs \cup {None},
          operator : Techs \cup {None}]

ASSUME OrdersAssumption == Orders \subseteq Order

Absent   == [tech |-> None, status |-> "absent"]
Dispatch == [tech : Techs, status : DispatchStatuses] \cup {Absent}
Present  == {d \in Dispatches : dispatch[d] # Absent}

Row == [tech : Techs, dispatch : Dispatches]

Idle == [op |-> "none", pc |-> "idle", disp |-> 0, user |-> None,
         operator |-> None, to |-> "none", back |-> Absent, kept |-> "none"]

Call == [op : {"none", "order", "assign", "create", "status", "activate",
               "reassign", "move"},
         pc : {"idle", "look", "check", "write", "get", "guard", "pick", "put",
               "undo", "follow", "list"},
         disp : Dispatches \cup {0},
         user : Techs \cup {None}, operator : Techs \cup {None},
         to : OrderStatuses \cup DispatchStatuses \cup {"none"},
         back : Dispatch, kept : OrderStatuses \cup {"none"}]

Start(r, c) == call' = [call EXCEPT ![r] = c]
Goto(r, pc) == call' = [call EXCEPT ![r].pc = pc]
End(r)      == call' = [call EXCEPT ![r] = Idle]

\* A new request.
Arrives(r) == call[r].pc = "idle" /\ made < MaxCalls /\ made' = made + 1

---------------------------------------------------------------------------
(* assertTechnicianChangeAllowed, "a trava".                               *)

Technician(o) == IF o.user # None THEN o.user ELSE o.operator

SiteReached == \E d \in Dispatches : dispatch[d].status \in AtSite

\* Mutant: the dispatches at the site are forgotten (o ciclo 1).
AdmitByOrder(user, operator, passed, ask, refused) ==
    IF \/ Technician(order) \in {None, user, operator}
       \/ order.status \notin ServiceStarted
    THEN passed ELSE refused

\* What the order that is read says of the technicians of the request: there
\* is no change, the service has started, or the dispatches have to be asked.
Admit(user, operator, passed, ask, refused) ==
    IF Technician(order) \in {None, user, operator} THEN passed
    ELSE IF order.status \in ServiceStarted THEN refused ELSE ask

\* An id that no dispatch, row or request has, later than those there are.
NextId == {d \in Dispatches : /\ \A e \in Present : e < d
                              /\ \A w \in rows : w.dispatch # d
                              /\ \A r \in Requests : call[r].disp # d}

---------------------------------------------------------------------------
(* The requests, up to the first thing they write.                         *)

\* assertMutationObjectScope of the order, the scope of the dispatch.
MayMutate(actor)        == actor \in {Desk, order.operator}
MayTransition(actor, d) == actor \in {Desk, dispatch[d].tech}

\* Mutant: what is cancelled is only not cancelled yet.
BeginOrderLoose(r, actor, to) ==
    /\ Arrives(r)
    /\ IF to = "cancelled"
       THEN actor = Desk /\ order.status # to
       ELSE May(OrderNext, order.status, to) /\ MayMutate(actor)
    /\ Start(r, [Idle EXCEPT !.op = "order", !.pc = "write", !.to = to])
    /\ UNCHANGED <<order, dispatch, rows>>

\* WorkOrderService.changeStatus and cancel: who cancels decides about money,
\* and is at the desk.
BeginOrder(r, actor, to) ==
    /\ Arrives(r)
    /\ May(OrderNext, order.status, to)
    /\ IF to = "cancelled" THEN actor = Desk /\ order.status # to
                           ELSE MayMutate(actor)
    /\ Start(r, [Idle EXCEPT !.op = "order", !.pc = "write", !.to = to])
    /\ UNCHANGED <<order, dispatch, rows>>

\* WorkOrderService.assign: the app names the operator, the web form may
\* name a user besides.
BeginAssign(r, user, operator) ==
    /\ Arrives(r)
    /\ May(OrderNext, order.status, "assigned")
    /\ LET pc == Admit(user, operator, "write", "check", "refused")
       IN  /\ pc # "refused"
           /\ Start(r, [Idle EXCEPT !.op = "assign", !.pc = pc, !.user = user,
                                    !.operator = operator])
    /\ UNCHANGED <<order, dispatch, rows>>

\* FieldDispatchService.create.
BeginCreate(r, t, status) ==
    /\ Arrives(r)
    /\ NextId # {}
    /\ status = "assigned" => order.status \notin ClosedOrder
    /\ LET pc == IF status = "draft" THEN "write"
                 ELSE Admit(t, t, "write", "check", "refused")
       IN  /\ pc # "refused"
           /\ Start(r, [Idle EXCEPT !.op = "create", !.pc = pc, !.user = t,
                                    !.operator = t, !.to = status])
    /\ UNCHANGED <<order, dispatch, rows>>

\* A request about the dispatch d, as it is, for the technician t.
AboutCall(op, pc, d, t, to) ==
    [Idle EXCEPT !.op = op, !.pc = pc, !.disp = d, !.user = t, !.operator = t,
                 !.to = to, !.back = dispatch[d]]

\* FieldDispatchService.changeStatus.
BeginStatus(r, actor, d, to) ==
    /\ Arrives(r)
    /\ dispatch[d] # Absent
    /\ MayTransition(actor, d)
    /\ May(DispatchNext, dispatch[d].status, to)
    /\ IF dispatch[d].status = "draft" /\ to = "assigned"
       THEN actor = Desk /\ Start(r, AboutCall("activate", "look", d, dispatch[d].tech, to))
       ELSE Start(r, AboutCall("status", "write", d, dispatch[d].tech, to))
    /\ UNCHANGED <<order, dispatch, rows>>

\* FieldDispatchService.reassign.
BeginReassign(r, d, t) ==
    /\ Arrives(r)
    /\ dispatch[d] # Absent
    /\ May(DispatchNext, dispatch[d].status, "reassigned")
    /\ Start(r, AboutCall("reassign", "look", d, t, "reassigned"))
    /\ UNCHANGED <<order, dispatch, rows>>

\* The order is read: a closed one is refused, and to reassign to the same
\* technician is to do nothing.
Look(r) ==
    LET c  == call[r]
        pc == Admit(c.user, c.operator, "write", "check", "refused")
    IN  /\ c.pc = "look"
        /\ IF \/ order.status \in ClosedOrder
              \/ c.op = "reassign" /\ c.user = c.back.tech
              \/ pc = "refused"
           THEN End(r)
           ELSE Goto(r, pc)
        /\ UNCHANGED <<order, dispatch, rows, made>>

Check(r) ==
    /\ call[r].pc = "check"
    /\ IF SiteReached THEN End(r) ELSE Goto(r, "write")
    /\ UNCHANGED <<order, dispatch, rows, made>>

---------------------------------------------------------------------------
(* The first write.                                                        *)

WriteOrder(r) ==
    /\ call[r].pc = "write" /\ call[r].op = "order"
    /\ order' = [order EXCEPT !.status = call[r].to]
    /\ End(r)
    /\ UNCHANGED <<dispatch, rows, made>>

\* The order, its row and the event in one transaction.
WriteAssign(r) ==
    /\ call[r].pc = "write" /\ call[r].op = "assign"
    /\ order' = [status |-> "assigned", user |-> call[r].user,
                 operator |-> call[r].operator]
    /\ End(r)
    /\ UNCHANGED <<dispatch, rows, made>>

WriteCreate(r, d) ==
    /\ call[r].pc = "write" /\ call[r].op = "create"
    /\ d \in NextId /\ \A e \in NextId : d <= e
    /\ dispatch' = [dispatch EXCEPT ![d] = [tech |-> call[r].user,
                                            status |-> call[r].to]]
    /\ IF call[r].to = "draft" THEN End(r)
       ELSE call' = [call EXCEPT ![r].pc = "get", ![r].disp = d]
    /\ UNCHANGED <<order, rows, made>>

\* changeStatus and reassign; the dispatch may be gone (404).  The closing of
\* a dispatch that was at the site hands nothing over.
WriteDispatch(r) ==
    LET c == call[r]
    IN  /\ c.pc = "write" /\ c.op \in {"status", "activate", "reassign"}
        /\ dispatch' = [dispatch EXCEPT ![c.disp] =
               IF @ = Absent THEN @
               ELSE [tech |-> IF c.op = "reassign" THEN c.user ELSE @.tech,
                     status |-> c.to]]
        /\ IF dispatch[c.disp] = Absent THEN End(r)
           ELSE IF c.op # "status" THEN Goto(r, "get")
           ELSE IF c.to \in {"cancelled", "failed"} /\ c.back.status \notin AtSite
                THEN Goto(r, "follow")
                ELSE End(r)
        /\ UNCHANGED <<order, rows, made>>

---------------------------------------------------------------------------
(* moveAssignmentToRemainingDispatch: what fails here is logged.           *)

Follow(r) ==
    /\ call[r].pc = "follow"
    /\ IF \/ order.status \in ClosedOrder \cup ServiceStarted
          \/ order.user # dispatch[call[r].disp].tech
       THEN End(r)
       ELSE Goto(r, "list")
    /\ UNCHANGED <<order, dispatch, rows, made>>

Remaining(d) == {e \in Dispatches \ {d} : dispatch[e].status \in ActiveDispatch}

\* The list is in the order of created_at, the latest first.
List(r) ==
    LET d    == call[r].disp
        last == CHOOSE e \in Remaining(d) : \A f \in Remaining(d) : f <= e
    IN  /\ call[r].pc = "list"
        /\ IF Remaining(d) = {} \/ dispatch[last].tech = call[r].user
           THEN End(r)
           ELSE Start(r, [Idle EXCEPT !.op = "move", !.pc = "get", !.disp = last,
                                      !.user = dispatch[last].tech,
                                      !.operator = dispatch[last].tech])
        /\ UNCHANGED <<order, dispatch, rows, made>>

---------------------------------------------------------------------------
(* WorkOrderService.assignFromDispatch.                                    *)

Get(r) ==
    /\ call[r].pc = "get"
    /\ Goto(r, IF order.status \in ClosedOrder THEN "undo"
               ELSE Admit(call[r].user, call[r].operator, "pick", "guard", "undo"))
    /\ UNCHANGED <<order, dispatch, rows, made>>

Guard(r) ==
    /\ call[r].pc = "guard"
    /\ Goto(r, IF SiteReached THEN "undo" ELSE "pick")
    /\ UNCHANGED <<order, dispatch, rows, made>>

\* The transaction reads the status and writes it back, without a lock.
Pick(r) ==
    /\ call[r].pc = "pick"
    /\ call' = [call EXCEPT ![r].pc = "put", ![r].kept = order.status]
    /\ UNCHANGED <<order, dispatch, rows, made>>

Put(r) ==
    /\ call[r].pc = "put"
    /\ order' = [status |-> IF call[r].kept = "open" THEN "assigned"
                            ELSE call[r].kept,
                 user |-> call[r].user, operator |-> call[r].operator]
    /\ rows' = rows \cup {[tech |-> call[r].user, dispatch |-> call[r].disp]}
    /\ End(r)
    /\ UNCHANGED <<dispatch, made>>

\* An error inside the try: nothing of its transaction remains.
Fail(r) ==
    /\ call[r].pc \in {"get", "guard", "pick", "put"}
    /\ Goto(r, "undo")
    /\ UNCHANGED <<order, dispatch, rows, made>>

\* An error anywhere else, the compensation included, or the process dies:
\* the request is over, and what it has written stays.
Break(r) ==
    /\ call[r].pc # "idle"
    /\ End(r)
    /\ UNCHANGED <<order, dispatch, rows, made>>

\* Mutant: only the status is restored.
UndoStatus(r) ==
    /\ call[r].pc = "undo"
    /\ dispatch' = [dispatch EXCEPT ![call[r].disp] =
           IF call[r].op = "move" \/ @ = Absent THEN @
           ELSE [@ EXCEPT !.status = call[r].back.status]]
    /\ End(r)
    /\ UNCHANGED <<order, rows, made>>

\* Mutant: nothing is undone.
UndoNothing(r) ==
    /\ call[r].pc = "undo"
    /\ End(r)
    /\ UNCHANGED <<order, dispatch, rows, made>>

\* deleteById, restoreState; to move the order is not undone.
Undo(r) ==
    /\ call[r].pc = "undo"
    /\ dispatch' = [dispatch EXCEPT ![call[r].disp] =
           IF call[r].op = "move" \/ @ = Absent THEN @ ELSE call[r].back]
    /\ End(r)
    /\ UNCHANGED <<order, rows, made>>

---------------------------------------------------------------------------
(* History variables: the system does not read them, the properties do.    *)

\* What a request asks before it writes the order.
Question == <<order.status, Technician(order), SiteReached>>

\* The request has asked and has not written yet.
Asked(r) ==
    \/ call[r].pc \in {"check", "guard", "pick", "put"}
    \/ call[r].pc = "write" /\ call[r].op \in {"order", "assign"}

\* The dispatch was written, and no assignment names its technician yet.
Owes(r) ==
    /\ call[r].op \in {"create", "activate", "reassign"}
    /\ call[r].pc \in {"get", "guard", "pick", "put", "undo"}
    /\ [tech |-> call[r].user, dispatch |-> call[r].disp] \notin rows

\* The dispatch is undone under another request that is about it.
Crossed(r) ==
    {d \in {call[r].disp} : /\ call[r].op # "move"
                            /\ \E q \in Requests \ {r} : call[q].disp = d}

\* r takes a step that leaves the dispatches of lost as they should not be.
\* To read the order is to ask again.
Remember(r, lost) ==
    /\ overtaken' =
           {q \in Requests :
               IF q = r
               THEN r \in overtaken /\ call[r].pc \notin {"idle", "look", "get"}
                                    /\ call'[r].pc # "idle"
               ELSE q \in overtaken \/ (Asked(q) /\ Question' # Question)}
    /\ mislaid' = {d \in mislaid \cup lost : dispatch'[d] # Absent}

---------------------------------------------------------------------------
Init ==
    /\ order \in Orders
    /\ dispatch = [d \in Dispatches |-> Absent]
    /\ rows = {}
    /\ made = 0
    /\ call = [r \in Requests |-> Idle]
    /\ overtaken = {} /\ mislaid = {}

\* One step of a request that is not broken off.
Serve(r) ==
    \/ \E actor \in Actors, to \in OrderStatuses : BeginOrder(r, actor, to)
    \/ \E user \in Techs \cup {None}, t \in Techs : BeginAssign(r, user, t)
    \/ \E t \in Techs, s \in {"draft", "assigned"} : BeginCreate(r, t, s)
    \/ \E actor \in Actors, d \in Dispatches, to \in DispatchStatuses :
           BeginStatus(r, actor, d, to)
    \/ \E d \in Dispatches, t \in Techs : BeginReassign(r, d, t)
    \/ Look(r) \/ Check(r)
    \/ WriteOrder(r) \/ WriteAssign(r) \/ WriteDispatch(r)
    \/ \E d \in Dispatches : WriteCreate(r, d)
    \/ Follow(r) \/ List(r)
    \/ Get(r) \/ Guard(r) \/ Pick(r) \/ Put(r) \/ Fail(r)

Next ==
    \E r \in Requests :
        \/ Serve(r) /\ Remember(r, {})
        \/ Undo(r)  /\ Remember(r, Crossed(r))
        \/ Break(r) /\ Remember(r, {d \in {call[r].disp} : Owes(r)})

Spec == Init /\ [][Next]_vars

---------------------------------------------------------------------------
\* Every variable holds values of the kind the database and the code hold.
TypeOK ==
    /\ order \in Order
    /\ dispatch \in [Dispatches -> Dispatch]
    /\ rows \subseteq Row
    /\ call \in [Requests -> Call]
    /\ made \in Nat
    /\ overtaken \subseteq Requests /\ mislaid \subseteq Dispatches

Attended(d) == \E r \in Requests : call[r].disp = d

\* An active dispatch that no request is about is one the order was assigned
\* by: there is an assignment that names its technician and it.  A dispatch
\* whose assignment is refused or fails is deleted, or has its technician and
\* its status back (field-dispatch.service.ts, the compensations), unless that
\* was lost, or another request was about the dispatch when it was done.
ActiveDispatchAssigned ==
    \A d \in Dispatches \ mislaid :
        dispatch[d].status \in ActiveDispatch /\ ~Attended(d) =>
            \E w \in rows : w.dispatch = d /\ w.tech = dispatch[d].tech

Started == order.status \in ServiceStarted \/ SiteReached

\* The step is the write of a request that another one has overtaken since it
\* asked: the order, or a dispatch at the site, is not what it was.
OvertakenWrite == \E r \in overtaken : call'[r] # call[r]

\* When the service has started (the order is on site or beyond, or an active
\* dispatch of it is) the technician of the order is named again by whatever
\* is written: assertTechnicianChangeAllowed, by every path and through every
\* interleaving but one, a request that asked before the service started.
TechnicianNamed ==
    [][Started /\ Technician(order) # None =>
          \/ Technician(order) \in {order'.user, order'.operator}
          \/ OvertakenWrite]_vars

\* A completed, cancelled or rejected order is not assigned, moved or opened
\* again, by any path of the order or of its dispatches, but for a request
\* that asked before it was closed.
ClosedOrderKept ==
    [][order.status \in ClosedOrder => order' = order \/ OvertakenWrite]_vars

---------------------------------------------------------------------------
(* What comments of the code say, and the code does not do.                *)

\* work-order.service.ts:1830 "Nenhuma via troca o tecnico de uma OS com o
\* atendimento iniciado": once the service has started the technician stays.
TechnicianKept ==
    [][Started /\ Technician(order) # None =>
           Technician(order') = Technician(order)]_vars

\* work-order.service.ts:1874 "uma OS encerrada nao ganha tecnico novo".
ClosedGainsNobody ==
    [][order.status \in ClosedOrder =>
           Technician(order') = Technician(order)]_vars

\* field-dispatch.service.ts:434 "nao sobra despacho apontando um tecnico que
\* nao e o da OS": the pair is atomic for whoever calls.
NoDispatchLeft ==
    \A d \in Dispatches :
        dispatch[d].status \in ActiveDispatch /\ ~Attended(d) =>
            \E w \in rows : w.dispatch = d /\ w.tech = dispatch[d].tech
=============================================================================
