------------------------ MODULE FinancialSettlement ------------------------
(***************************************************************************)
(* Money: titles to be settled, the cash entries that settle them, the     *)
(* cheques that become entries when they clear, and the closing of a       *)
(* period (financial-titles, financial-entries, cheques and                *)
(* financial-period-closes of src/src/modules).                            *)
(*                                                                         *)
(* A unit of work is one transaction: it takes the lock of one period,     *)
(* shared, asks under it whether the period is closed, then locks rows,    *)
(* asks again what it had asked outside, and writes.  The close takes the  *)
(* same lock alone.  The rows a unit locks make the rest of it one step.   *)
(*                                                                         *)
(* Left out: accounts and currencies (fixed), payables (the mirror of      *)
(* receivables), the text of a row, and the database's own checks, so that *)
(* the properties rest on the service alone.                               *)
(***************************************************************************)
EXTENDS Integers, Sequences, FiniteSets, FiniteSetsExt, Functions

CONSTANTS
    Titles, Cheques,    \* ids the clients use (a bound)
    Requests,           \* units of work under way (a bound)
    Periods,            \* months (a bound)
    Today,              \* the month of the server's clock, which stands still (a bound)
    Amounts,            \* amounts of titles and cheques (a bound)
    Parts,              \* amounts of payments and of standalone entries (a bound)
    MaxOps,             \* units and reconciliations, the issue of a title apart (a bound)
    None

ASSUME BoundsAssumption == MaxOps \in Nat

ASSUME AmountsAssumption ==
    /\ Amounts \subseteq Nat \ {0} /\ Parts \subseteq Nat \ {0}
    /\ Periods \subseteq Nat \ {0} /\ Today \in Periods

ASSUME NoneAssumption == None \notin Titles

VARIABLES
    titles,         \* financial_titles
    entries,        \* financial_entries
    cheques,        \* cheques
    closes,         \* financial_period_closes: the snapshot of each closed month
    call,           \* the unit of each request
    closing,        \* the transaction of a close
    ops

rowVars == <<titles, entries, cheques>>
vars == <<rowVars, closes, call, closing, ops>>

Ids == 1 .. Len(entries)

TitleStatuses == {"absent", "open", "scheduled", "in_dispute", "partially_paid",
                  "paid", "cancelled"}
ChequeStatuses == {"absent", "registered", "deposited", "cleared", "bounced", "cancelled"}

\* FINANCIAL_TITLE_STATUS_TRANSITIONS
Transitions ==
    {<<"open", "scheduled">>, <<"open", "in_dispute">>, <<"open", "cancelled">>,
     <<"scheduled", "open">>, <<"scheduled", "in_dispute">>, <<"scheduled", "cancelled">>,
     <<"in_dispute", "open">>, <<"in_dispute", "cancelled">>}

Title == [status : TitleStatuses, amount : Nat, paid : Nat, period : Periods,
          deleted : BOOLEAN]

EntryRow == [period : Periods, dir : {"in", "out"}, amount : Nat, title : Titles \cup {None},
             of : Nat, check : BOOLEAN, reconciled : BOOLEAN, deleted : BOOLEAN]

Cheque == [status : ChequeStatuses, title : Titles \cup {None}, amount : Nat,
           cleared : Nat, bounced : Nat, deleted : BOOLEAN]

UnitRow == [pc : {"idle", "enter", "write"},
            op : {"none", "issue", "create", "delete", "reverse", "pay", "amount", "status",
                  "drop", "clear", "bounce"},
            id : Titles \cup Cheques \cup Nat \cup {None}, period : Periods, amount : Nat,
            to : TitleStatuses \cup {"none"}]

NoUnit == [pc |-> "idle", op |-> "none", id |-> None, period |-> Today, amount |-> 0,
           to |-> "none"]

Unit(op, id, period) == [pc |-> "enter", op |-> op, id |-> id, period |-> period,
                         amount |-> 0, to |-> "none"]

NoClose == [period |-> 0, rows |-> <<>>]

Open(p) == closes[p] = <<>>

Stored(t) == titles[t].status # "absent" /\ ~titles[t].deleted

---------------------------------------------------------------------------
(* The rows.                                                               *)

\* Mutant: the UPDATE does not ask for the balance.
PayableUnbounded(t, x) ==
    Stored(t) /\ titles[t].status \notin {"paid", "cancelled"}

\* guardPayable, and the WHERE of applyPaymentGuarded
Payable(t, x) ==
    /\ Stored(t)
    /\ titles[t].status \notin {"paid", "cancelled"}
    /\ titles[t].paid + x <= titles[t].amount

Paying(t, x) ==
    [titles EXCEPT ![t].paid = @ + x,
                   ![t].status = IF titles[t].paid + x >= titles[t].amount
                                 THEN "paid" ELSE "partially_paid"]

\* restorePaymentGuarded
Restorable(t, x) ==
    /\ Stored(t)
    /\ titles[t].status \in {"paid", "partially_paid"}
    /\ titles[t].paid >= x

Restoring(t, x) ==
    [titles EXCEPT ![t].paid = @ - x,
                   ![t].status = IF titles[t].paid <= x THEN "open" ELSE "partially_paid"]

\* check: the payment method; only a cheque that moves money posts it.
Entry(period, dir, amount, title, of, check) ==
    [period |-> period, dir |-> dir, amount |-> amount, title |-> title, of |-> of,
     check |-> check, reconciled |-> FALSE, deleted |-> FALSE]

Opposite(dir) == IF dir = "in" THEN "out" ELSE "in"

Live(i) == i \in Ids /\ ~entries[i].deleted

Reversals(i) == {j \in Ids : Live(j) /\ entries[j].of = i}

Pending(t) ==
    {c \in Cheques : /\ cheques[c].status \in {"registered", "deposited"}
                     /\ cheques[c].title = t /\ ~cheques[c].deleted}

OfCheque(i) ==
    \E c \in Cheques : ~cheques[c].deleted /\ i \in {cheques[c].cleared, cheques[c].bounced}

\* assertUndoAllowed, in the order and with the policies of each route
DeleteAllowed(i) ==
    entries[i].of = 0 /\ Reversals(i) = {} /\ ~OfCheque(i) /\ entries[i].title = None

ReverseAllowed(i) == entries[i].of = 0 /\ ~OfCheque(i)

\* The amounts of the live rows of a period.
TitlesOf(p) ==
    [t \in {n \in Titles : Stored(n) /\ titles[n].period = p} |-> titles[t].amount]

EntriesOf(p, dir) ==
    [i \in {j \in Ids : Live(j) /\ entries[j].period = p /\ entries[j].dir = dir}
        |-> entries[i].amount]

Aggregate(rows) == <<Cardinality(DOMAIN rows), SumFunction(rows)>>

\* computeMaterialSnapshot
Material(p) ==
    <<Aggregate(TitlesOf(p)), Aggregate(EntriesOf(p, "in")), Aggregate(EntriesOf(p, "out"))>>

---------------------------------------------------------------------------
(* A request reads outside any transaction, and gives up on what it reads. *)

Counted == ops < MaxOps /\ ops' = ops + 1

Begin(r, unit) ==
    /\ call[r].pc = "idle"
    /\ IF unit.op = "issue" THEN ops' = ops ELSE Counted
    /\ call' = [call EXCEPT ![r] = unit]
    /\ UNCHANGED <<rowVars, closes, closing>>

\* assertPeriodOpen of the services: it refuses early, and decides nothing.
Ask(r, unit) == Open(unit.period) /\ Begin(r, unit)

\* A title issued in a month, a standalone entry of a month.
BeginIssue(r, t, p, x) ==
    /\ titles[t].status = "absent" /\ \A q \in Requests : call[q].id # t
    /\ Ask(r, [Unit("issue", t, p) EXCEPT !.amount = x])

BeginCreate(r, p, x) == Ask(r, [Unit("create", None, p) EXCEPT !.amount = x])

BeginDelete(r, i) ==
    /\ Live(i) /\ ~entries[i].reconciled /\ DeleteAllowed(i)
    /\ Ask(r, Unit("delete", i, entries[i].period))

BeginReverse(r, i) ==
    /\ Live(i) /\ ~entries[i].reconciled /\ ReverseAllowed(i) /\ Reversals(i) = {}
    /\ Ask(r, Unit("reverse", i, Today))

\* payTitle: the month of the payment is the client's.
BeginPay(r, t, p, x) ==
    /\ Payable(t, x) /\ Pending(t) = {}
    /\ Ask(r, [Unit("pay", t, p) EXCEPT !.amount = x])

BeginAmount(r, t, x) ==
    /\ Stored(t) /\ x # titles[t].amount /\ Pending(t) = {}
    /\ Ask(r, [Unit("amount", t, titles[t].period) EXCEPT !.amount = x])

BeginStatus(r, t, to) ==
    /\ Stored(t) /\ <<titles[t].status, to>> \in Transitions
    /\ Ask(r, [Unit("status", t, titles[t].period) EXCEPT !.to = to])

BeginDrop(r, t) ==
    /\ Stored(t) /\ Pending(t) = {}
    /\ Ask(r, Unit("drop", t, titles[t].period))

BeginClear(r, c) ==
    /\ cheques[c].status = "deposited" /\ ~cheques[c].deleted
    /\ cheques[c].title # None => Payable(cheques[c].title, cheques[c].amount)
    /\ Begin(r, Unit("clear", c, Today))

BeginBounce(r, c) ==
    /\ cheques[c].status = "cleared" /\ ~cheques[c].deleted
    /\ Begin(r, Unit("bounce", c, Today))

---------------------------------------------------------------------------
(* Its unit of work.                                                       *)

\* Mutant: the lock of the period is not waited for.
EnterBlind(unit) == TRUE

Granted(unit) == closing.period # unit.period

\* assertPeriodOpenShared
Enter(r) ==
    /\ call[r].pc = "enter" /\ Granted(call[r])
    /\ call' = IF Open(call[r].period) THEN [call EXCEPT ![r].pc = "write"]
                                       ELSE [call EXCEPT ![r] = NoUnit]
    /\ UNCHANGED <<rowVars, closes, closing, ops>>

\* The status is the client's, one of these two.
Issue(u) ==
    /\ \E status \in {"open", "scheduled"} :
          titles' = [titles EXCEPT ![u.id] = [status |-> status, amount |-> u.amount,
                                    paid |-> 0, period |-> u.period, deleted |-> FALSE]]
    /\ UNCHANGED <<entries, cheques>>

Create(u) ==
    /\ entries' = Append(entries, Entry(u.period, "in", u.amount, None, 0, FALSE))
    /\ UNCHANGED <<titles, cheques>>

\* Mutant: the entry is asked about outside the unit only.
DeleteUnasked(u) ==
    /\ entries' = [entries EXCEPT ![u.id].deleted = TRUE]
    /\ UNCHANGED <<titles, cheques>>

Delete(u) ==
    /\ entries' = IF Live(u.id) /\ ~entries[u.id].reconciled /\ DeleteAllowed(u.id)
                  THEN [entries EXCEPT ![u.id].deleted = TRUE] ELSE entries
    /\ UNCHANGED <<titles, cheques>>

Counter(i, period) ==
    Append(entries, Entry(period, Opposite(entries[i].dir), entries[i].amount, None, i,
                          entries[i].check))

\* Mutant: the counter-entry does not give the payment back.
ReverseUnrestored(u) ==
    /\ entries' = IF Live(u.id) /\ ~entries[u.id].reconciled /\ Reversals(u.id) = {}
                  THEN Counter(u.id, u.period) ELSE entries
    /\ UNCHANGED <<titles, cheques>>

Reverse(u) ==
    LET t == entries[u.id].title
        x == entries[u.id].amount
    IN  /\ IF /\ Live(u.id) /\ ~entries[u.id].reconciled /\ Reversals(u.id) = {}
              /\ t # None => Restorable(t, x)
           THEN /\ entries' = Counter(u.id, u.period)
                /\ titles' = IF t = None THEN titles ELSE Restoring(t, x)
           ELSE UNCHANGED <<entries, titles>>
        /\ UNCHANGED cheques

Pay(u) ==
    /\ IF Pending(u.id) = {} /\ Payable(u.id, u.amount)
       THEN /\ entries' = Append(entries, Entry(u.period, "in", u.amount, u.id, 0, FALSE))
            /\ titles' = Paying(u.id, u.amount)
       ELSE UNCHANGED <<entries, titles>>
    /\ UNCHANGED cheques

\* PATCH of the amount: the status follows what is paid of it.
ChangeAmount(u) ==
    LET title == titles[u.id]
    IN  /\ titles' =
             IF /\ Stored(u.id) /\ title.paid <= u.amount
                /\ u.amount # title.amount => Pending(u.id) = {}
             THEN [titles EXCEPT ![u.id].amount = u.amount,
                      ![u.id].status = IF title.paid = 0 THEN @
                                       ELSE IF title.paid = u.amount THEN "paid"
                                       ELSE "partially_paid"]
             ELSE titles
        /\ UNCHANGED <<entries, cheques>>

\* changeStatus writes where the status is still the one it read, and reads
\* again when it is not: a transition of the status that is in the row.
ChangeStatus(u) ==
    /\ titles' = IF Stored(u.id) /\ <<titles[u.id].status, u.to>> \in Transitions
                 THEN [titles EXCEPT ![u.id].status = u.to] ELSE titles
    /\ UNCHANGED <<entries, cheques>>

Drop(u) ==
    /\ titles' = IF Stored(u.id) /\ Pending(u.id) = {} /\ titles[u.id].paid = 0
                 THEN [titles EXCEPT ![u.id].deleted = TRUE] ELSE titles
    /\ UNCHANGED <<entries, cheques>>

\* moveMoneyInUnit: the cheque as the transition leaves it, the entry, the
\* title, the link; what one of them refuses none of them does.
Clear(u) ==
    LET cheque == cheques[u.id]
        t == cheque.title
    IN  IF cheque.status = "deposited" /\ (t # None => Payable(t, cheque.amount))
        THEN /\ entries' = Append(entries, Entry(u.period, "in", cheque.amount, t, 0, TRUE))
             /\ titles' = IF t = None THEN titles ELSE Paying(t, cheque.amount)
             /\ cheques' = [cheques EXCEPT ![u.id].status = "cleared",
                                           ![u.id].cleared = Len(entries) + 1]
        ELSE UNCHANGED rowVars

Bounce(u) ==
    LET cheque == cheques[u.id]
        t == cheque.title
    IN  IF cheque.status = "cleared" /\ (t # None => Restorable(t, cheque.amount))
        THEN /\ entries' = Append(entries, Entry(u.period, "out", cheque.amount, None, 0, TRUE))
             /\ titles' = IF t = None THEN titles ELSE Restoring(t, cheque.amount)
             /\ cheques' = [cheques EXCEPT ![u.id].status = "bounced",
                                           ![u.id].bounced = Len(entries) + 1]
        ELSE UNCHANGED rowVars

\* Under the locks of its rows, to the commit; what is refused writes nothing.
Write(r) ==
    LET u == call[r]
    IN  /\ u.pc = "write"
        /\ \/ u.op = "issue"   /\ Issue(u)
           \/ u.op = "create"  /\ Create(u)
           \/ u.op = "delete"  /\ Delete(u)
           \/ u.op = "reverse" /\ Reverse(u)
           \/ u.op = "pay"     /\ Pay(u)
           \/ u.op = "amount"  /\ ChangeAmount(u)
           \/ u.op = "status"  /\ ChangeStatus(u)
           \/ u.op = "drop"    /\ Drop(u)
           \/ u.op = "clear"   /\ Clear(u)
           \/ u.op = "bounce"  /\ Bounce(u)
        /\ call' = [call EXCEPT ![r] = NoUnit]
        /\ UNCHANGED <<closes, closing, ops>>

\* A unit fails at any point before its commit.
RollBack(r) ==
    /\ call[r].pc # "idle"
    /\ call' = [call EXCEPT ![r] = NoUnit]
    /\ UNCHANGED <<rowVars, closes, closing, ops>>

---------------------------------------------------------------------------
(* Writes that look again, in their WHERE, at all that was read.           *)

\* The bank's statement arrives after the month is closed: no period is asked.
Reconcile(i) ==
    /\ Live(i)
    /\ Counted
    /\ entries' = [entries EXCEPT ![i].reconciled = ~@]
    /\ UNCHANGED <<titles, cheques, closes, call, closing>>

\* A cheque is linked for the exact balance of a title, under its lock.
Linkable(t, x) == t # None => Payable(t, x) /\ titles[t].amount - titles[t].paid = x

SetCheque(c, cheque) ==
    /\ ~cheques[c].deleted
    /\ cheques' = [cheques EXCEPT ![c] = cheque]
    /\ UNCHANGED <<titles, entries, closes, call, closing, ops>>

Register(c, t, x) ==
    /\ cheques[c].status = "absent" /\ Linkable(t, x)
    /\ SetCheque(c, [cheques[c] EXCEPT !.status = "registered", !.title = t, !.amount = x])

Link(c, t) ==
    /\ cheques[c].status = "registered" /\ cheques[c].title = None
    /\ Linkable(t, cheques[c].amount)
    /\ SetCheque(c, [cheques[c] EXCEPT !.title = t])

Unlink(c) ==
    /\ cheques[c].status \in {"registered", "deposited"} /\ cheques[c].title # None
    /\ SetCheque(c, [cheques[c] EXCEPT !.title = None])

Deposit(c) ==
    /\ cheques[c].status = "registered"
    /\ SetCheque(c, [cheques[c] EXCEPT !.status = "deposited"])

\* Cancelled or deleted.
Withdraw(c) ==
    /\ cheques[c].status = "registered" /\ cheques[c].title = None
    /\ \/ SetCheque(c, [cheques[c] EXCEPT !.status = "cancelled"])
       \/ SetCheque(c, [cheques[c] EXCEPT !.deleted = TRUE])

\* A cheque that never cleared moves no money when it bounces.
ReturnUnpaid(c) ==
    /\ cheques[c].status = "deposited"
    /\ SetCheque(c, [cheques[c] EXCEPT !.status = "bounced"])

---------------------------------------------------------------------------
(* The close of a period.                                                  *)

Alone(p) ==
    closing.period # p /\ \A r \in Requests : ~(call[r].pc = "write" /\ call[r].period = p)

\* The lock, then the rows; a title in dispute needs force, which the client has.
ReadForClose(p) ==
    /\ closing = NoClose /\ Alone(p) /\ Open(p)
    /\ closing' = [period |-> p, rows |-> Material(p)]
    /\ UNCHANGED <<rowVars, closes, call, ops>>

Close ==
    /\ closing # NoClose
    /\ closes' = [closes EXCEPT ![closing.period] = closing.rows]
    /\ closing' = NoClose
    /\ UNCHANGED <<rowVars, call, ops>>

\* The record keeps the snapshot of a month that is open again as its history.
Reopen(p) ==
    /\ Alone(p) /\ ~Open(p)
    /\ closes' = [closes EXCEPT ![p] = <<>>]
    /\ UNCHANGED <<rowVars, call, closing, ops>>

---------------------------------------------------------------------------
Init ==
    /\ titles = [t \in Titles |-> [status |-> "absent", amount |-> 0, paid |-> 0,
                                   period |-> Today, deleted |-> FALSE]]
    /\ entries = <<>>
    /\ cheques = [c \in Cheques |-> [status |-> "absent", title |-> None, amount |-> 0,
                                     cleared |-> 0, bounced |-> 0, deleted |-> FALSE]]
    /\ closes = [p \in Periods |-> <<>>]
    /\ call = [r \in Requests |-> NoUnit]
    /\ closing = NoClose
    /\ ops = 0

BeginTitle(r, t) ==
    \/ \E p \in Periods, x \in Amounts : BeginIssue(r, t, p, x)
    \/ \E p \in Periods, x \in Parts : BeginPay(r, t, p, x)
    \/ \E x \in Amounts : BeginAmount(r, t, x)
    \/ \E to \in TitleStatuses : BeginStatus(r, t, to)
    \/ BeginDrop(r, t)

BeginEntry(r) ==
    \/ \E p \in Periods, x \in Parts : BeginCreate(r, p, x)
    \/ \E i \in Ids : BeginDelete(r, i) \/ BeginReverse(r, i)

OnCheque(c) ==
    \/ \E t \in Titles \cup {None}, x \in Amounts : Register(c, t, x)
    \/ \E t \in Titles : Link(c, t)
    \/ Unlink(c) \/ Deposit(c) \/ Withdraw(c) \/ ReturnUnpaid(c)

Next ==
    \/ \E r \in Requests :
          \/ \E t \in Titles : BeginTitle(r, t)
          \/ BeginEntry(r)
          \/ \E c \in Cheques : BeginClear(r, c) \/ BeginBounce(r, c)
          \/ Enter(r) \/ Write(r) \/ RollBack(r)
    \/ \E i \in Ids : Reconcile(i)
    \/ \E c \in Cheques : OnCheque(c)
    \/ \E p \in Periods : ReadForClose(p) \/ Reopen(p)
    \/ Close

Spec == Init /\ [][Next]_vars

---------------------------------------------------------------------------
\* Every variable holds values of its table's kind; no title is overpaid, and a
\* row refers to rows that were there before it.
TypeOK ==
    /\ titles \in [Titles -> Title] /\ \A t \in Titles : titles[t].paid <= titles[t].amount
    /\ entries \in Seq(EntryRow) /\ \A i \in Ids : entries[i].of < i
    /\ cheques \in [Cheques -> Cheque]
    /\ \A c \in Cheques : {cheques[c].cleared, cheques[c].bounced} \subseteq 0 .. Len(entries)
    /\ DOMAIN closes = Periods
    /\ call \in [Requests -> UnitRow]
    /\ closing.period \in Periods \cup {0}
    /\ ops \in 0 .. MaxOps

\* The snapshot of a closed period is what its rows give at any later time
\* (financial-period-close.snapshot.ts, "continua batendo mesmo apos pagamento
\* cross-mes/reconcile"): no unit that has found the period open commits into
\* it once the close has read the rows.
SnapshotAgrees ==
    \A p \in Periods : ~Open(p) => closes[p] = Material(p)

\* The entries that settle a title: not undone by a reversal or a bounce.
Settling(t) ==
    {i \in Ids : /\ Live(i) /\ entries[i].title = t /\ Reversals(i) = {}
                 /\ \A c \in Cheques : cheques[c].cleared = i => cheques[c].status # "bounced"}

\* What a title says is paid is what its entries add up to, and its status says
\* as much, whichever payments, reversals, cheques and edits of the amount race
\* (Omega6R-DIN-001 and DIN-002: the entry and the title commit together).
PaidMatchesEntries ==
    \A t \in Titles :
        /\ titles[t].paid = MapThenSumSet(LAMBDA i : entries[i].amount, Settling(t))
        /\ (titles[t].paid > 0) =
               (titles[t].status = IF titles[t].paid = titles[t].amount
                                   THEN "paid" ELSE "partially_paid")

\* Money is undone once: a counter-entry stands beside one live original and no
\* other; and the entries of cheques are those of each cheque's last clearing
\* and bounce, which neither a delete nor a reverse takes away
\* (financial-entry-undo-owners.ts, the machine of the cheque undoes it).
UndoneOnce ==
    /\ \A i \in Ids : Live(i) /\ entries[i].of # 0 =>
           Live(entries[i].of) /\ Reversals(entries[i].of) = {i}
    /\ {i \in Ids : Live(i) /\ entries[i].check} =
           (UNION {{cheques[c].cleared, cheques[c].bounced} : c \in Cheques}) \ {0}
    /\ \A c \in Cheques : /\ cheques[c].status = "cleared" => cheques[c].cleared # 0
                          /\ cheques[c].cleared # 0 =>
                                 (cheques[c].status = "cleared") = (cheques[c].bounced = 0)

\* While a cheque is pending on a title, the balance of the title changes only by
\* the clearing of a cheque (financial-title.service.ts, "o saldo do titulo so muda
\* pela compensacao do cheque ou pelo desvinculo").  Refuted: an earlier partial
\* payment can be reversed.
PendingBalanceKept ==
    [][\A t \in Titles : Pending(t) # {} /\ titles'[t].paid # titles[t].paid
          => \E c \in Pending(t) : cheques'[c].status = "cleared"]_vars
=============================================================================
