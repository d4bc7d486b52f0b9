# Verification of the impound custody core of ERP Techsolutios

TLA+ modules, TLC configurations and TLAPS proofs about the part of the
repository with the most protocol in it: the custody of impounded vehicles
(release, storage charges, auction, yard, hash chain and legal deadlines), the
job queue that drives its recurring scans, the dispatch of field crews to work
orders, the offline queue of the mobile application with the server it
replays to, and the money: titles, cash entries, cheques and closed periods. Paths below are relative to the root of the repository;
`src/modules/...` is the back end.

- [1 The system](#1-the-system)
- [2 Modules and code](#2-modules-and-code)
- [3 Model checking: runs, bounds, fairness](#3-model-checking)
- [4 What the code does not do](#4-what-the-code-does-not-do)
- [5 Proofs](#5-proofs)
- [6 Not modelled](#6-not-modelled)
- [7 Plan](#7-plan)

## 1 The system

A multi-tenant ERP: an Express/Prisma back end over PostgreSQL (row-level
security per tenant) and Redis, a React front end, two public portals, and a
Flutter application with an offline queue. Most modules are CRUD with a status
column. The custody family is different: a vehicle is received, kept, charged
by the day, released or auctioned, and clerks, an authority, hourly scans and
an administrator act on the same rows. All writers follow one pattern, which
decides what can go wrong:

1. a *service* method reads what it needs, in one or several transactions of
   their own (`withTenantRls`, READ COMMITTED, no locks);
2. a *pure guard* (`impound.transitions.ts`, `charge.accrual.ts`,
   `auction.eligibility.ts`) judges what was read;
3. one *repository* method commits: it locks the process row (`SELECT ... FOR
   UPDATE`), checks again **some** of what was read, writes, and appends a
   hash-chained custody event.

Between 1 and 3 anything can happen. Every custody property is about the
questions step 3 asks again and the ones it does not.

Work orders, field dispatches and the mobile queue are built otherwise: no lock and
no compare-and-set. A service reads, judges and writes in separate statements; what
spans two repositories is written one after the other and undone when the second
fails; the device loads and saves its whole queue; the server's receipts are
in memory. Their properties are about what survives of that.

The financial modules are the third kind: a service reads outside any transaction, then
one unit of work takes the advisory lock of a month (shared; the close takes it alone),
asks whether the month is closed, locks its rows, and asks again under those locks.
Their properties are about what a month's close, a settlement and an undo leave of one another.

| component (`src/modules/`) | state | operations | talks to | what is hard | what makes it correct |
|---|---|---|---|---|---|
| `impound` | process row: status, `entered_at` (t0), `frozen_at` (T_stop), yard, chain head; inspection | open, transition, edit/complete inspection, assign/vacate/move spot | yard (same transaction), everyone's status | guard read before the lock; four edges stamp T_stop, the others must keep it | only enabled edges; T_stop set exactly when the charges end; custody only after intake (I3) |
| `release` | dossiers (kind, status, act, recipient), checklist | start, recipient, check, approve, consume, repair exit and return | charging (read), impound row, yard spot | two starts at once; debts that change between gate and commit; lock order | one open dossier, matching the status; released only with debts settled (I5) |
| `charging` | charges per process (DAILY by period, REMOVAL, ADDITIONAL, ADJUSTMENT), settled marks | hourly scan, manual charge, adjustment, settlement | tariffs, jurisdiction profile, job queue | overlapping scans; a loop that stops half way; a scan that races a release | periods 1..k, never early, none lost, total stable after T_stop |
| `auction` | edicts and attempts per round, status | eligibility, edict, appraisal, attempt, preparation, lot, sale, default, close, reclaim, recycle | impound row, settlement | long legal sequences: default, re-lot, resale, reclaim | one lot, one effective sale, reserve met, outcomes append-only |
| `yard` | spots (status, occupant) | allocate, vacate, move, edit spot | impound and release transactions | row locks in several orders, a unique index as a lock, an unlocked read | I1: one spot per vehicle, one vehicle per spot; requests end |
| `jurisdiction` | counting model, ceiling | edit | charging | nothing ties an edit to open processes | see charging |
| `infra/jobs` | Redis: envelopes, pending list, delayed set, dead letters | enqueue, dequeue, promote, complete, fail | every recurring scan, domain events | ticks overlap, a command fails between two others, self-enqueueing jobs | one holder per job, bounded runs, every job ends, the recurrence lives |
| `impound` chain, outbox, anchors | events, head, audit log, outbox | append in each commit, verify | all of the above | several stores written together and read one after another | verification raises no false alarm; stores agree |
| `impound` reconciliation | completed removals without a process, or with a half-open one | sweep, atomic opening, cure, creation by hand | work orders, job queue | overlapping sweeps, a clerk who opens the same removal, failures and crashes | every completed removal in custody once |
| `impound` legal notifications | notification per process and kind | hourly scan, issue, waive | chain, job queue | context read before the lock; page of candidates | every deadline marked; evidence never taken back |
| `work-orders` | status, technician (user and operator id), assignments | status, cancel, assign, assign from a dispatch | field-dispatch, mobile | checks in one statement, writes in another | once the service has started, and once the order is closed, only a request that asked before may still write |
| `field-dispatch` | dispatches of an order: technician, status | create, activate, move on, reassign, close | work-orders (another transaction) | two writes without a common transaction, compensation that can fail too | an active dispatch has its assignment, unless its undoing was lost |
| mobile app | table of actions, order in memory and in the local database | record, replay, map ids, resolve conflicts | the server's batch endpoint | whole-table saves, lost replies, timeouts, crashes | nothing applied twice or falsely shown as applied |
| `mobile` (server) | receipts in memory, work orders | batch of actions | work-orders | a retry that overtakes its first request, restarts | one order per recorded creation |
| `financial-titles`, `-entries`, `cheques`, `-period-closes` | titles (amount, paid, status), cash entries, cheques and the entries they posted, snapshot per closed month | issue, pay, amend, drop; create, delete, reverse, reconcile; register, link, deposit, clear, bounce; close, reopen | each other (same transaction) | two locks (month, row), several ways to undo one entry, late questions | a closed month's snapshot stays true; titles say what their entries add up to; undone once |
| `auction` settlement, scheduled notifications, cycle count | see section 7 | | | | planned |

`PROJECT.json` lists every component of the repository with its status, and
every hazard with its line and the properties that would catch it.

## 2 Modules and code

| module | models | grain |
|---|---|---|
| `ImpoundLifecycle` | abstract: the enabled edges of `impound.transitions.ts` and which of them stamp T_stop | one step per edge |
| `CustodyRelease` | a process from reception to release: generic transitions, release dossiers, ledger, scans, profile edits, clock | handler = open (reads) + optional reads + commit |
| `AuctionSale` | the auction of one vehicle | one step per endpoint |
| `Parking` | abstract: invariant I1 of the yard | one step per parking, leaving, moving |
| `YardOccupancy` | spots, the row and index locks of every request, the deadlock detector | one step per lock a transaction waits for |
| `JobQueue` | queue, worker ticks, recurring scans, faults | one step per Redis command that others can observe |
| `CustodyTrail` | the removal that opens a process, its hash chain, anchors and outbox, the deadlines | one step per transaction, the reads of a sweep and a verification apart |
| `FieldDispatch` | one work order and its dispatches | one step per database call |
| `MobileSync` | an order recorded offline, the replay, the server's batch endpoint | device: one step per load and save of the queue; server: one per await |
| `FinancialSettlement` | titles, entries, cheques, closes of a month | request: first reads, period lock, locked rest; close: read and write |
| `MC...` | constants for TLC | |
| `CustodyReleaseProofs`, `AuctionSaleProofs`, `YardOccupancyProofs`, `JobQueueProofs`, `FinancialSettlementProofs`, `CustodyTrailProofs`, `FieldDispatchProofs`, `MobileSyncProofs` | theorems about the module of that name | |

How the grain was chosen. A repository method is one transaction, and all but the edits of a
dossier, its checklist and the intake start with the lock of the process row, so in `CustodyRelease` it
is one step and the lock needs no variable; what interleaves is the service's reads with other
requests' commits. The exception is the release itself: it counts the open items of a checklist whose
writer (`setRequirementCheck`) waits for none of its locks, so its questions (`ConsumeAsk`) and its writes
(`ConsumeCommit`) are two steps, between which everything goes on that does not wait for the process
or the release row (`ProcessFree`, `DossierFree`). A read whose value the commit checks again is merged with
the read before it. In `AuctionSale` every question of the reads is asked again
under the lock, so an endpoint is one step. `YardOccupancy` is the opposite: its
transactions wait for several rows, so each wait is a step and the writes appear
at the commit.

**CustodyRelease.** `status`, `enteredAt`, `frozenAt` are the process row,
`intakeComplete` is what `isIntakeComplete` answers, `dossier` the release rows with
their unmet requirements, `daily`/`settled`/`reconciled` the DAILY charges (by
`period_seq`), the settled ones, and the ones whose adjustments net to zero;
`extrasOwed` stands for any unsettled REMOVAL or ADDITIONAL. `request[k]` is what the
handler of clerk `k` remembers between its transactions, `sweep[s]` what a scan does.
`...Open` is a handler's first reads and guards, `ReadContext`/`ReadLines` the two
transactions of `getReleaseChargeState`, `...Commit` the repository method, and
`...Recheck` what it asks again under the lock; `Conflict` is the 409. Instants
are days: two readings of the clock are 24 hours apart or equal.

**AuctionSale.** `edict` and `attempt` by round; a round without a row is `NoEdict` or
`NoAttempt`. Amounts are small numbers; 0 is "absent or not positive". `JudicialHold` is the generic
endpoint; `Reclaim` asks only for an edge to custody and so lifts a hold as well as a lot.

**YardOccupancy.** `spotStatus`/`occupant` are `yard_spots`, `entryLock` the entry of the
partial unique index on `current_process_id` that a second insert waits for,
`Holder(c)` the wait-for edge PostgreSQL computes, `Abort` its victim.

**JobQueue.** `data`, `pending`, `delayed`, `dead` are the four Redis keys; `tick` what each
tick of `setInterval` is about. A command may fail applied or not (`redis.client.ts` gives
up after five seconds).

**CustodyTrail.** `procs`, `chain`, `anchors`, `outbox`, `notes` are the tables, one record or
sequence per process; `Append1` is `insertEventTx` with everything one commit writes,
`Create` the two creations. A hash is the sequence of what it covers, so two
contents never collide. `sweep`, `notifier`, `clerk`, `verifier` remember what each has read;
`Pages` is `ORDER BY ... LIMIT`. `Complete` is the order of a removal that becomes `completed`
(`changeStatus` of `work-orders`), whatever led to it. `verify` is three reads, all of the snapshot that
REPEATABLE READ took with the first.

**FieldDispatch.** `order` is the row of `work_orders`, `dispatch` those of
`field_dispatches`, `rows` the assignments that name a dispatch, `call[r]` what the
request `r` has read and where it is. `Begin...` is what a handler reads and checks first, `Admit` what
`assertTechnicianChangeAllowed` concludes from the order it is given and `Check`/`Guard` its question about the
dispatches (asked once before the dispatch is written and once before the order is), `Write...` the first
write, `Get` to `Put` the assignment from the dispatch, `Fail` an error in it that the handler catches,
`Undo` the compensation, `Break` an error anywhere else, the compensation included, or the end of the
process, `Follow`/`List` the order handed to the dispatch that remains. Two variables are history that no
handler reads: `overtaken` holds the requests that have asked and wait to write, while another changed what they
asked about; `mislaid` the dispatches whose undoing was broken off, or crossed by another request about them.

**MobileSync.** `table` is `sync_actions`, `user` and `replay` what the screen and
`replayTenant` are about, `replay.todo` the awaits it still has to do. `known` is the
`server_id` in the memory of the app, `stored` the one in its database. `server[s]` is a request:
`live` while the device waits for it. `progress` holds the orders created, each with the
last status it was given. `count` separates late requests and restarts, which the
properties make allowance for, from all other faults, for which they make none.

**FinancialSettlement.** `titles`, `entries`, `cheques`, `closes` are the tables; `entries` in the order of
insertion, `of` the entry a counter-entry undoes, `cleared`/`bounced` the entries a cheque
posted. `call[r]` is the unit of work of request `r`, `closing` the transaction of a close with the
rows it has read. `Begin...` is what the service reads and refuses before the unit, `Enter` the shared
lock of the month with the question under it (`assertPeriodOpenShared`), `Write` the rest, under the
locks of its rows, to the commit; `Alone` is the exclusive lock of the close and the
reopening. A write whose WHERE repeats all that was read (`Reconcile`, the transitions of
a cheque that move no money) is one step. `changeStatus` writes where the status is the one
read and reads again otherwise; the retries are one step. The close has `force`, so a
title in dispute does not hold it up. Amounts are small numbers, the clock stands in one month,
titles are receivables; the database's own checks are left out, so the properties rest on the service.

Two concrete modules implement one abstract one: `CustodyRelease` and `AuctionSale`
drive disjoint parts of the table of `ImpoundLifecycle` (property `Lifecycle` of
each, with `stopped <- frozenAt # NoDay`). `AuctionSale` starts in custody, so its
`Lifecycle` is the step part. `YardOccupancy` implements `Parking` (`OccupancyI1`).
`CustodyTrail` takes its edges, and the ones that stop the rite, from `ImpoundLifecycle`.

## 3 Model checking

`tlc -config <run>.cfg <module>` for every run. Deadlock checking is off where the
clock, the rounds or the ids run out, which is a bound and no state of the code;
it is on in `Yard`, where somebody can always ask.

| run | question | bounds | distinct states |
|---|---|---|---|
| `Custody` | do dossiers, status and T_stop agree, and are debts, authority and recipient in order when a release commits, whatever two handlers interleave? | 2 clerks, 2 dossiers, 1 requirement, clock 0..1, all endpoints, no scan | 194 242 |
| `Ledger` | are dailies contiguous and never early, and does an elapsed day get charged? | 1 clerk, 2 scans, clock 0..2, 2 profiles (an edit changes the model and lowers the ceiling) | 132 988 |
| `Auction` | one lot, one effective sale, reserve met, outcomes kept | 3 rounds, 2 classifications, 2 amounts | 1 877 260 |
| `Yard` | does the locking implement I1, and is every request answered? | 2 clerks, 2 vehicles, 2 spots in 2 yards | 291 972 |
| `Jobs` | one holder, bounded runs under a fault | 2 ticks, 4 scan ids, 1 event, 2 attempts, 1 error, 1 fault | 1 406 048 |
| `JobsClean` | recurrence and termination without faults | 1 tick, 4 scan ids, 1 event, 2 attempts, 2 errors | 19 371 |
| `Dispatch` | is every dispatch in force assigned, and who can still write once the service has started or the order is closed? | 2 requests at a time, 4 in all, any body, 2 technicians, 2 dispatches, order open or on its way; any call may fail, the compensation too, and the process may die at any point | 750 516 |
| `Mobile` | is nothing applied twice, or shown as applied and is not? | creation and 2 statuses, 2 tries, 2 requests at the server, 2 faults of any kind | 3 719 758 |
| `Trail` | does a removal open once, are its deadlines marked, does the chain verify? | 1 removal, 1 sweep, 1 notifier, 1 clerk, clock 1..3, 3 requests, 1 fault | 281 339 |
| `Financial` | does a closed month's snapshot stay true, does a title say what its entries add up to, is money undone once? | 1 title, 1 cheque, 2 requests, 2 months, 2 amounts, 3 operations | 1 271 828 |

Two more runs, `LateDaily` and `Checklist`, end in a violation; section 4.

Why these bounds are enough to make the interesting cases happen. A race here is
between a handler's read and another's commit: two requests show all of them that are
pairwise, and a third only repeats the second's part. Two dossiers are needed for
"a second release", a third adds a completed one. A scan computes its periods from
one clock reading and writes them later: clock 0..2 gives two periods, a stop in mid-loop,
a stale context, and dailies beyond a lowered ceiling. Three rounds give sale, default, resale and a
deserted round on the side. In the yard two spots and two vehicles give every cycle of length two
(a move needs both spots); the exit to repair stands for the final release, which takes the
same locks in the same order and only never comes back. In `Jobs` a scan and the successor it enqueues,
its retry and the first scan of a reboot need four ids; `JobsClean` has errors enough for the event to end in the
dead letters, and one tick, because the overlap of two is in `Jobs` and the theorem `RecurrenceLives` is about any
number. In `Dispatch` two technicians are the one who leaves and the one who comes, two dispatches one that closes and
one that remains; of four requests two build up a dispatch at the site or a closed order while two race. In `Mobile`
two statuses give an update before and after the id is mapped, two slots a retry that
overtakes its first request, two faults a loss after a loss, a late request and then a restart.
In `Trail` the page sizes are one and there is one process, so that the page holds every running
process, as it does for a tenant of up to 500; section 4 says what happens beyond. One
fault falls into any transaction of the sweep, the notifier or the
verification. In `Financial` the three operations are those that post or undo money or touch a title (its issue
and the transitions of a cheque are free): pay in part, reverse and pay again; clear, bounce and a
late payment; create, reverse and delete. Two months are one that is closed
while a payment of the title it holds goes to the other; a close reads and writes in two steps, so
that a unit that entered before it would show. `MaxErrors` and `MaxFaults`
bound how often something fails; each bound is a constant with a comment.
`SYMMETRY` is used in runs without liveness only.

Fairness, and why the code gives it.

- `CustodyRelease!FairSpec`: the scan re-enqueues itself whatever became of it
  (`charge.jobs.ts`, `finally`), so `SweepList` is weakly fair; a scan may stop half way
  (`SweepStop`: no tariff, an error, a restart), and the next begins again, so the three
  later steps are strongly fair: a configuration that never lets a scan get through is a
  tariff that is never published, and then nothing is charged by design. Clerks, clock
  and administrator are not fair.
- `YardOccupancy!FairSpec`: PostgreSQL hands a row lock to its waiters in the order
  of arrival and its detector aborts one transaction of a cycle; a waiting transaction
  whose step is possible again and again gets it. Nobody has to ask.
- `CustodyTrail!FairSpec`: both sweeps are jobs that enqueue themselves in `finally`, so each is begun
  again and goes on (weak fairness of the whole sweep); clerks, crews, faults and crashes are not fair.
- `JobQueue!FairSpec`: the interval keeps firing, a tick under way goes on, a delay
  passes. Boots, events, errors and faults are not fair.

What the passing runs show, in short: releases, exits, candidacies and recyclings that race
each other are serialised by the re-checks under the lock; the contiguity of the dailies, on
which the loop relies to skip everything up to the greatest period, survives overlapping scans;
the release finds debts, authority and recipient in order at the instant of its commit, though not the
checklist (section 4); default, re-lot and resale keep one effective
sale; the unique index and the CHECK of `yard_spots` save the unlocked `updateSpot` and
double parking; `ZREM` decides between overlapping ticks, and an envelope written
again after a failed `DEL` is bounded by `maxAttempts`; the partial unique index and the re-read of the status
open every removal once, whoever else opens it; the snapshot of the verification is what keeps an append from looking like
tampering; the compensation of a dispatch restores technician and status together, wherever it is reached; the lock of the
technician holds on every path but for a request that asked too early; the receipts bound the
orders of a lost reply to one; the shared and the exclusive lock of a month keep units out of a month whose
rows the close has read, and the questions under the row locks make one undo of two that race.

Every property of a passing run has a mutant in `PROJECT.json`: an operator
written before the one it replaces (comment "Mutant: ..."), with a plausible mistake, under
which TLC finds that property violated.

## 4 What the code does not do

Promises of comments that TLC refutes in runs of their own:

| run | promise | what happens |
|---|---|---|
| `LateDaily` | `impound.transitions.ts:523` "total estável" | a scan reads its context, a release starts and stamps T_stop, the scan inserts its daily: `accrueDailyCharge` checks under the lock only that the period is absent |
| `Checklist` | `release-prisma.repository.ts:215` "RE-VERIFICAÇÃO ATÔMICA do gate I5 sob o lock (fecha TOCTOU)" | a release locks the process and its own row and counts no open item; an item is unchecked, which waits for neither lock; the release commits and is `COMPLETED` with the item open |

More promises are stated in the modules as definitions, were refuted by TLC as well, and
have no run of their own; put the definition alone into the named cfg to see the trace.

| definition | cfg | trace |
|---|---|---|
| `NoDayIsSkipped` | `Ledger.cfg` | `charge.accrual.service.ts:7` "worker caído não PULA diária": a day elapses, a release starts before the scan; the process is no candidate any more and nothing charges the day (the closing "pela transição que congela" is not in the code) |
| `IntakeBeforeCustody` | `Custody.cfg` | `impound.transitions.ts:217` I3: the inspection is emptied after `resolveInspectionComplete` read it and before `applyTransition` commits |
| `ReclaimedNeverStopped` | `Auction.cfg` | `auction-prisma.repository.ts:569` "nunca congelou": sale, default, reclaim: the vehicle is in custody with T_stop set, and is never charged again |
| `NoDeadlock` | `Yard.cfg` | `impound-prisma.repository.ts:650` "anti-deadlock": an exit holds the process and waits for the spot, a spot request the reverse; the detector aborts one (and `Answered` shows that both requests end) |
| `ReleasedReconciled` | `LateDaily.cfg` with two clerks and `Calls <- ReleaseCalls` | `release-prisma.repository.ts:246` "anti-TOCTOU": a daily accrues after the gate listed the over-accrued ones and is settled before the commit, which reconciles those of the list; same root as `LateDaily` |
| `ClosedChecklistKept` | `Custody.cfg` | a requirement is unchecked after the release was consumed |
| `SoldRoundPrepared` | `Auction.cfg` | the round prepared is not the one that is lotted and sold, which need not have an appraisal |
| `ReintegratedLotOnSale` | `Auction.cfg` | after a default the lot's round already has its outcome; no sale can be recorded until a reclaim and a new round |
| `OutsideOccupiesNone` | `Yard.cfg` | a vehicle out for repair is assigned a spot |
| `YardIsTheSpotsYard` | `Yard.cfg` | a move names a process that is not the one in the spot |
| `RecurrenceAlive` | `Jobs.cfg` | one lost command between pop and enqueue ends the recurrence until the next boot |
| `TechnicianKept` | `Dispatch.cfg` | `work-order.service.ts:1830` "Nenhuma via troca o técnico": the dispatch of t1 has arrived; an assignment with operator t1 and user t2 passes as no change and makes t2 the technician. And the lock is asked before the write: a dispatch arrives in between |
| `ClosedGainsNobody` | `Dispatch.cfg` | `work-order.service.ts:1874` "uma OS encerrada não ganha técnico novo": an assignment has read the open order, the order is cancelled, the assignment writes technician and status over it |
| `NoDispatchLeft` | `Dispatch.cfg` | `field-dispatch.service.ts:434` "não sobra despacho apontando um técnico que não é o da OS": the process dies, or the compensation fails, between the dispatch and the assignment; or two requests about one dispatch each put back what they read |
| `NoDueAfterStop` | `Trail.cfg` | `impound.notifications.service.ts:77` "frozen_at set ⇒ sem novo DUE": the release commits between the context and the lock of `markDue`, which asks for neither |
| `MilestonesCaptured` | `Trail.cfg` with `Edges <- RepairEdges` | the return from a repair reaches ACTIVE_CUSTODY with an event and no outbox row |
| `DeadlinesMarked` | `Trail.cfg` with two orders | the page is never turned and finished processes stay on it: with more running processes than the page holds, the newest get no deadline |
| `PendingBalanceKept` | `Financial.cfg` | `financial-title.service.ts:447` "o saldo do título só muda pela compensação do cheque ou pelo desvínculo": a title is paid in part, a cheque is linked for the balance, the payment is reversed |

What `MobileSync` does and no property forbids, since no document promises otherwise: an action marked `syncing` when
the app ends is never listed again; a save of the whole table overwrites what was recorded or settled
since it was loaded; an update recorded between the mapping of the ids and the refresh of
the screen has no `server_id` and is never sent; a late request sets the status of an order back. Each
is a trace of the model. After a restart of the server a creation sent again is a second
order (`mobile-sync-contracts.md` promises `already_applied`); `OrdersBounded` counts it.

Likewise in `FinancialSettlement`: `changeStatus` does not ask for cheques, so a title with a pending one can be cancelled
and the cheque then never clears; a title paid while in dispute or scheduled
is `open` after the reversal. Clearing locks the cheque and then the title, linking
the reverse: the database may abort one of the two, which the model has as `RollBack`.

## 5 Proofs

`tlapm <module>Proofs.tla` for each of the eight modules of theorems. They hold for every value of the
constants, without the bounds of section 3; the assumptions are the `ASSUME`s of the models,
which TLC evaluates in the runs. Each rests on one or more inductive invariants, stronger than the property; TLC checked those
on the instances of the runs before they were proved. Every invariant, action property and refinement of a passing run
is the statement of a theorem; what is left to TLC is at the end of this section.

Where a proof needs induction over data (a sum over the entries of a title, the actions of a batch in
order, replies folded over it), it takes the least counterexample instead: the naturals are well founded (`WFMin`), so a
set of sizes at which the statement fails has a least member, and the step from there to one less contradicts it
(`LeastPart` in `FinancialSettlementProofs`, `LeastOf` in `MobileSyncProofs`, `Least` in `YardOccupancyProofs`).

**`CustodyReleaseProofs`**: any clerks, scans, dossiers, requirements, profiles, endpoints and clock bound
(`NoDossier` is no dossier, `MaxDay` a natural number, profiles a non-empty set of models and ceilings).

| theorem | property | argument |
|---|---|---|
| `TypeCorrect` | `TypeOK` | one lemma per kind of step |
| `NoGap` | `DailiesContiguous` | inductive `LedgerInv`: the dailies are 1..k **and** a scan in its loop has every period below its next one behind it (`ScansContiguous`). Without the second part a scan could write past a gap; it holds because another scan only adds dailies. |
| `NoEarlyDaily` | `OnlyElapsedDays` | `ElapsedInv`: whatever a scan is about to write was due when it computed it (`ScansElapsed`), entry is stamped once and the clock only advances, so it still is. Monotonicity in the period and in the clock are lemmas of their own. |
| `GateHolds` | `ReleasedOnlyWhenDue` | only the commit of a consumption releases (`OnlyCommitsMove`), after questions it asked a step before. The inductive `GateInv` adds `AnswersHold`: between the two, debts, authority and recipient stay as they were found, because whoever writes them waits for the process or the release row. |
| `ImplementsLifecycle` | `Lifecycle` | refinement: the initial state maps to the initial one, a status commit to an edge of the table (`CommitIsAnEdge`), all others stutter. |
| `OneReleaseAtATime` | `DossierMatchesStatus` | `DossierInv` is inductive with the types alone, because each commit re-checks the status and the open dossiers. |
| `StopsAtTheEnd` | `StoppedExactlyAtTheEnd` | `StopInv` adds `RequestTimes`: the instant a handler sampled before the lock is not in the future, and not before the entry for the ones that stamp T_stop. Needed since the stamp is the sampled instant, not the commit's. |

**`AuctionSaleProofs`**: any number of rounds, classifications and amounts. One inductive invariant, `SaleInv`:

| theorem | property | argument |
|---|---|---|
| `AuctionTypeCorrect` | `TypeOK` | part of `SaleInv` |
| `OneSaleAtATime` | `OneEffectiveSale` | the sales no default names are at most one (`OneSale`), there is one exactly in the two sold statuses (`SaleMatchesStatus`), so a new sale is recorded only when there is none, and a default names the one there is (`DefaultsNameSales`) |
| `ReserveIsMet` | `SaleMeetsReserve` | a sale reads the reserve when it is recorded, but the edict could be edited before or after: `LotReady` says a lotted edict keeps its class, its completeness and its reserve |
| `AppendOnly` | `OutcomesKept` | every step that writes a round writes one without an outcome |
| `ImplementsTable` | `Lifecycle` | each endpoint is an edge of `ImpoundLifecycle` or stutters |

**`YardOccupancyProofs`**: any number of transactions, spots and vehicles (`Calls` a subset of the operations; for
the last theorem the spots are among `1 .. N`, some natural `N`). One inductive invariant, `YardInv`:

| theorem | property | argument |
|---|---|---|
| `YardTypeCorrect` | `TypeOK` | part of `YardInv` |
| `OccupiedMeansOccupied` | `StatusTellsOccupancy` | a row somebody has locked is as it was when it was locked, and a vehicle whose index entry somebody has locked still stands nowhere (`LocksHeld`): what a transaction decided at its first lock is true when it writes |
| `ImplementsParking` | `OccupancyI1` | refinement: `OneSpot` and `LocksHeld` make each commit a parking, a leaving or a move of `Parking`, everything else stutters |
| `MovesNeverDeadlock` | `NoSpotDeadlock` | a move that has its first spot only wants the second, the greater one (`LocksOwned`), so along a circle the first spots would grow for ever; the naturals up to `N` have no such circle (`Least`) |

What all steps share is in three lemmas: `TakeStep` for one more lock, `EndStep` for a commit or a refusal, which give back every
lock of the transaction and hand nobody else's, and `AskStep` for a request that comes in.

**`JobQueueProofs`**: any number of jobs, overlapping ticks, attempts, errors, lost commands and crashes
(`MaxAttempts` positive, scans and events have different ids). Two inductive invariants, `JobInv` and on top of it `RecurrenceInv`:

| theorem | property | argument |
|---|---|---|
| `QueueTypeCorrect` | `TypeOK` | includes that an envelope is failed exactly when its attempts are spent |
| `OneHand` | `OneHolder` | a command that takes a job takes it out of the place where it was (`PushBack`, `PopFront`, `TickHolds`), and a new id is in none |
| `CallsBounded` | `RunsBounded` | `CallsCounted`: the calls of a handler equal the attempts of the envelope, and exceed them by one between the call and the end; what is in a list or a hand has an attempt left. `OneHolder` is needed: two holders would read the same count |
| `RecurrenceLives` | `RecurrenceAlive` | while no command has failed and the process has not crashed (`faults = 0`, which is all of `JobsClean`). `RecurrenceInv` says more than the property: a scan is listed, delayed or **about to be called**. One whose call is over does not count, since its successor is enqueued in `finally`; a step that loses a job without a successor is a fault |

Every step of a tick is an instance of one lemma, `TickStep`: the tick becomes `w`, the jobs of `S` are written, what
comes into a list was in no other hand.

**`FinancialSettlementProofs`**: any titles, cheques, months, amounts, and units of work under way. Two inductive invariants, `SnapshotInv` and
on top of it `MoneyInv`:

| theorem | property | argument |
|---|---|---|
| `SettlementTypeCorrect` | `TypeOK` | `UnitsFit` ties a unit to the kind of its row, `OneIssuer` keeps two units from issuing one title |
| `SnapshotStays` | `SnapshotAgrees` | a unit past the question has found its month open, and it stays so (`FoundOpen`); what a close has read is what is there, and no unit holds its month (`CloseHolds`). So a write goes into an open month that no close is reading, and `MaterialElsewhere` says it leaves the snapshot of every other month: sums and counts are over the same rows. A payment of a title of a closed month touches only `paid` and `status`, which the snapshot leaves out |
| `PaidIsSettled` | `PaidMatchesEntries` | `MoneyInv`, below |
| `UndoneJustOnce` | `UndoneOnce` | `MoneyInv`, below |

`MoneyInv` is a second inductive invariant on top of `SnapshotInv`. The properties alone are not inductive: that a reversal or a bounce takes
from `paid` what its entry put there needs that an entry of a title is neither deleted nor a counter-entry (`EntriesFit`), that a counter-entry
is the only one of an original that is still there (`CounterStands`), that a cheque and the entries it posted agree in title and amount
(`ChequesFit`), that every live entry by cheque is some cheque's (`ChequeOf`) and a clearing only one's (`OwnClearing`), and that what a unit
of work has found out before the lock and does not ask again is still so (`CallsFit`: the entry to reverse is no counter-entry). The sum over
the entries of a title is taken apart by the lemmas on `Total` at the head of the module: a row more, a row less, a row that changes sides.

**`CustodyTrailProofs`**: any removals, sweeps, scans, clerks, clock, and bounds on moves and faults; sequences of any length. One
inductive invariant, `TrailInv`:

| theorem | property | argument |
|---|---|---|
| `TrailTypeCorrect` | `TypeOK` | `RecordTypes`, `CountTypes`; what a sweep, a scan or a clerk is about exists (`SweepsFit`, `NotifiersFit`, `ClerksFit`), and processes are never removed |
| `SoundChainsPass` | `NoFalseAlarm` | every stored chain verifies (`ChainsSound`): a chain that verifies still does with the next event, the new head and the anchor that is due (`ValidGrows`). A verification works on the snapshot it opened, which is such a chain however many commits append meanwhile (`VerifierFits`) |
| `EvidenceStays` | `EvidenceKept` | a commit stamps the entry of a row that has none, and marking, issuing and waiving look at the row they write |

**`FieldDispatchProofs`**: any requests that overlap, any bodies, technicians, dispatches and order to start from, failures
and crashes included. The properties speak of the two history variables: what the code gives is
that nothing goes wrong *but* by a request that another has overtaken since it asked, or an undoing that was lost or crossed:

| theorem | property | argument |
|---|---|---|
| `DispatchTypeCorrect` | `TypeOK` | `TypeInv` adds what a request is about at each of its steps, `PastInv` the types of the history |
| `AssignedOrUndone` | `ActiveDispatchAssigned` | `AssignInv`: a dispatch outside `mislaid` that is active is backed by an assignment, or a request that is about it still has to write it or to undo (`ActiveBacked`); what a request would restore is assigned itself, or a draft (`Pending`) |
| `TechnicianStaysNamed` | `TechnicianNamed` | `AnswersInv`: what a request that is not overtaken was told when it asked is still so (`Answered`), so its write names the technician there is |
| `ClosedStaysClosed` | `ClosedOrderKept` | `AnswersInv` again: an order that was read open by a request that is not overtaken is open, and the table has no edge out of a closed one |

**`MobileSyncProofs`**: any number of statuses, tries, faults and requests at the server (finitely many: `IsFiniteSet(Slots)`; the
batch endpoint works on those that have arrived). Two inductive invariants, `IInv` and on top of it `FitInv`:

| theorem | property | argument |
|---|---|---|
| `SyncTypeCorrect` | `TypeOK` | part of `IInv`. A reply is folded over the batch, and a batch is a set put in order: `InOrderIs` and `AllTasksAre` say what comes out |
| `OrdersStayFew` | `OrdersBounded` | `OrderInv`, part of `IInv`, is what is conserved. As long as there is no receipt of the creation, every order is owed to a restart, to a late request (done or still to come: `LateOnes`), or is the one just made (`LiveMade`); once there is one, only requests that have looked for it in vain (`PastOnes`) add an order. `Cardinality(PastOnes) + Cardinality(LiveMade) <= Cardinality(LateOnes) + 1` carries the count over, since one request at most is waited for (`OneLive`) and none does two creations (`ShapesFit`) |
| `UpdatesFollow` | `UpdateFollowsOrder` | part of `FitInv`: an id in the table, in what is about to be saved over it, in the tasks of the replay, at the server, or in a receipt, is that of an order there is; orders are never removed |
| `SyncedIsApplied` | `SyncedMeansApplied` | `FitInv`: whatever says `synced` or `processed`, at any place between the receipt and the table, is about an applied action (`RowFits`, `ResultFits`). The reply is about the batch that was sent (`Matches`). What `Read` found is still so at `Apply` unless a request was given up (`WriteFits`), because otherwise there is no second request (`OneLive`), so an order only moves on (`Grown`) and what was so stays so |

The lemmas in the middle say what a change of one kind does whatever action makes it: `DeviceGrows`, `SlotsKeep`,
`ReceiptsGrow` (orders only grow), `MoveFits` and `AnswerFits` (one request takes a step).

Only model-checked:

- liveness (`SweepCatchesUp`, `Answered`, `JobsEnd`, `RemovalOpens`, `DeadlinesMarked`): the prover's temporal
  back end does not do fairness or ENABLED;
- `JobQueue` with lost commands and crashes, for `RecurrenceAlive`: false as well (section 4).

## 6 Not modelled

- Several tenants: every modelled transaction runs for one, isolation is the database's.
- Money: charges are settled or not, dailies net to zero or not; tariffs exist for
  a period or not (`SweepStop`).
- The event each commit of `CustodyRelease` and `AuctionSale` appends: `CustodyTrail` models the append, for
  the transitions, openings and notifications.
- Other processes in the scan of the dailies. Its page of 500 candidates ordered by entry
  (`charge.service.ts:35`) is never turned either; `CustodyTrail` shows what that does to
  the deadlines.
- In `CustodyTrail` the identity a process seeds, checklist links, the file of a notification, private
  profiles (they have no rite), and `verify` outside custody, where its answer bars nothing.
- In `FieldDispatch` the checklist snapshot a dispatch freezes and the runs it provisions (they change neither the order
  nor the dispatch), events and notifications.
- In `MobileSync` the queues of expenses, checklists, evidence and positions, the pull from the server, and assignment and mileage
  actions, which pass through the same harness.
- In `FinancialSettlement` accounts and currencies, payables (the same code with the other direction), the titles that
  orders and other sources issue, attachments, and the unique indexes and CHECKs that stand behind the service.
- Chains of recurring jobs multiply on retries and reboots (nothing merges them);
  the model has both causes, its ids bound how many.
- A yard and its spots exist from the start; creation and renaming are left out.
- CRUD modules, read models, files, presentation, arithmetic over imported
  files: no protocol to check, see the notes in `PROJECT.json`.
- The `InMemory...Repository` twins of the Prisma repositories: the same interfaces, single-threaded, nothing persisted.

## 7 Plan

Done, in this order: `ImpoundLifecycle`, `CustodyRelease` with its proofs,
`AuctionSale`, `YardOccupancy` with `Parking`, `JobQueue`, `FieldDispatch`, `MobileSync`, `CustodyTrail`,
`FinancialSettlement`, the proofs about `AuctionSale`, `FinancialSettlement`, `JobQueue`, `YardOccupancy`, `CustodyTrail`,
`FieldDispatch` and `MobileSync`. Next:

1. Composition of `CustodyRelease` and `AuctionSale` over one process row, so that
   reclaim after default meets the scan and a second release; settlement
   (`AuctionSettlement`): cascade as a function against a reference, claim read before the lock.
2. `CycleCount`, `ScheduledNotifications`, refresh-token rotation.

Abstract specifications worth stating for these: a settlement that pays each claim once in
legal order (1), at-most-once delivery per occurrence (2).
