------------------------- MODULE MCCustodyRelease -------------------------
(* The values the TLC runs of CustodyRelease give its constants. *)
EXTENDS CustodyRelease, TLC

\* One profile, one daily per 24 hours, no ceiling within the clock.
RollingProfile == {[model |-> "ROLLING_24H", cap |-> 9]}

\* The administrator changes the counting model; under one of them the ceiling
\* comes before the clock stops.
BothModels ==
    {[model |-> "ROLLING_24H", cap |-> 9], [model |-> "CALENDAR", cap |-> 2]}

\* Clerks, dossiers and scans are interchangeable.
Interchangeable ==
    Permutations(Clerks) \cup Permutations(Dossiers) \cup Permutations(Sweeps)

\* Every endpoint but the ones that only feed the ledger and the intake.
CustodyCalls == {"transition", "start", "consume", "dossier", "exit", "return",
                 "eligible", "recycle", "check", "approve", "recipient", "settle",
                 "charge", "intake"}

\* A release that stops the charges, against the scans.
LedgerCalls == {"transition", "start", "adjust", "profile", "sweep", "intake"}

LateDailyCalls == {"transition", "start", "settle", "sweep", "intake"}

\* The same release to its end.
ReleaseCalls == LateDailyCalls \cup {"consume", "approve", "recipient"}

ChecklistCalls == {"transition", "start", "consume", "check", "approve",
                   "recipient", "intake"}
=============================================================================
