\* Two overlapping scans against a release and profile edits, on a moving clock.
CONSTANTS
    Clerks = {k1}
    Sweeps = {s1, s2}
    Dossiers = {d1}
    Codes = {}
    NoDossier = NoDossier
    MaxDay = 2
    Profiles <- BothModels
    Calls <- LedgerCalls
SPECIFICATION FairSpec
INVARIANTS
    TypeOK
    DailiesContiguous
    OnlyElapsedDays
PROPERTIES
    SweepCatchesUp
CHECK_DEADLOCK FALSE
