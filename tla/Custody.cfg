\* Two handlers in flight over every status and dossier; the clock barely moves.
CONSTANTS
    Clerks = {k1, k2}
    Sweeps = {}
    Dossiers = {d1, d2}
    Codes = {c1}
    NoDossier = NoDossier
    MaxDay = 1
    Profiles <- RollingProfile
    Calls <- CustodyCalls
SPECIFICATION Spec
SYMMETRY Interchangeable
INVARIANTS
    DossierMatchesStatus
    StoppedExactlyAtTheEnd
PROPERTIES
    ReleasedOnlyWhenDue
    Lifecycle
CHECK_DEADLOCK FALSE
