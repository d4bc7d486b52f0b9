\* A scan that read its context before T_stop charges a daily after it.
CONSTANTS
    Clerks = {k1}
    Sweeps = {s1}
    Dossiers = {d1}
    Codes = {}
    NoDossier = NoDossier
    MaxDay = 2
    Profiles <- RollingProfile
    Calls <- LateDailyCalls
SPECIFICATION Spec
PROPERTIES
    TotalStableInRelease
CHECK_DEADLOCK FALSE
