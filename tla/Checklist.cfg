\* An item unchecked between the questions of a release and its writes.
CONSTANTS
    Clerks = {k1, k2}
    Sweeps = {}
    Dossiers = {d1}
    Codes = {c1}
    NoDossier = NoDossier
    MaxDay = 0
    Profiles <- RollingProfile
    Calls <- ChecklistCalls
SPECIFICATION Spec
PROPERTIES
    ReleasedChecklistMet
CHECK_DEADLOCK FALSE
