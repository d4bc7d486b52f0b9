\* One order and two statuses of it, with every fault.
CONSTANTS
    MaxUpdates = 2
    MaxRetry = 2
    Slots = {s1, s2}
    MaxFaults = 2
SPECIFICATION Spec
SYMMETRY AnySlot
INVARIANTS
    TypeOK
    OrdersBounded
    SyncedMeansApplied
    UpdateFollowsOrder
CHECK_DEADLOCK FALSE
