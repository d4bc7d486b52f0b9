\* One removal followed to its last notification, a clerk, a failed transaction or crash.
CONSTANTS
    Orders = {o1}
    Sweeps = {w1}
    Notifiers = {n1}
    Clerks = {c1}
    Edges <- CustodyEdges
    OwnerDays = 1
    EdictDays = 2
    OpenPage = 1
    NoticePage = 1
    MaxDay = 3
    MaxMoves = 3
    MaxFaults = 1
    NoOrder = NoOrder
SPECIFICATION FairSpec
INVARIANTS
    TypeOK
    NoFalseAlarm
PROPERTIES
    EvidenceKept
    RemovalOpens
    DeadlinesMarked
CHECK_DEADLOCK FALSE
