\* One title, one cheque, two requests; two months that are closed and reopened.
CONSTANTS
    Titles = {t1}
    Cheques = {c1}
    Requests = {r1, r2}
    Periods = {1, 2}
    Today = 1
    Amounts = {1, 3}
    Parts = {2}
    MaxOps = 3
    None = None
SPECIFICATION Spec
SYMMETRY AnyRequest
INVARIANTS
    TypeOK
    SnapshotAgrees
    PaidMatchesEntries
    UndoneOnce
CHECK_DEADLOCK FALSE
