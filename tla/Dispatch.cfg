\* Two requests that overlap, any body; any call may fail, the process may die.
CONSTANTS
    Requests = {r1,r2}
    Techs = {t1,t2}
    Desk = Desk
    Orders <- OpenOrOnRoute
    MaxDispatches = 2
    MaxCalls = 4
    None = None
SPECIFICATION Spec
SYMMETRY AnyTech
INVARIANTS
    TypeOK
    ActiveDispatchAssigned

PROPERTIES
    TechnicianNamed
    ClosedOrderKept
CHECK_DEADLOCK FALSE
