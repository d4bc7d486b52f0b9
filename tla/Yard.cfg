\* Two requests over the locks of two vehicles and two spots, answered in the end.
CONSTANTS
    Clerks = {k1, k2}
    Spots <- TwoSpots
    YardOf <- Apart
    Processes = {p1, p2}
    Calls <- AllCalls
    NamesAnyProcess = TRUE
    NoClerk = NoClerk
    NoProcess = NoProcess
    NoYard = NoYard
    East = East
    West = West
SPECIFICATION FairSpec
INVARIANTS
    TypeOK
    StatusTellsOccupancy
    NoSpotDeadlock
PROPERTIES
    OccupancyI1
    Answered
