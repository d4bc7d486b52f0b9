\* Two overlapping ticks, a handler that throws, a failed command or crash.
CONSTANTS
    ScanJobs = {s1, s2, s3, s4}
    EventJobs = {e1}
    Ticks = {t1, t2}
    MaxAttempts = 2
    MaxErrors = 1
    MaxFaults = 1
    NoJob = NoJob
SPECIFICATION Spec
SYMMETRY Overlapping
INVARIANTS
    TypeOK
    OneHolder
    RunsBounded
CHECK_DEADLOCK FALSE
