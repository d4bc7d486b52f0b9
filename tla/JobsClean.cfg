\* Only handlers fail, up to the dead letters: the recurrence lives, every job ends.
CONSTANTS
    ScanJobs = {s1, s2, s3, s4}
    EventJobs = {e1}
    Ticks = {t1}
    MaxAttempts = 2
    MaxErrors = 2
    MaxFaults = 0
    NoJob = NoJob
SPECIFICATION FairSpec
INVARIANTS
    RecurrenceAlive
PROPERTIES
    JobsEnd
CHECK_DEADLOCK FALSE
