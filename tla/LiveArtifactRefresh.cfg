SPECIFICATION FairSpec
CONSTANTS
    Requests = {r1, r2}
    MaxAttempts = 3
    MaxCrashes = 2
    MaxFaults = 1
INVARIANTS
    Exclusive
    OneSuccessPerOrdinal
    ServedIsSaved
    RunningMeansLocked
PROPERTIES
    SnapshotsStand
    ImplementsTurns
    RefreshEnds
CHECK_DEADLOCK FALSE
