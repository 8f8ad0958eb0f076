SPECIFICATION Spec
CONSTANTS
    MaxRuns = 2
    MaxPuts = 2
    MaxFaults = 1
INVARIANTS
    NoPhantomRow
    SuccessIsReal
    StopIsSent
