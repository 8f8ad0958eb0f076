SPECIFICATION Spec
CONSTANTS
    Requests = {r1, r2}
    MaxAttempts = 2
    MaxCrashes = 0
    MaxFaults = 0
INVARIANT OrdinalsGrow
CHECK_DEADLOCK FALSE
