SPECIFICATION FairSpec
CONSTANTS
    MaxRuns = 1
    MaxPuts = 2
    MaxFaults = 1
PROPERTIES
    RowSettles
