SPECIFICATION FairSpec
CONSTANTS
    Routines = {r1, r2}
    Plans = {"hourly", "weekly"}
    Slots = {s1, s2}
INVARIANTS
    StartsAreShared
    RecordsAgree
PROPERTIES
    ImplementsCadence
    FiresForEver
