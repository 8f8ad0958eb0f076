SPECIFICATION FairSpec
CONSTANTS
    Times = {"eight", "nine"}
    Templates = {"general", "sales"}
    Slots = {s1, s2}
INVARIANTS
    OneRun
    SummariesAreKept
PROPERTIES
    ImplementsCadence
    FiresForEver
