SPECIFICATION FairSpec
CONSTANTS
    Rounds = {1, 2}
    Scores = {1, 2}
    Threshold = 2
    Policies = {"ship_best", "ship_last", "fail"}
    MaxClosed = 2
INVARIANTS
    ShippedMeetsBar
    ShipIsFetchable
    ToldIsVerdict
PROPERTIES
    ImplementsVerdict
    EveryCritiqueEnds
