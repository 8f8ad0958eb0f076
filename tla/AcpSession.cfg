SPECIFICATION FairSpec
INVARIANTS
    InOrder
PROPERTIES
    ImplementsSession
    SilenceEnds
CHECK_DEADLOCK FALSE
