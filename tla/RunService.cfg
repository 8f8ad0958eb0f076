SPECIFICATION FairSpec
CONSTANTS
    c1 = c1
    Clients = {c1}
    Waiters = {w1}
    MaxEvents = 2
    MaxIds = 3
    Agents <- AllAgents
INVARIANTS
    NobodyStranded
    AttachedIsCurrent
    OnlyEvictedIsLost
PROPERTIES
    ImplementsLifecycle
    StreamsEnd
    ShutdownReaps
CHECK_DEADLOCK FALSE
