SPECIFICATION FairSpec
CONSTANTS
    c1 = c1
    Clients = {}
    Waiters = {}
    MaxEvents = 1
    MaxIds = 4
    Agents <- AllAgents
INVARIANTS
    EndedMeansSignalled
    CancelWins
    SuccessIsClean
    GrantEndsWithChild
PROPERTIES
    ImplementsLifecycle
    CompletedTurnSucceeds
    EveryRunEnds
CHECK_DEADLOCK FALSE
