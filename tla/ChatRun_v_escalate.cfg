SPECIFICATION FairSpec
CONSTANTS
    c1 = c1
    Clients = {}
    Waiters = {}
    MaxEvents = 1
    MaxIds = 2
    Agents <- StubbornPlain
PROPERTIES
    WatchdogEscalates
CHECK_DEADLOCK FALSE
