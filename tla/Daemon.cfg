SPECIFICATION FairSpec
CONSTANTS
    c1 = c1
    c2 = c2
    Clients <- Pair
    Elder = elder
    None = none
    OpsOf <- SpawnerAndStopper
    Aged = {elder}
    MaxConnections = 1
    IdleLooks = 2
INVARIANTS FailureHasCause IdleSparesSessions CleanExitLeavesNothing
PROPERTIES CallsReturn ShutdownsEnd
CHECK_DEADLOCK FALSE
