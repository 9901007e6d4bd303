SPECIFICATION Spec
CONSTANTS
    c1 = c1
    c2 = c2
    Clients <- Pair
    Elder = elder
    None = none
    OpsOf <- SpawnerAndStopper
    Aged = {elder}
    MaxConnections = 1
    IdleLooks = 2
PROPERTY NoLiveDaemonDisplaced

CHECK_DEADLOCK FALSE
