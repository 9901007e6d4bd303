CONSTANTS
    b0 = b0
    b1 = b1
    Bytes = {b0, b1}
    Capacities <- MCCapacities
    MaxCount = 5
    TailBytes = 2
    MaxBatch = 4
    MaxStream = 6
SPECIFICATION Spec
INVARIANTS
    NewestKept
    LossReported
CHECK_DEADLOCK FALSE
