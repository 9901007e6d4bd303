CONSTANTS
    i1 = i1
    i2 = i2
    i3 = i3
    n1 = n1
    n2 = n2
    Ids = {i1, i2, i3}
    Names = {n1, n2}
    Capacities <- MCCapacities
    NoTombstone = NoTombstone
    TombstoneTTL = 2
    MaxTime = 3
SPECIFICATION Spec
INVARIANTS
    Coherent
PROPERTY ImplementsShelf
CHECK_DEADLOCK FALSE
