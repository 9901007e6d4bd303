CONSTANTS
    c1 = c1
    c2 = c2
    i1 = i1
    i2 = i2
    n1 = n1
    Clients = {c1, c2}
    Ids = {i1, i2}
    Names = {n1}
    NoId = NoId
    NoName = NoName
    NoTombstone = NoTombstone
    MaxSessions = 1
    TombCapacity = 1
    TombstoneTTL = 1
    MaxTime = 1
    OpsOf <- Reader
SPECIFICATION Spec
SYMMETRY IdsAlike
PROPERTY NotFoundMeansGone
