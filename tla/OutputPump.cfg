CONSTANTS
    ReadMax = 2
    ChannelCap = 2
    BatchMax = 3
    RetainBytes = 3
    TailBytes = 2
    PtyCap = 3
    MaxWritten = 6
    MaxCount = 100
    NoTombstone = NoTombstone
SPECIFICATION FairSpec
INVARIANTS
    BytesConserved
    EvidenceTruthful
    EndIsWhole
PROPERTIES
    ImplementsOutput
    OutputReachesScreen
    FinalizationEnds
CHECK_DEADLOCK FALSE
