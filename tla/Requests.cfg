CONSTANTS
    c1 = c1
    c2 = c2
    Clients = {c1, c2}
    LinesOf <- InputAndOther
    Peers <- MixedPeers
    ChannelCap = 1
    MaxDelay = 1
    MaxKeys = 2
    MaxScroll = 2
    Nothing = Nothing
    Streams <- ShortStreams
    MaxRequest = 3
    ByteStrings <- ShortByteStrings
    Texts <- ShortTexts
SPECIFICATION FairSpec
INVARIANTS
    VersionsRespected
    InputAsWritten
    ExitCodeTruth
    SizesAgree
    TextAsTyped
    KeysAsNamed
    RequestsAsSent
PROPERTIES
    RefusedDidNothing
    KillFreesInput
    AcceptedInputArrives
CHECK_DEADLOCK FALSE
