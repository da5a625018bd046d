SPECIFICATION PatientSpec
CONSTANTS
    a = a
    b = b
    c = c
    d = d
    e = e
    bye = bye
    NoChunk = NoChunk
    Chunk <- MCChunk
    Bye <- MCBye
    Message <- MixedMessages
    MayThrow <- NoneThrow
    WireMod = 16
    SplitIdMod = 16
    MaxSplitCount = 2
    MaxSplits = 9
    MissingLimit = 9
    MaxWindowSize = 9
    MaxResends = 9
    MaxWrites = 2
    MaxSeq = 9
    EarlyLimit = 2
    MaxFaults = 2
INVARIANTS NothingLost
PROPERTIES EveryMessageArrives
CHECK_DEADLOCK FALSE
