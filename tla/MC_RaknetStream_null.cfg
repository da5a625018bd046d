SPECIFICATION Spec
CONSTANTS
    a = a
    b = b
    c = c
    d = d
    e = e
    bye = bye
    NoChunk = NoChunk
    Chunk <- MCChunk
    Bye <- MCBye
    Message <- MixedMessages
    MayThrow <- NoneThrow
    WireMod = 16
    SplitIdMod = 16
    MaxSplitCount = 2
    MaxSplits = 9
    MissingLimit = 2
    MaxWindowSize = 9
    MaxResends = 1
    MaxWrites = 3
    MaxSeq = 4
    EarlyLimit = 0
    MaxFaults = 1
INVARIANTS NoNullPacket
CHECK_DEADLOCK FALSE
