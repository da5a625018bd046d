SPECIFICATION WireSpec
CONSTANTS
    IntMod = 65536
    IntGroups = 3
    LongMod = 16777216
    LongGroups = 4
    MaxString = 6
    MaxAck = 4
    Endpoints <- MCEndpoints
    Mtus <- MCMtus
    MtuSize = 20
    Numbers <- MCNumbers
    MaxTwice = 1
    Tags <- MCTags
    MaxTags = 2
    Junk <- MCJunk
INVARIANTS MessageUnderstood AllAcknowledged AckUsable TagsUnderstood
CHECK_DEADLOCK FALSE
