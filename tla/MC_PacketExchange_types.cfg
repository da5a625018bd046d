SPECIFICATION PacketSpec
CONSTANTS
    IntMod = 65536
    IntGroups = 3
    LongMod = 16777216
    LongGroups = 4
    MaxString = 6
    MaxAck = 4
    Samples <- MCSamples
    MaxWritten = 3
    Mtu = 140
    Slack = 30
INVARIANT PacketTypeOK
CHECK_DEADLOCK FALSE
