SPECIFICATION FairConnectSpec
CONSTANTS
    Replies <- MCEveryReply
    MaxNoise = 2
    MaxFaults = 2
INVARIANTS ServerUnderstands ClientUnderstands NothingLost NothingForgotten ConnectTypeOK PingComplete OfflineForAReason RequestIsUnderstood
PROPERTIES ReachesStartGame LogsInAtLast
CHECK_DEADLOCK FALSE
