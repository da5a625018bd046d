SPECIFICATION ConnectSpec
CONSTANTS
    Replies <- MCEveryReply
    MaxNoise = 0
    MaxFaults = 1
INVARIANTS GotLiveToken
CHECK_DEADLOCK FALSE
