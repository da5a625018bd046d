SPECIFICATION Spec
CONSTANTS
    InitialMtu = 12
    MtuStep = 2
    MtuMin = 6
    MtuMax = 15
    MtuMod = 32
    HeaderSize = 1
    PathMtu = 31
    ServerMtu = 14
    Compatible = {TRUE}
    MaxInFlight = 2
    MaxFaults = 7
INVARIANTS ProbesShrink
CHECK_DEADLOCK FALSE
