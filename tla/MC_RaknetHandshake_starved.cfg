SPECIFICATION FairSpec
CONSTANTS
    InitialMtu = 12
    MtuStep = 2
    MtuMin = 6
    MtuMax = 15
    MtuMod = 32
    HeaderSize = 1
    PathMtu = 11
    ServerMtu = 14
    Compatible = {TRUE}
    MaxInFlight = 2
    MaxFaults = 3
PROPERTIES EventuallyConnects
CHECK_DEADLOCK FALSE
