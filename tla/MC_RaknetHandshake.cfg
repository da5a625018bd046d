SPECIFICATION FairSpec
CONSTANTS
    InitialMtu = 12
    MtuStep = 2
    MtuMin = 6
    MtuMax = 15
    MtuMod = 32
    HeaderSize = 1
    PathMtu = 11
    ServerMtu = 14
    Compatible = {TRUE, FALSE}
    MaxInFlight = 2
    MaxFaults = 2
INVARIANTS TypeOK HandshakeOrder HandshakeInv MtuAgreed
PROPERTIES ConnectsDespiteOneFault TimerEnds
CHECK_DEADLOCK FALSE
