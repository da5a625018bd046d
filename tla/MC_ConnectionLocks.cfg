SPECIFICATION FairSpec
CONSTANTS
    MaxErrors = 2
INVARIANTS NoRace NoDeadlock KeepsListening
PROPERTIES DisconnectReturnsWithoutErrors
CHECK_DEADLOCK FALSE
