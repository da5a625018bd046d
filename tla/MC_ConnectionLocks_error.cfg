SPECIFICATION FairSpec
CONSTANTS
    MaxErrors = 1
PROPERTIES DisconnectReturns
CHECK_DEADLOCK FALSE
