SPECIFICATION FairSpec
CONSTANTS
    Replies = {"refuse"}
    MaxNoise = 0
PROPERTIES LoopsClose
CHECK_DEADLOCK FALSE
