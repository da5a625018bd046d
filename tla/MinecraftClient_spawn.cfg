SPECIFICATION FairSpec
CONSTANTS
    Replies = {"secure", "plain"}
    MaxNoise = 0
PROPERTIES Spawns
CHECK_DEADLOCK FALSE
