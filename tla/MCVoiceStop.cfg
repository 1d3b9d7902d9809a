SPECIFICATION FairSpec
CONSTANTS
    BufLen = 3
    MaxSize = 10
    Sizes <- MCSizes
INVARIANT
    StoppedWhenPlayed
CHECK_DEADLOCK FALSE
