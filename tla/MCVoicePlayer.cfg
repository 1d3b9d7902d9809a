SPECIFICATION FairSpec
CONSTANTS
    BufLen = 3
    MaxSize = 10
    Sizes <- MCSizes
INVARIANTS
    PlayedInOrder
PROPERTIES
    NoTornRefill
    PlayEnds
CHECK_DEADLOCK FALSE
