SPECIFICATION FairSpec
CONSTANTS
    BufSz = 3
    SemMod = 6
    Streams <- MCStreams
INVARIANTS
    TypeOK
    NoLostWakeup
PROPERTIES
    ChannelSpec
    Drained
CHECK_DEADLOCK FALSE
