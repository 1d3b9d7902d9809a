SPECIFICATION AlphaFairSpec
CONSTANTS
    BufSz = 4
    SemMod = 16
    MaxMsgs = 1
    MsgSize = 5
    PkgSz = 5
    NULL = NULL
    Streams <- MCStreams
    Scripts <- MCScripts
    PacedScripts <- MCPacedScripts
INVARIANTS
    FramingExact
    HandledInOrder
PROPERTIES
    RejectedOnlyWhenFull
    AllHandled
CHECK_DEADLOCK FALSE
