SPECIFICATION FairSpec
CONSTANTS
    RxBufs = 2
    MbSize = 1
    InSize = 1
    PoolEmpties = TRUE
INVARIANTS
    MsgAlive
    LinkKnown
    NoFrameForgotten
PROPERTIES
    LinkFollows
    OutputReturns
