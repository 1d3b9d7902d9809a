SPECIFICATION Spec
CONSTANTS
    RxBufs = 2
    MbSize = 1
    InSize = 1
    PoolEmpties = FALSE
INVARIANTS
    AllReceived
