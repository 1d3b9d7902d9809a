SPECIFICATION FairSpec
CONSTANTS
    t1 = t1
    t2 = t2
    t3 = t3
    m1 = m1
    m2 = m2
    NULL = NULL
    Threads = {t1, t2, t3}
    Mutexes = {m1, m2}
    Flags = {"FIFO", "PRIO"}
    Uses <- MCUses
    Base <- MCBase
    MaxHold = 2
    Lifo = TRUE
INVARIANTS
    Ownership
    PriorityRestored
    NoPriorityReversion
PROPERTIES
    MostUrgentFirst
    MostUrgentProceeds
CHECK_DEADLOCK FALSE
