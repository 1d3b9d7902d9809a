SPECIFICATION ThreadSpec
CONSTANTS
    main = main
    t1 = t1
    t2 = t2
    idle = idle
    Threads = {main, t1, t2}
    Main = main
    Idle = idle
    Victim = t2
    TimedDelete = FALSE
    Makes <- MCMakes
    Prio <- MCPrio
    Slice <- MCSlice
    Mod = 2
    Values = {0}
    TickMod = 7
    Waits = {2}
    Sleeps = {1}
INVARIANTS
    ThreadTypeOK
    OneListEach
    MostUrgentRuns
    InTime
    NoWaiterBesideToken
PROPERTIES
    RoundRobin
    NoStarvation
