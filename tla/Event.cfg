SPECIFICATION EventSpec
CONSTANTS
    t1 = t1
    t2 = t2
    t3 = t3
    f1 = f1
    f2 = f2
    None = None
    Threads = {t1, t2}
    Lists = {"suspend_thread"}
    Prio <- MCPrio
    Fifo = TRUE
    NestMax = 2
    Flags = {f1, f2}
SYMMETRY MCSymmetry
INVARIANTS
    NobodyWaitsSatisfied
    ReceivedAsAsked
PROPERTY
    FlagsStay
CHECK_DEADLOCK FALSE
