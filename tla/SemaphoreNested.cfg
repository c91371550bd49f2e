SPECIFICATION Spec
CONSTANTS
    t1 = t1
    t2 = t2
    t3 = t3
    None = None
    Threads = {t1, t2, t3}
    Lists = {"suspend_thread"}
    Prio <- MCPrio
    Fifo = FALSE
    NestMax = 2
    SemMax = 2
    Values = {0, 1, 2}
SYMMETRY MCSymmetry
INVARIANT
    TimeoutFindsSuspended
