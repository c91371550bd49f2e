SPECIFICATION Spec
CONSTANTS
    t1 = t1
    t2 = t2
    t3 = t3
    None = None
    Threads = {t1, t2, t3}
    Lists = {"suspend_thread"}
    Prio <- MCPrio
    Fifo = FALSE
    NestMax = 1
    SemMax = 2
    Values = {0, 1, 2}
SYMMETRY MCSymmetry
INVARIANTS
    TypeOK
    TokensConserved
    NobodySleepsBesideToken
    WaitsExact
