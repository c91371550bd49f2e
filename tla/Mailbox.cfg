SPECIFICATION Spec
CONSTANTS
    t1 = t1
    t2 = t2
    t3 = t3
    a = a
    b = b
    None = None
    Threads = {t1, t2, t3}
    Lists = {"send", "recv"}
    Prio <- MCPrio
    Fifo = FALSE
    NestMax = 2
    Size = 2
    Mails = {a, b}
SYMMETRY MCSymmetry
INVARIANTS
    TypeOK
    OffsetsAgree
    NoLostWakeup
PROPERTY
    ImplementsMailFifo
CHECK_DEADLOCK FALSE
