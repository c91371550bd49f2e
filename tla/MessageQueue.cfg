SPECIFICATION Spec
CONSTANTS
    t1 = t1
    t2 = t2
    a = a
    b = b
    Isr = Isr
    None = None
    Threads = {t1, t2}
    Lists = {"send", "recv"}
    Prio <- MCPrio
    Fifo = FALSE
    NestMax = 2
    Size = 2
    Messages = {a, b}
SYMMETRY MCSymmetry
INVARIANTS
    BlocksAccounted
    NoLostWakeup
PROPERTY
    ImplementsMessageFifo
CHECK_DEADLOCK FALSE
