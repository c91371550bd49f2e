SPECIFICATION Spec
CONSTANTS
    N = 4
    Bytes = {"b1", "b2"}
    MaxBlock = 5
INVARIANTS
    TypeOK
    EndsOrdered
PROPERTY
    ImplementsFifo
