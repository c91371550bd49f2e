SPECIFICATION Spec
CONSTANTS
    high = high
    mid = mid
    low = low
    m1 = m1
    m2 = m2
    None = None
    Threads = {high, mid, low}
    Mutexes = {m1, m2}
    InitPrio <- ThreePrios
    Ceilings = {7}
    MaxHold = 2
    NewPrios = {8}
    MaxChanges = 1
SYMMETRY TwoMutexSymmetry
INVARIANTS
    TypeOK
    OwnershipConsistent
    SuspendListsExact
    TakeResultRight
    NoInversion
    PriorityExact
CHECK_DEADLOCK FALSE
