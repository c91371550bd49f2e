SPECIFICATION IsrSpec
CONSTANTS
    N = 3
    Bytes = {"b1", "b2"}
    MaxBlock = 0
    GetBurst = 1
    ResetBurst = 2
INVARIANTS
    IsrTypeOK
    NothingLost
