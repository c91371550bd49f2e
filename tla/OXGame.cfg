SPECIFICATION Spec
CONSTANTS
    RbSize = 2
    NameMax = 2
    SemMax = 2
    Chars = {"d", "e", "r", "c", "eol"}
    Batch = 1
    Buttons = {"LEFT", "OK"}
    MaxChars = 5
    MaxPresses = 0
    StartBoards <- MCStartBoards
INVARIANTS
    TypeOK
    LockBalanced
    ScreenUpToDate
    NoCharForgotten
CHECK_DEADLOCK FALSE
