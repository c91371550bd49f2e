SPECIFICATION FairSpec
CONSTANTS
    RbSize = 2
    NameMax = 1
    SemMax = 2
    Chars = {"e", "c"}
    Buttons = {"LEFT", "OK"}
    Batch = 1
    MaxChars = 2
    MaxPresses = 2
    StartBoards <- MCStartBoards
PROPERTIES
    PlaysByRules
    ChangesGetDrawn
    GameRestarts
    KeysGetHandled
CHECK_DEADLOCK FALSE
