SPECIFICATION Spec
CONSTANTS
    Msg = {1, 2}
    Pieces <- OneAndTwo
    LineParts = 2
    Room = 4
    MaxSize = 2
    MaxCalls = 3
    MayBeSlow = TRUE
    None = None
INVARIANTS
    TypeOK
    LoggedIn
    OwnAnswer
    Happened
    MailWhole
CHECK_DEADLOCK FALSE
