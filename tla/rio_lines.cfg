SPECIFICATION FairSpec
CONSTANTS
    Length = 5
    BufSize = 2
    MaxLine = 4
    MayFail = TRUE
INVARIANTS
    TypeOK
    InOrder
    SentOn
PROPERTIES
    ReadsStream
    Drains
CHECK_DEADLOCK FALSE
