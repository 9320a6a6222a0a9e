SPECIFICATION FairSpec
CONSTANTS
    Requests <- OnlyGet
    Responses <- AllResponses
    MaxLine = 2
    Uint = 16
    MayLeave = TRUE
    MayBreak = TRUE
INVARIANTS
    TypeOK
    ForwardedButEnd
    NoUnderflow
    
PROPERTIES
    RelayEnds
CHECK_DEADLOCK FALSE
