SPECIFICATION Spec
CONSTANTS
    Requests <- OnlyGet
    Responses <- AllResponses
    MaxLine = 2
    Uint = 16
    MayLeave = FALSE
    MayBreak = FALSE
INVARIANTS
    Forwarded
CHECK_DEADLOCK FALSE
