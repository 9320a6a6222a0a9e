SPECIFICATION FairSpec
CONSTANTS
    Credentials <- Users
    Registered <- Known
    Files <- AllFiles
    Absent = Absent
    Locked = Locked
    None = None
INVARIANTS
    SendOk
    ReadBack
PROPERTIES
    InStep
    Finishes
CHECK_DEADLOCK FALSE
