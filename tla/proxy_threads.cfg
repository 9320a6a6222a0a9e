SPECIFICATION FairSpec
CONSTANTS
    fine = fine
    unknown = unknown
    refusing = refusing
    Conn = {1, 2, 3}
    Site = {fine, unknown, refusing}
    Unknown = {unknown}
    Refusing = {refusing}
    None = None
INVARIANTS
    TypeOK
    AddressMine
    LogMine
PROPERTIES
    Served
CHECK_DEADLOCK FALSE
