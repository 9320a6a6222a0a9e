SPECIFICATION Spec
CONSTANTS
    fine = fine
    unknown = unknown
    refusing = refusing
    Conn = {1, 2}
    Site = {fine, unknown, refusing}
    Unknown = {unknown}
    Refusing = {refusing}
    None = None
INVARIANTS
    HostLockHeld
CHECK_DEADLOCK FALSE
