SPECIFICATION FairSpec
CONSTANTS
    a = a
    b = b
    Letter = {a, b}
    Conn = {1, 2}
    Backlog = 1
    Files <- Site
    Dir = Dir
    Requests <- Asked
    Size = 6
    Kinds = {"cpp", "java", "python"}
    None = None
INVARIANTS
    OwnPage
PROPERTIES
    SeesEnd
CHECK_DEADLOCK FALSE
