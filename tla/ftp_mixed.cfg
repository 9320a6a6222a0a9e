SPECIFICATION Spec
CONSTANTS
    c1 = c1
    c2 = c2
    h1 = h1
    d1 = d1
    d2 = d2
    n1 = n1
    n2 = n2
    a = a
    b = b
    Client = {c1, c2}
    Host = {h1}
    HostOf <- OneHost
    Conn = {1, 2}
    Sock = {1, 2, 3, 4}
    Dir = {d1, d2}
    Name = {n1, n2}
    Block = {a, b}
    Denied = {d2}
    InitDir = d1
    InitFs <- FilesHere
    InitLocal <- LocalLong
    Menu <- MenuMixed
    MayDie = {c1, c2}
    None = None
    NoFile = NoFile
    NoDir = NoDir
    Hole = Hole
    Errstr = Errstr
INVARIANTS
    TypeOK
    ReplyIsMine
    OwnData
    LeakNeedsKill
    PortInTransferOnly
PROPERTIES
    UploadWhole
    DownloadWhole
CHECK_DEADLOCK FALSE
