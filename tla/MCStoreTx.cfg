CONSTANTS
    a = a
    b = b
    t = t
    Tag = {t}
    Everyone = Everyone
    Nobody = Nobody
    Name = {a, b}
    Path <- Paths
    EmptyPath = EmptyPath
    LikePath <- Like
    FileName = {f}
    EmptyName = EmptyName
    Data <- OneData
    Size <- OneSize
    NoContent = NoContent
    AclList <- Acls
    Clock = {1}
    MaxInode = 3
    Proc = {p1, p2}
    NoProc = NoProc
    Abandoned = Abandoned
    Request <- Requests
    NoRequest = NoRequest
SPECIFICATION TxSpec
INVARIANTS
    Isolated
    ErrorMeansNothing
PROPERTIES
    Implements
    CallsAnswered
