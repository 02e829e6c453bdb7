CONSTANTS
    a = a
    b = b
    t = t
    u = u
    Tag = {t, u}
    Everyone = Everyone
    Nobody = Nobody
    Name = {a, b}
    Path <- Paths
    EmptyPath = EmptyPath
    LikePath <- Like
    FileName = {"f"}
    EmptyName = EmptyName
    Data <- OneData
    Size <- OneSize
    NoContent = NoContent
    AclList <- Acls
    Clock = {1}
    MaxInode = 6
    Proc = {p1, p2}
    Request <- GrowRequests
    NoRequest = NoRequest
    NoId = NoId
    CreateAllowed = {t}
    Seeds <- UsedSeed
    CommitMayFail = FALSE
SYMMETRY Handlers
SPECIFICATION ApiSpec
INVARIANTS
    ListAnswers
