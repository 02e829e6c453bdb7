CONSTANTS
    a = a
    b = b
    t = t
    Tag = {t}
    Everyone = Everyone
    Nobody = Nobody
    Name = {a, b}
    Path <- CasePaths
    EmptyPath = EmptyPath
    LikePath <- CaseLike
    FileName = {f}
    EmptyName = EmptyName
    Data <- OneData
    Size <- OneSize
    NoContent = NoContent
    AclList <- PlainAcls
    Clock = {1}
    MaxInode = 6
SPECIFICATION Spec
INVARIANTS
    RefusalMeansOccupied
CHECK_DEADLOCK FALSE
