CONSTANTS
    a = a
    b = b
    t = t
    Tag = {t}
    Everyone = Everyone
    Nobody = Nobody
    Name = {a, b}
    Path <- OnePath
    EmptyPath = EmptyPath
    LikePath <- NoLike
    FileName = {f}
    EmptyName = EmptyName
    Data <- OneData
    Size <- OneSize
    NoContent = NoContent
    AclList <- PlainAcls
    Clock = {1}
    MaxInode = 6
SPECIFICATION Spec
INVARIANTS
    TreeNamesUnique
CHECK_DEADLOCK FALSE
