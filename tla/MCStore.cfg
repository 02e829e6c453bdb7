CONSTANTS
    a = a
    b = b
    t = t
    Tag = {t}
    Everyone = Everyone
    Nobody = Nobody
    Name = {a, b}
    Path <- TreePaths
    EmptyPath = EmptyPath
    LikePath <- TreeLike
    FileName = {f}
    EmptyName = EmptyName
    Data <- OneData
    Size <- OneSize
    NoContent = NoContent
    AclList <- GateAcls
    Clock = {1, 2}
    MaxInode = 6
SPECIFICATION Spec
INVARIANTS
    TypeOK
    InodesDistinct
    PathsUnique
    TreeConnected
    ConfigsHoused
    NamesUnique
    NoOrphans
    CurrentIsLatest
    FirstVersionStamp
    ListAgreesWithGet
PROPERTIES
    IdsNeverReused
    OneTarget
    VersionsImmutable
CHECK_DEADLOCK FALSE
