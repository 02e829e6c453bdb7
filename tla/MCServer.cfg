CONSTANTS
    a = a
    t = t
    user = user
    x = x
    y = y
    Tag = {t, user}
    Everyone = Everyone
    Nobody = Nobody
    Name = {a}
    Path <- Paths
    EmptyPath = EmptyPath
    LikePath <- NoLike
    FileName = {"f", "g"}
    EmptyName = EmptyName
    Data <- Datas
    Size <- Sizes
    NoContent = NoContent
    AclList <- NoAcls
    Clock = {0, 1}
    MaxInode = 5
    Generation <- Generations
    Addr = {x, y}
    WhoIs <- Peers
    NoPeer = NoPeer
    Claims <- ClaimsOfTag
    MaxFaults = 3
    MaxWrites = 1
SPECIFICATION ServerSpec
INVARIANTS
    ServesSound
    ContentsKept
    OnlyFirstStops
    NoCallCut
PROPERTIES
    WritesAuthorised
    StopsWhenTold
    ComesUp
