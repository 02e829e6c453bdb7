CONSTANTS
    a = a
    t = t
    Tag = {t}
    Everyone = Everyone
    Nobody = Nobody
    Name = {a}
    Path <- Paths
    EmptyPath = EmptyPath
    LikePath <- NoLike
    FileName = {"f", "af"}
    EmptyName = EmptyName
    Data <- Datas
    Size <- Sizes
    NoContent = NoContent
    AclList <- AllLists
    Clock = {1}
    MaxInode = 7
    Me = {t}
    now = 1
    Caller = {p}
    Main = Main
    None = None
    Component = {a, "f", Blank}
    Segments <- SegmentsOf
    Blank = Blank
    Seeds <- UsedSeed
    Offset <- Offsets
    Chunk <- Chunks
    OtherLists <- Acls
    MaxRequests = 1
    MaxChanges = 1
    MaxFaults = 1
SPECIFICATION FuseSpec
PROPERTIES
    ComesBackCreating
