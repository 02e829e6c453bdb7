CONSTANTS
    a = a
    b = b
    t = t
    u = u
    Tag = {t, u}
    Everyone = Everyone
    Nobody = Nobody
    Name = {a, b}
    Path <- Paths
    EmptyPath = EmptyPath
    LikePath <- NoLike
    FileName = {f}
    EmptyName = EmptyName
    Data <- Datas
    Size <- Sizes
    NoContent = NoContent
    AclList <- AllLists
    Clock = {1}
    MaxInode = 10
    Me = {t}
    now = 1
    Resource = {"dir", "file"}
    Text <- Texts
    Programs <- AllPrograms
    Absent = Absent
    Unset = Unset
    MaxEdits = 2
    MaxDrift = 1
    MaxFaults = 1
SPECIFICATION PulumiSpec
INVARIANTS
    StateTrue
PROPERTIES
    ReadFindsNoDiff
    StackConverges
