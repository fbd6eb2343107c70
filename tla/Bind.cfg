SPECIFICATION FairSpec
CONSTANTS
    Processes = {p1, p2}
    Names = {n1, n2}
    Dirs = {d1, d2}
    MaxBinds = 2
    NoBind = NoBind
INVARIANTS
    TypeOK
    PendingIsAlive
    NoAddIsLost
    OneDirEach
PROPERTY NoHungBind
