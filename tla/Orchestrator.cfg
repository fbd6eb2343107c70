SPECIFICATION FairSpec
CONSTANTS
    Names = {n1, n2}
    Dirs = {d1, d2}
    Clients = {c1}
    Groups = {g1, g2}
    NoGroup = NoGroup
    NoDir = NoDir
INVARIANTS
    TypeOK
    LiveIsRegistered
    RunningIsMarked
    RestoreIsComplete
PROPERTY ShutdownEnds
