SPECIFICATION Spec
CONSTANTS
    Names = {n1}
    Dirs = {d1}
    Clients = {c1, c2}
    Groups = {g1, g2, g3}
    NoGroup = NoGroup
    NoDir = NoDir
INVARIANT OneGroupEach
