SPECIFICATION FairSpec
CONSTANTS
    c1 = c1
    c2 = c2
    Clients = {c1, c2}
    MaxDaemons = 2
    Ops <- MCOps
    None = None
CHECK_DEADLOCK FALSE
INVARIANTS
    TypeOK
    OneVerdict
    ExitCodeHonest
PROPERTIES
    VerdictsHold
    EveryRequestEnds
