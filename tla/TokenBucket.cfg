SPECIFICATION Spec
CONSTANTS
    Callers = {c1, c2}
    Unit = 3
    Rate = 2
    Capacity = 2
    Slack = 0
    MaxTime = 7
INVARIANTS
    TypeOK
    RateBound
    NapSuffices
SYMMETRY Symmetry
