SPECIFICATION Spec
CONSTANTS
    CharLimit = 3
    Mark = 1
    Pending = 1
    Width = 1
    Overhead = 1
    MaxElements = 6
    Budget = 10
    None = None
    Lines <- MCLines
    Styles = {"full", "minimal"}
    MaxLines = 3
    MaxTorn = 1
CHECK_DEADLOCK FALSE
INVARIANTS
    TypeOK
    LinesHandledOnce
    CapsAreHonest
PROPERTIES
    NothingVanishes
