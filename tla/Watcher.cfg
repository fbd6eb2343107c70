SPECIFICATION FairSpec
CONSTANTS
    Fresh = 1
    Settle = 2
    Slack = 2
    Throttle = 0
    MaxDraw = 5
    MaxHold = 3
    MaxSize = 2
    MaxRestarts = 1
INVARIANTS
    TypeOK
    RestIsFinal
PROPERTIES
    EventuallyFinal
