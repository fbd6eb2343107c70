SPECIFICATION Spec
CONSTANTS
    Fresh = 1
    Settle = 3
    Slack = 2
    Throttle = 1
    MaxDraw = 0
    MaxHold = 5
    MaxSize = 1
    MaxRestarts = 0
INVARIANTS
    SpinnerLeaves
