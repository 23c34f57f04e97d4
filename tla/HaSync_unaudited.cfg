SPECIFICATION Spec
CONSTANTS
    a = a
    b = b
    Nodes = {a, b}
    FirstWriter = a
    QuietShips = TRUE
    Faults = {}
    MaxEpoch = 1
    MaxShips = 1
    MaxCommits = 1
    MaxStops = 0
    MaxPullStops = 0
INVARIANTS
    PromotionAudited
CHECK_DEADLOCK FALSE
