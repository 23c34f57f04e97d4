SPECIFICATION Spec
CONSTANTS
    a = a
    b = b
    Nodes = {a, b}
    FirstWriter = a
    QuietShips = TRUE
    Faults = {}
    MaxEpoch = 1
    MaxShips = 3
    MaxCommits = 1
    MaxStops = 1
    MaxPullStops = 0
PROPERTIES
    HistoryKept
CHECK_DEADLOCK FALSE
