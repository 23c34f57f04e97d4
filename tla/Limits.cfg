SPECIFICATION LimitsSpec
CONSTANTS
    a = a
    b = b
    Nodes = {a, b}
    FirstWriter = a
    QuietShips = TRUE
    Faults = {"lease", "manifest", "upload"}
    MaxEpoch = 1
    MaxShips = 2
    MaxCommits = 1
    MaxStops = 0
    MaxPullStops = 1
    t1 = t1
    t2 = t2
    Hunts = 1
    schedule_secs = 2
    Api = {"ask"}
    Triages = {t1, t2}
    Cap = 4
    Worst = 2
    MaxCost = 3
    Costs = {1, 3}
    max_iterations = 1
    DayLength = 1
    MaxTime = 1
    MaxStarts = 2
    MaxTrouble = 1
INVARIANTS
    OneHolderPerEpoch
    LedgerCovers
    CapBound
CHECK_DEADLOCK FALSE
