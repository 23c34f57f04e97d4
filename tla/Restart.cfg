SPECIFICATION RestartSpec
CONSTANTS
    a = a
    Nodes = {a}
    FirstWriter = a
    QuietShips = TRUE
    Faults = {}
    MaxEpoch = 1
    MaxShips = 3
    MaxCommits = 2
    MaxStops = 1
    MaxPullStops = 1
    Hunts = 2
    schedule_secs = 2
    Api = {"hunt"}
    Triages = {}
    Cap = 2
    Worst = 1
    MaxCost = 1
    Costs = {1}
    max_iterations = 1
    DayLength = 3
    MaxTime = 3
    MaxStarts = 0
    MaxTrouble = 1
    SlaCases = {1, 2}
    ack_minutes = 1
    resolve_minutes = 2
    MaxMinutes = 2
    MaxSlaEdits = 3
    MaxSlaTrouble = 1
PROPERTIES
    FencedWriterStops
    FollowerConverges
    DueHuntRuns
    BreachToldOnce
CHECK_DEADLOCK FALSE
