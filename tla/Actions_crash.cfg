SPECIFICATION ActionSpec
CONSTANTS
    x = x
    y = y
    z = z
    Ids = {x, z}
    Attested = {x}
    Templated = {x, z}
    ActionFaults = {"store", "start"}
    MaxRequests = 1
    MaxJudgements = 1
    MaxCrashes = 1
INVARIANTS
    OnlyApprovedRuns
PROPERTIES
    ApprovedSettles
CHECK_DEADLOCK FALSE
