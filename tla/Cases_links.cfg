SPECIFICATION Spec
CONSTANTS
    MaxCases = 2
    Analysts = {}
    Notes = {}
    Tags = {}
    MaxDetections = 2
    MaxEdits = 1
    MaxCrashes = 0
    Prunes = {}
    Faults = {}
INVARIANTS
    LinksMutual
CHECK_DEADLOCK FALSE
