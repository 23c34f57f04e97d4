SPECIFICATION Spec
CONSTANTS
    MaxCases = 1
    Analysts = {"ann"}
    Notes = {"note"}
    Tags = {"tag"}
    MaxDetections = 3
    MaxEdits = 2
    MaxCrashes = 0
    Prunes = {}
    Faults = {}
INVARIANTS
    ClosedStaysClosed
CHECK_DEADLOCK FALSE
