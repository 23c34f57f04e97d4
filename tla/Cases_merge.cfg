SPECIFICATION Spec
CONSTANTS
    MaxCases = 1
    Analysts = {"ann"}
    Notes = {"note"}
    Tags = {"tag"}
    MaxDetections = 2
    MaxEdits = 1
    MaxCrashes = 1
    Prunes = {1}
    Faults = {"llm", "store"}
INVARIANTS
    CountIsExact
    AdditionsKept
PROPERTIES
    CaseSettles
CHECK_DEADLOCK FALSE
