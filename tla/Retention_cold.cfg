SPECIFICATION Spec
CONSTANTS
    Rows <- MCRows
    Backlog <- MCBacklog
    Stragglers <- MCStragglers
    Windows = {0, 1}
    Predicates <- MCPredicates
    RetentionDays = 0
    HotDays = 1
    MaxNow = 2
    MaxCommands = 2
    MaxFaults = 1
INVARIANTS
    RowsKept
    CertificateTrue
PROPERTIES
    HoldStands
    AgedIsSealed
CHECK_DEADLOCK FALSE
