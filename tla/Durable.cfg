SPECIFICATION DurableSpec
CONSTANTS
    segment_max_records = 3
    checkpoint_every = 2
    Ops = {"append", "checkpoint"}
    Faults = {"roll", "write_none"}
    Garbage = Garbage
    MaxStamps = 6
    MaxCrashes = 2
    e1 = e1
    e2 = e2
    native = native
    line = line
    stream = stream
    Events = {e1, e2}
    Pushes = {native, line, stream}
    Rows <- MCRows
    Via <- MCVia
    DedupSizes = {0, 2}
    ChannelCap = 1
    MaxCoalesce = 2
    MaxRequests = 3
    MaxFaults = 1
    LogRecords = 4
    AuditRecords = {2, 3}
    Batch = 1
    MaxAttempts = 1
    MaxLogs = 2
    MaxStops = 1
    MaxRuns = 2
    MaxRefusals = 1
    v1 = v1
    v2 = v2
    v3 = v3
    v4 = v4
    CursorEvents = {v1, v2, v3, v4}
    Stamp <- MCStamp
    SCAN = 3
    MaxCursorFaults = 1
INVARIANTS
    ChainVerifies
    AckedDurable
    LossBelowCheckpointDetected
    AckedUnlessForgotten
    StoredOnce
    SpooledIsKept
    NothingPassedOver
PROPERTIES
    RefinesAuditLog
    RequestAnswered
    AckedIsEvaluated
    SpooledArrives
    
