SPECIFICATION OperationsSpec
CONSTANTS
    Garbage = Garbage
    Epochs = {1, 2, 3}
    Seqs = {0, 1, 2, 3}
    MissingCap = 1
    EpochCap = 1
    MarkCap = 1
    MaxMarks = 4
    MaxMinutes = 2
    MaxPoints = 2
    MaxImages = 1
    MaxRestores = 1
    MaxStops = 1
    MaxTroubles = 2
    Grace = 2
    Keep = 1
    MaxDirs = 2
    MaxFiles = 2
    MaxClock = 3
    MaxCaptures = 3
    f1 = f1
    low = low
    inv = inv
    va = va
    vb = vb
    an = an
    Facts = {f1}
    HighImpact = {}
    Values = {va, vb}
    Sources = {low, inv}
    Asserted = {inv}
    Batches = {"learner", "import"}
    Trust <- MCTrust
    Quarantine = 1
    AssertedQuarantine = 0
    MinObservations = 2
    MinSources = 2
    MaxShare = 80
    Ttl = 0
    Analysts = {an}
    MaxNow = 2
    MaxSightings = 1
    MaxTransitions = 2
    r1 = r1
    r2 = r2
    da = da
    db = db
    ad1 = ad1
    ad2 = ad2
    Versions = {r1, r2}
    Digests = {da, db}
    Channels = {"production", "staging"}
    Admins = {ad1, ad2}
    MaxPromotions = 2
    MaxStamp = 4
    none = none
    c1 = c1
    c2 = c2
    b1 = b1
    b2 = b2
    ed1 = ed1
    ed2 = ed2
    Bases = {b1, b2}
    Bodies = {none, c1, c2}
    Empty = none
    Accepts <- MCAccepts
    Editors = {ed1, ed2}
    MaxRevisions = 3
    MaxEdits = 1
    MaxMishaps = 1
SYMMETRY MCSymmetry
INVARIANTS
    DamageIsVisible
    
    RestoredIsFenced
    NothingDeleted
    
    
    ActiveIsLatest
    
PROPERTIES
    SnapshotCaptured
    RecoveryPointKept
    
