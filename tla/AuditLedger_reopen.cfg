SPECIFICATION Spec
CONSTANTS
    segment_max_records = 2
    checkpoint_every = 3
    Ops = {"append", "checkpoint"}
    Faults = {}
    Garbage = Garbage
    MaxStamps = 5
    MaxCrashes = 2
INVARIANTS
    OpenSucceeds
