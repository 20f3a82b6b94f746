\* Bounds by size and age, failing deletes and failing sidecar writes, one crash anywhere.
SPECIFICATION Spec
CONSTANTS
    MaxDropped = 4
    WriteFaults = {"drop", "ack", "open"}
    MaxRecords = 4
    SegMax = 2
    MaxBytes = 3
    BatchSize = 2
    Aging = TRUE
    RemoveFaults = TRUE
    MaxCrashes = 1
INVARIANTS
    
    WithinMaxBytes
CHECK_DEADLOCK FALSE
