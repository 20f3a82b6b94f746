\* A push that fails after bounds enforcement dropped read records.
SPECIFICATION FairSpec
CONSTANTS
    MaxDropped = 4
    WriteFaults = {}
    MaxRecords = 4
    SegMax = 2
    MaxBytes = 3
    BatchSize = 2
    Aging = FALSE
    RemoveFaults = FALSE
    MaxCrashes = 0
PROPERTY EventuallyDelivered
CHECK_DEADLOCK FALSE
