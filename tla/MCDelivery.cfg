\* An outage of the server or the agent, within the bounds of the spool.  Two
\* server processes sweep.
SPECIFICATION MCSpec
CONSTANTS
    MaxDropped = 3
    WriteFaults = {}
    MaxRecords = 3
    SegMax = 2
    MaxBytes = 3
    BatchSize = 2
    Aging = FALSE
    RemoveFaults = FALSE
    MaxCrashes = 1
    Sweepers = {"a", "b"}
    TouchEvery = 1
    SeenGrace = 2
    Cadences = {0, 1}
    ClockSkew = 1
    MaxLag = 1
PROPERTIES
    EventuallyDelivered
    OfflineFollowsSilence
CHECK_DEADLOCK FALSE
