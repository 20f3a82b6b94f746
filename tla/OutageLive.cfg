CONSTANTS
    Threshold = 2
    MaxTime = 3
    MaxClock = 2
    MaxRemovals = 1
    MaxFaults = 1
    CacheTTL = 1
    FutureSkew = 1
SPECIFICATION FairSpec
PROPERTY SweepRepairs
