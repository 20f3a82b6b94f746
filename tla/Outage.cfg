CONSTANTS
    Threshold = 2
    MaxTime = 4
    MaxClock = 3
    MaxRemovals = 1
    MaxFaults = 1
    CacheTTL = 1
    FutureSkew = 1
SPECIFICATION Spec

    
PROPERTY
    AcceptanceConverges
