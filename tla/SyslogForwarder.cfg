SPECIFICATION ForwarderFairSpec
CONSTANTS
    Threads = {t1}
    QueueSize = 2
    MaxPuts = 1
    MaxConns = 2
    MaxRecords = 2
INVARIANT RingFits
PROPERTIES SinkIsLossyFifo StopEnds
CHECK_DEADLOCK FALSE
