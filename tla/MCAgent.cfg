\* A 30-day certificate in ticks of twelve hours, outages of 7.5 days.
\* Three goroutines of one probe.  Watchdog ticks: a limit of five, probes up to
\* four ticks apart.
SPECIFICATION MCSpec
CONSTANTS
    Algs = {"mldsa", "ecdsa"}
    Validity = 60
    HalfMinute = 1
    Day = 2
    RenewTimeout = 0
    MaxOutage = 15
    TornFiles = {"stageKey", "stageCSR", "writeCA"}
    Probes = {"p"}
    Specs = {"a", "b"}
    Retiring = {"p"}
    StandIns = {}
    Slots = 3
    Limit = 5
    Intervals = {0, 2, 4}
    Detect = 3
    MaxDropped = 4
    WriteFaults = {"open"}
    MinSize = 3
    MaxSize = 18
    MtuFloor = 2
    Mtus = {0, 2, 7, 17, 18}
    Locals = {2, 9, 18}
    Retries = 2
INVARIANTS
    IdentityLasts
    EnrollmentRetryable
    WorkersEndClean
    RestartsWhenUseful
    TotalIsExact
    CountedOnce
    SearchIsSound
PROPERTIES
    StopReturns
    ResetOnlyAfterWipe
CHECK_DEADLOCK FALSE
