\* Every write of the enrollment may be interrupted, the second one of the key
\* included.
SPECIFICATION IdentitySpec
CONSTANTS
    Algs = {"mldsa", "ecdsa"}
    Validity = 60
    HalfMinute = 1
    Day = 2
    RenewTimeout = 0
    MaxOutage = 15
    TornFiles = {"stageKey", "stageCSR", "writeKey", "writeCA"}
INVARIANT EnrollmentRetryable
CHECK_DEADLOCK FALSE
