SPECIFICATION MCSpec
CONSTANTS
    Issuers = {p1, p2}
    Revokers = {r1, r2}
    Serials = {s1, s2, s3}
    CSRs = {c1, c2}
    RPCs = {q1, q2}
    CacheTTL = 2
    SweepEvery = 2
    Latency = 1
    MaxClock = 9
    Values = {v1, v2}
    RebuildEvery = 2
    MaxWrites = 2
    MaxFaults = 2
    Threshold = 3
    MaxTime = 9
INVARIANTS
    RevocationIsFinal
    TokenEnrollsOnce
    RevocationTakesEffect
    VersionCoversBuild
    ServerKnowsAgent
    CacheNotStale
    EventsMatchHistory
    EventRowsConsistent
PROPERTIES
    MintedOnStandingCredential
    ConfigConverges
