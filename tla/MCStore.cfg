SPECIFICATION MCSpec
CONSTANTS
    p1 = p1
    p2 = p2
    Admins = {p1, p2}
    Sites = {"s1", "s2", "s3"}
    Planes = {"n1", "n2"}
    Default = "n1"
    Templates = {"t1", "t2"}
    FirstMembers = {"s1", "s2", "s3"}
    LateAgents <- MCLateAgents
    Bodies <- MCBodies
    MaxMesh = 2
    MaxRequests = 3
    Callers = {p1, p2}
    SiteNames = {"s"}
    NetNames = {"n"}
    Tokens <- MCTokens
    MaxRow = 2
    MaxCalls = 5
    Requests <- MCRequests
    DurationLimit = 128
    Txs = {p1, p2}
    Readings = {u, v}
    MaxTime = 3
    MaxRemovals = 1
SYMMETRY MCSymmetry
INVARIANTS
    CacheFresh
    
    
    
    ChangesRecorded
PROPERTIES
    NothingStranded
    ScopedWrite
CHECK_DEADLOCK FALSE
