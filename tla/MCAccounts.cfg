SPECIFICATION AccountsFairSpec
CONSTANTS
    Procs = {p1, p2}
    Locals = {1, 2, 3}
    Feds = {4, 5}
    FirstAdmins = {1, 2}
    Providers = {"idp1"}
    Networks = {"n1", "n2"}
    ClaimSets <- MCClaimSets
    Policies <- MCPolicies
    Requests <- MCRequests
    MaxJobs = 3
INVARIANTS
    
    SecretStaysWithProvider
PROPERTIES
    LastAdminKept
    RequestsEnd
CHECK_DEADLOCK FALSE
