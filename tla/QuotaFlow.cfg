SPECIFICATION ClientsSpec
CONSTANTS
    t1 = t1
    t2 = t2
    t3 = t3
    c1 = c1
    c2 = c2
    user = user
    citations = citations
    apiUsage = apiUsage
    Null = Null
    Token <- MCToken
    Client <- MCClient
    Window <- MCWindow
    ScopeOf <- MCScopeOf
    Limit <- MCLimit
    UsageReports = {}
    RetryAfters = {1}
    Outcomes = {"transport_error"}
    Lease = 2
    FirstOpen = 3
    MaxOpen = 4
    SyncInterval = 2
    MaxPending = 2
    Ahead = 0
    Behind = 0
    Period = 3
    MaxClock = 3
SYMMETRY Symmetry
INVARIANTS
    ClientsIInv
    AllowanceCovered
    NoRequestStorm
