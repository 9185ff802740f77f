SPECIFICATION Spec
CONSTANTS
    t1 = t1
    t2 = t2
    t3 = t3
    user = user
    citations = citations
    apiUsage = apiUsage
    Null = Null
    Token <- MCToken
    Window <- MCWindow
    ScopeOf <- MCScopeOf
    Limit <- MCLimit
    UsageReports <- RoomyReports
    RetryAfters = {}
    Outcomes = {"success", "timeout", "transport_error"}
    Lease = 2
    FirstOpen = 3
    MaxOpen = 4
    SyncInterval = 20
    MaxPending = 2
    Ahead = 1
    Behind = 0
    MaxClock = 7
SYMMETRY TokenSymmetry
INVARIANTS
    SingleProbe
    OpenDrains
