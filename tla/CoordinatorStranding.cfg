SPECIFICATION Spec
CONSTANTS
    t1 = t1
    t2 = t2
    t3 = t3
    user = user
    citations = citations
    apiUsage = apiUsage
    Null = Null
    Token <- MCTokenPair
    Window <- MCWindow
    ScopeOf <- MCScopeOf
    Limit <- MCLimit
    UsageReports <- TightReports
    RetryAfters = {1, 3}
    Outcomes = {"success"}
    Lease = 2
    FirstOpen = 3
    MaxOpen = 4
    SyncInterval = 2
    MaxPending = 2
    Ahead = 1
    Behind = 0
    MaxClock = 4
SYMMETRY PairSymmetry
INVARIANT ExhaustedUntilReset
