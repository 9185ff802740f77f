SPECIFICATION Spec
CONSTANTS
    c1 = c1
    c2 = c2
    t1 = t1
    t2 = t2
    t3 = t3
    opinion = opinion
    Absent = Absent
    Null = Null
    Client <- MCClient
    Token <- MCToken
    Cluster <- MCCluster
    Skew <- MCSkew
    PositiveFreshness = 1
    NegativeFreshness = 1
    ReversalConfirmation = 1
    Lease = 2
    MaxClock = 2
SYMMETRY Symmetry
INVARIANTS
    AnswersAreCurrent
    OneFetchPerLease
    PositiveKept
    ReversalConfirmed
PROPERTIES
    ImplementsRecord
    FetchOnlyWhenNeeded
