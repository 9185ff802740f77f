SPECIFICATION Spec
CONSTANTS
    k1 = k1
    k2 = k2
    k3 = k3
    customer = customer
    o1 = o1
    o2 = o2
    None = None
    PublicId <- MCPublicId
    Customer <- MCCustomer
    Operator <- MCOperator
    Asked <- MCAsked
    DefaultLimits = 1
    MaximumLimits = 2
    Lifetime = 2
    Overlap = 1
    Year = 1
    MaxRequests = 4
    MaxClock = 4
SYMMETRY Symmetry
INVARIANTS
    RowsAgree
    RevocationIsFinal
    OverlapIsShort
PROPERTIES
    LimitsAreInherited
    EventsAreTrue
    VersionNamesLimits
