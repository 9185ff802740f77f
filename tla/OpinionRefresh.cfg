SPECIFICATION Spec
CONSTANTS
    c1 = c1
    c2 = c2
    t1 = t1
    t2 = t2
    t3 = t3
    text = text
    html = html
    plain = plain
    Absent = Absent
    Null = Null
    Client <- MCClient
    Token <- MCToken
    Content <- MCContent
    Representation <- BothRepresentations
    Skew <- MCSkew
    CallerOrder = "other"
    PositiveFreshness = 1
    NegativeFreshness = 1
    ReversalConfirmation = 1
    Lease = 1
    MaxClock = 1
SYMMETRY Symmetry
INVARIANTS
    EvidenceStored
    OneObjectPerContent
    AnswersAreCurrent
PROPERTIES
    ImplementsRecord
    AbsenceSuppressesRetained
    NegativeLasts
CHECK_DEADLOCK FALSE
