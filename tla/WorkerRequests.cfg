SPECIFICATION FairSpec
CONSTANTS
    Opinion = {1, 2}
    Source <- MCSource
    Known <- MCKnown
    Absent = Absent
    Null = Null
    PositiveFreshness = 1
    NegativeFreshness = 1
    ReversalConfirmation = 1
    MaxClock = 1
    MaxChanges = 1
    MaxBody = 1
    MaxIdBytes = 1
    MaxIdChunks = 2
CHECK_DEADLOCK FALSE
INVARIANTS
    IInv
    NotFoundIsComplete
    VerifiedIsWitnessed
    EvidenceOutlivesOutage
    FailuresAreExplained
PROPERTIES
    ContradictionsReported
    OnlyAdmittedCalled
    RequestsAreAnswered
