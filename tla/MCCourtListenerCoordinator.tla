--------------------- MODULE MCCourtListenerCoordinator ---------------------
EXTENDS CourtListenerCoordinator, TLC

CONSTANTS t1, t2, t3, user, citations, apiUsage

MCToken == {t1, t2, t3}
MCTokenPair == {t1, t2}
MCWindow == {user, citations, apiUsage}
MCScopeOf ==
    (user :> "user") @@ (citations :> "citations") @@ (apiUsage :> "api_usage")
MCLimit == [w \in MCWindow |-> IF w = apiUsage THEN 1 ELSE 5]

Report(remaining, resetIn) == [remaining |-> remaining, resetIn |-> resetIn]

\* Room for the failures that open a circuit and the probes that follow.
RoomyReports ==
    {(user :> Report(5, Null)) @@ (citations :> Report(5, Null)) @@ (apiUsage :> Report(1, Null))}

\* A last citation and a last usage request, which a reset renews.
TightReports ==
    {(user :> Report(2, Null)) @@ (citations :> Report(1, Null)) @@ (apiUsage :> Report(1, 2))}

TokenSymmetry == Permutations(MCToken)
PairSymmetry == Permutations(MCTokenPair)
=============================================================================
