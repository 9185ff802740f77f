----------------------- MODULE MCCourtListenerClients -----------------------
EXTENDS CourtListenerClients, TLC

CONSTANTS t1, t2, t3, c1, c2, user, citations, apiUsage

MCToken == {t1, t2, t3}
MCClient == {c1, c2}
MCWindow == {user, citations, apiUsage}
MCScopeOf ==
    (user :> "user") @@ (citations :> "citations") @@ (apiUsage :> "api_usage")
MCLimit == (user :> 2) @@ (citations :> 1) @@ (apiUsage :> 2)

Symmetry == Permutations(MCToken) \cup Permutations(MCClient)
=============================================================================
