--------------------------- MODULE MCCitationCache ---------------------------
EXTENDS CitationCache, TLC

CONSTANTS c1, c2, t1, t2, t3, opinion

MCClient == {c1, c2}
MCToken == {t1, t2, t3}
MCCluster == {opinion}
MCSkew == (c1 :> 0) @@ (c2 :> 1)

Symmetry == Permutations(MCToken)
=============================================================================
