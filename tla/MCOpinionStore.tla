--------------------------- MODULE MCOpinionStore ---------------------------
EXTENDS OpinionStore, TLC

CONSTANTS c1, c2, t1, t2, t3, text, html, plain

MCClient == {c1, c2}
MCToken == {t1, t2, t3}
MCContent == {text}
OneRepresentation == {html}
BothRepresentations == {html, plain}
MCSkew == (c1 :> 0) @@ (c2 :> 1)

Symmetry == Permutations(MCToken)
=============================================================================
