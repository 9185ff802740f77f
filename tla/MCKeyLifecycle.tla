--------------------------- MODULE MCKeyLifecycle ---------------------------
EXTENDS KeyLifecycle, TLC

CONSTANTS k1, k2, k3, customer, o1, o2

MCPublicId == {k1, k2, k3}
MCCustomer == {customer}
MCOperator == {o1, o2}
MCAsked == {1, 2}

Symmetry == Permutations(MCPublicId) \cup Permutations(MCOperator)
=============================================================================
