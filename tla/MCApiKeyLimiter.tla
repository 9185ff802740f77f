-------------------------- MODULE MCApiKeyLimiter --------------------------
EXTENDS ApiKeyLimiter, TLC

CONSTANTS c1, c2

MCCaller == {c1, c2}
Allow(minute, day) == [minute |-> minute, day |-> day]
MCLimitChoices == {Allow(1, 2), Allow(2, 3)}
MCMaximumLimits == Allow(2, 3)

CallerSymmetry == Permutations(MCCaller)
=============================================================================
