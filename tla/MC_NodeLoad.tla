----------------------------- MODULE MC_NodeLoad -----------------------------
EXTENDS NodeLoad, TLC

CONSTANTS q1, q2

MCProviders == {q1, q2}
MCMaxLoads == 3

MCSymmetry == Permutations(MCProviders)
=============================================================================
