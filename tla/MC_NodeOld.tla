------------------------------ MODULE MC_NodeOld ------------------------------
EXTENDS NodeOld, TLC

CONSTANTS k1, k2

MCKeys == {k1, k2}

MCSymmetry == Permutations(MCKeys)
=============================================================================
