---------------------------- MODULE MC_Replication ----------------------------
EXTENDS Replication, TLC

CONSTANTS p1, p2, p3, o1

MCProviders == {p1, p2, p3}
MCClients == {o1}
MCRF == 2
MCMaxAttempts == 2

MCSymmetry == Permutations(MCProviders)
=============================================================================
