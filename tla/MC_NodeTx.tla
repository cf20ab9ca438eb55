------------------------------- MODULE MC_NodeTx -------------------------------
(* Two concurrent RPC callers and two file keys. *)
EXTENDS NodeTx, TLC

CONSTANTS c1, c2, k1, k2

MCCallers == {c1, c2}
MCKeys == {k1, k2}
MCSymmetry == Permutations(MCCallers)

=============================================================================
