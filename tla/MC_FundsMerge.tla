---------------------------- MODULE MC_FundsMerge ----------------------------
(* Three funds requests queued on one channel. *)
EXTENDS FundsMergeLoop, TLC

CONSTANTS r1, r2, r3

MCReqs == {r1, r2, r3}
MCSymmetry == Permutations(MCReqs)
=============================================================================
