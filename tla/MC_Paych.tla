------------------------------- MODULE MC_Paych -------------------------------
(***************************************************************************)
(* Model-checking instance of Paych, with the invariants of its proofs:   *)
(* three funds requests from concurrent callers, amounts 1 and 2, and     *)
(* enough message ids for every request to be sent in a message of its   *)
(* own.                                                                   *)
(***************************************************************************)
EXTENDS PaychFundsProofs, TLC

CONSTANTS r1, r2, r3

MCReqs == {r1, r2, r3}

MCAmounts == {1, 2}

MCMaxMsgs == 3

\* The requests are interchangeable model values.
MCSymmetry == Permutations(MCReqs)

=============================================================================
