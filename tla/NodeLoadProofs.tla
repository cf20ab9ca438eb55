---------------------------- MODULE NodeLoadProofs ----------------------------
(***************************************************************************)
(* Proofs about successive Loads, for any set of providers and any number  *)
(* of Loads: a Load reports Completed only after the root has its DataRef. *)
(*                                                                         *)
(* CompletedImpliesIndexed is not inductive: the step that sends           *)
(* "completed" (Completing) must know that the DataRef was set by the      *)
(* Transfer step that led to it.  LInv adds that the goroutine is in       *)
(* "completing" only with the root indexed, and that seen is a sequence of *)
(* results.                                                                 *)
(***************************************************************************)
EXTENDS NodeLoad, TLAPS

LInv ==
    /\ seen \in Seq(Results)
    /\ lpc = "completing" => indexed
    /\ CompletedImpliesIndexed

\* Appending a result other than "completed" adds no "completed".
LEMMA AppendOther ==
    ASSUME NEW s \in Seq(Results), NEW r \in Results, r # "completed"
    PROVE  /\ Append(s, r) \in Seq(Results)
           /\ (\E i \in 1..Len(Append(s, r)) : Append(s, r)[i] = "completed")
                => \E i \in 1..Len(s) : s[i] = "completed"
OBVIOUS

\* sendErr adds no "completed" to what the consumer saw.
LEMMA SendErrKeeps ==
    ASSUME seen \in Seq(Results), SendErr
    PROVE  /\ seen' \in Seq(Results)
           /\ (\E i \in 1..Len(seen') : seen'[i] = "completed")
                => \E i \in 1..Len(seen) : seen[i] = "completed"
BY AppendOther DEF SendErr, Results

LEMMA LInvNext == LInv /\ [Next]_vars => LInv'
<1> SUFFICES ASSUME LInv, [Next]_vars PROVE LInv'
  OBVIOUS
<1> USE DEF LInv, CompletedImpliesIndexed
<1>1. CASE Start
  <2>1. seen' \in {<<>>, <<"error">>} /\ lpc' \in {"lookup", "closed"}
        /\ UNCHANGED <<cached, indexed>>
    BY <1>1 DEF Start
  <2>2. seen' \in Seq(Results)
        /\ ~\E i \in 1..Len(seen') : seen'[i] = "completed"
    <3>1. CASE seen' = <<>>
      BY <3>1
    <3>2. CASE seen' = <<"error">>
      <4>1. "error" \in Results
        BY DEF Results
      <4>2. Len(seen') = 1 /\ seen'[1] = "error"
        BY <3>2
      <4>3. QED
        BY <3>2, <4>1, <4>2
    <3>3. QED
      BY <2>1, <3>1, <3>2
  <2>3. QED
    BY <2>1, <2>2
<1>2. CASE LookupGossip
  BY <1>2, SendErrKeeps DEF LookupGossip, ErrExit
<1>3. CASE LookupCached
  <2>1. CASE ErrExit /\ UNCHANGED offer
    BY <1>3, <2>1, SendErrKeeps DEF LookupCached, ErrExit
  <2>2. CASE seen' = Append(seen, "selected") /\ lpc' = "cachedTriage"
    BY <1>3, <2>2, AppendOther DEF LookupCached, Results
  <2>3. QED
    BY <1>3, <2>1, <2>2 DEF LookupCached, Send
<1>4. CASE MinerQuery
  BY <1>4, SendErrKeeps DEF MinerQuery
<1>5. CASE Triage
  <2>1. CASE ErrExit /\ UNCHANGED offer
    BY <1>5, <2>1, SendErrKeeps DEF Triage, ErrExit
  <2>2. CASE seen' = Append(seen, "selected") /\ lpc' = "ongoing"
    BY <1>5, <2>2, AppendOther DEF Triage, Results
  <2>3. QED
    BY <1>5, <2>1, <2>2 DEF Triage, Send
<1>6. CASE CachedTriage
  BY <1>6, SendErrKeeps DEF CachedTriage, ErrExit
<1>7. CASE Ongoing
  <2>1. CASE ErrExit
    BY <1>7, <2>1, SendErrKeeps DEF Ongoing, ErrExit
  <2>2. CASE seen' = Append(seen, "deal") /\ lpc' = "transfer"
    BY <1>7, <2>2, AppendOther DEF Ongoing, Results
  <2>3. QED
    BY <1>7, <2>1, <2>2 DEF Ongoing, Send
<1>8. CASE Transfer
  <2>1. CASE lpc' = "closed" /\ UNCHANGED <<cached, indexed, seen>>
    BY <1>8, <2>1 DEF Transfer
  <2>2. CASE ErrExit /\ UNCHANGED <<cached, indexed>>
    BY <1>8, <2>2, SendErrKeeps DEF Transfer, ErrExit
  <2>3. CASE /\ cached' = IF key = "" THEN offer ELSE cached
             /\ \/ indexed' = TRUE /\ lpc' = "completing" /\ UNCHANGED seen
                \/ ErrExit /\ UNCHANGED indexed
    <3>2. CASE indexed' = TRUE /\ lpc' = "completing" /\ UNCHANGED seen
      BY <3>2
    <3>3. CASE ErrExit /\ UNCHANGED indexed
      BY <3>3, SendErrKeeps DEF ErrExit
    <3>4. QED
      BY <2>3, <3>2, <3>3
  <2>4. QED
    BY <1>8, <2>1, <2>2, <2>3 DEF Transfer
<1>9. CASE Completing
  <2>1. CASE seen' = Append(seen, "completed") /\ lpc' = "cleanup"
    BY <1>9, <2>1 DEF Completing, Results
  <2>2. CASE ErrExit
    BY <1>9, <2>2, SendErrKeeps DEF Completing, ErrExit
  <2>3. QED
    BY <1>9, <2>1, <2>2 DEF Completing, Send
<1>10. CASE Cleanup
  BY <1>10 DEF Cleanup
<1>11. CASE Cancel
  BY <1>11 DEF Cancel
<1>12. CASE UNCHANGED vars
  BY <1>12 DEF vars
<1>13. QED
  BY <1>1, <1>2, <1>3, <1>4, <1>5, <1>6, <1>7, <1>8, <1>9, <1>10, <1>11,
     <1>12 DEF Next

THEOREM LInvariant == Spec => []LInv
<1>1. Init => LInv
  <2> SUFFICES ASSUME Init PROVE LInv
    OBVIOUS
  <2>1. seen = <<>> /\ lpc = "closed" /\ cached = NoOffer
    BY DEF Init
  <2>2. seen \in Seq(Results) /\ Len(seen) = 0
    BY <2>1
  <2>3. QED
    BY <2>1, <2>2 DEF LInv, CompletedImpliesIndexed
<1>2. QED
  BY <1>1, LInvNext, PTL DEF Spec

\* The invariant checked by the load_main run: a Load that reported
\* Completed had set the root's DataRef first, for every instance.
THEOREM CompletedImpliesIndexedHolds == Spec => []CompletedImpliesIndexed
BY LInvariant, PTL DEF LInv

=============================================================================
