--------------------------- MODULE FundsMergeProofs ---------------------------
(***************************************************************************)
(* Proof that checkActive's loop implements the atomic check of FundsMerge *)
(* for any set of requests.  A read of an inactive request is a stutter of *)
(* FundsMerge; the read that finds an active request, or the end of the   *)
(* loop, is FundsMerge's checkActive.  That is sound because every request *)
(* the loop has read is still inactive when it decides: active only goes  *)
(* from TRUE to FALSE, and m.reqs does not change once the drain has run. *)
(* The invariant LInv carries that, and that before the drain no cancel   *)
(* goroutine is in a checkActive (no request has a merge parent yet), so  *)
(* the drain's m.reqs cannot invalidate a loop already under way.         *)
(***************************************************************************)
EXTENDS FundsMergeLoop, TLAPS

\* Before the drain, no merge exists.
NoMergeYet ==
    qpc = "queue" => \A r \in Reqs : ~parent[r] /\ cpc[r] # "check"

\* A cancel goroutine's checkActive has read only requests of m.reqs that
\* are, and stay, inactive.
CancelLoopSound ==
    \A r \in Reqs : cpc[r] = "check" =>
        /\ unread[r] \subseteq mreqs
        /\ \A q \in mreqs \ unread[r] : ~active[q]

\* Likewise for newMergedFundsReq's checkActive, which runs once every
\* merge parent is set.
QueueLoopSound ==
    qpc = "check" =>
        /\ todo = {}
        /\ qunread \subseteq mreqs
        /\ \A q \in mreqs \ qunread : ~active[q]

LInv == TypeOK /\ todo \subseteq mreqs /\ NoMergeYet
          /\ CancelLoopSound /\ QueueLoopSound

LEMMA InitLInv == Init => LInv
BY DEF Init, LInv, TypeOK, NoMergeYet, CancelLoopSound, QueueLoopSound,
       CancelPcs, QueuePcs

LEMMA LInvNext == LInv /\ [Next]_vars => LInv'
<1> SUFFICES ASSUME LInv, [Next]_vars PROVE LInv'
  OBVIOUS
<1> USE DEF LInv, TypeOK, NoMergeYet, CancelLoopSound, QueueLoopSound
<1>1. CASE Drain
  BY <1>1 DEF Drain, QueuePcs
<1>2. ASSUME NEW r \in Reqs, setMergeParent(r) PROVE LInv'
  BY <1>2 DEF setMergeParent, QueuePcs
<1>3. CASE newMergedCheck
  BY <1>3 DEF newMergedCheck, QueuePcs
<1>4. CASE queueRead
  BY <1>4 DEF queueRead, QueuePcs
<1>5. CASE queueCancel
  BY <1>5 DEF queueCancel, QueuePcs
<1>6. ASSUME NEW r \in Reqs, cancel(r) PROVE LInv'
  BY <1>6 DEF cancel, CancelPcs
<1>7. ASSUME NEW r \in Reqs, cancelRead(r) PROVE LInv'
  BY <1>7 DEF cancelRead, CancelPcs
<1>8. ASSUME NEW r \in Reqs, cancelEnd(r) PROVE LInv'
  BY <1>8 DEF cancelEnd, CancelPcs
<1>9. CASE UNCHANGED vars
  BY <1>9 DEF vars
<1>10. QED
  BY <1>1, <1>2, <1>3, <1>4, <1>5, <1>6, <1>7, <1>8, <1>9 DEF Next

-----------------------------------------------------------------------------
LEMMA InitMaps == Init => Atomic!Init
BY DEF Init, Atomic!Init

\* Every step of the loop is a step of FundsMerge or leaves its variables
\* unchanged.
LEMMA StepMaps == LInv /\ [Next]_vars => [Atomic!Next]_Atomic!vars
<1> SUFFICES ASSUME LInv, [Next]_vars PROVE [Atomic!Next]_Atomic!vars
  OBVIOUS
<1> USE DEF LInv, TypeOK
<1>1. CASE Drain
  <2> Atomic!Drain
    BY <1>1 DEF Drain, Atomic!Drain
  <2> QED
    BY DEF Atomic!Next
<1>2. ASSUME NEW r \in Reqs, setMergeParent(r) PROVE [Atomic!Next]_Atomic!vars
  <2> Atomic!setMergeParent(r)
    BY <1>2 DEF setMergeParent, Atomic!setMergeParent
  <2> QED
    BY DEF Atomic!Next
<1>3. CASE newMergedCheck
  BY <1>3 DEF newMergedCheck, Atomic!vars
<1>4. CASE queueRead
  <2>1. PICK q \in qunread :
          IF active[q]
          THEN qpc' = "merged" /\ qunread' = {}
          ELSE qpc' = qpc /\ qunread' = qunread \ {q}
    BY <1>4 DEF queueRead
  <2>2. CASE active[q]
    <3> Atomic!newMergedCheck
      BY <1>4, <2>1, <2>2 DEF queueRead, QueueLoopSound, Atomic!newMergedCheck,
                              Atomic!checkActive
    <3> QED
      BY DEF Atomic!Next
  <2>3. CASE ~active[q]
    BY <1>4, <2>1, <2>3 DEF queueRead, Atomic!vars
  <2> QED
    BY <2>2, <2>3
<1>5. CASE queueCancel
  <2> Atomic!newMergedCheck
    BY <1>5 DEF queueCancel, QueueLoopSound, Atomic!newMergedCheck,
                Atomic!checkActive
  <2> QED
    BY DEF Atomic!Next
<1>6. ASSUME NEW r \in Reqs, cancel(r) PROVE [Atomic!Next]_Atomic!vars
  <2> Atomic!cancel(r)
    BY <1>6 DEF cancel, Atomic!cancel
  <2> QED
    BY DEF Atomic!Next
<1>7. ASSUME NEW r \in Reqs, cancelRead(r) PROVE [Atomic!Next]_Atomic!vars
  <2>1. PICK q \in unread[r] :
          IF active[q]
          THEN cpc' = [cpc EXCEPT ![r] = "done"] /\ unread' = [unread EXCEPT ![r] = {}]
          ELSE cpc' = cpc /\ unread' = [unread EXCEPT ![r] = @ \ {q}]
    BY <1>7 DEF cancelRead
  <2>2. CASE active[q]
    <3> Atomic!cancelCheck(r)
      BY <1>7, <2>1, <2>2 DEF cancelRead, CancelLoopSound, Atomic!cancelCheck,
                              Atomic!checkActive
    <3> QED
      BY DEF Atomic!Next
  <2>3. CASE ~active[q]
    BY <1>7, <2>1, <2>3 DEF cancelRead, Atomic!vars
  <2> QED
    BY <2>2, <2>3
<1>8. ASSUME NEW r \in Reqs, cancelEnd(r) PROVE [Atomic!Next]_Atomic!vars
  <2> Atomic!cancelCheck(r)
    BY <1>8 DEF cancelEnd, CancelLoopSound, Atomic!cancelCheck, Atomic!checkActive
  <2> QED
    BY DEF Atomic!Next
<1>9. CASE UNCHANGED vars
  BY <1>9 DEF vars, Atomic!vars
<1>10. QED
  BY <1>1, <1>2, <1>3, <1>4, <1>5, <1>6, <1>7, <1>8, <1>9 DEF Next

\* The refinement checked by the merge_main run, for every set of requests:
\* checkActive's loop, with cancels between its reads, behaves as the one
\* atomic check of FundsMerge.
THEOREM ImplementsFundsMergeHolds == Spec => ImplementsFundsMerge
<1>1. Spec => []LInv
  BY InitLInv, LInvNext, PTL DEF Spec
<1>2. QED
  BY <1>1, InitMaps, StepMaps, PTL DEF Spec, ImplementsFundsMerge, Atomic!Spec

====
