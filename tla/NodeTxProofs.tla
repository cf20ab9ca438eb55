---------------------------- MODULE NodeTxProofs ----------------------------
(***************************************************************************)
(* Proof that no successful Put is lost by the node's transaction          *)
(* handlers, for any set of callers and keys.  NoLostPuts is inductive:    *)
(* Put only grows the staged set, and the one step that drops the staged   *)
(* set (Commit's success path) records it in the Index first.             *)
(***************************************************************************)
EXTENDS NodeTx, TLAPS

\* Put, Commit and Get (whatever their outcome), and the steps after
\* txmu, never lose a key whose Put reported success.
LEMMA NoLostPutsNext ==
    ASSUME NoLostPuts, [Next]_vars
    PROVE  NoLostPuts'
<1> USE DEF NoLostPuts
<1>1. ASSUME NEW c \in Callers, Call(c) PROVE NoLostPuts'
  BY <1>1 DEF Call
<1>2. ASSUME NEW c \in Callers, Put(c) PROVE NoLostPuts'
  BY <1>2 DEF Put
<1>3. ASSUME NEW c \in Callers, Status(c) PROVE NoLostPuts'
  BY <1>3 DEF Status
<1>4. ASSUME NEW c \in Callers, Commit(c) PROVE NoLostPuts'
  BY <1>4 DEF Commit, NoTx
<1>5. ASSUME NEW c \in Callers, CommitGC(c) PROVE NoLostPuts'
  BY <1>5 DEF CommitGC
<1>6. ASSUME NEW c \in Callers, Get(c) PROVE NoLostPuts'
  BY <1>6 DEF Get
<1>7. ASSUME NEW c \in Callers, GetLoad(c) PROVE NoLostPuts'
  BY <1>7 DEF GetLoad
<1>8. CASE UNCHANGED vars
  BY <1>8 DEF vars
<1>9. QED
  BY <1>1, <1>2, <1>3, <1>4, <1>5, <1>6, <1>7, <1>8 DEF Next

\* The invariant checked by the nodetx_main run, for every instance.
THEOREM NoLostPutsHolds == Spec => []NoLostPuts
<1>1. Init => NoLostPuts
  BY DEF Init, NoLostPuts
<1>2. QED
  BY <1>1, NoLostPutsNext, PTL DEF Spec

=============================================================================
