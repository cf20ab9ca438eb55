---------------------------- MODULE NodeOldProofs ----------------------------
(***************************************************************************)
(* Proof that the older node's Push only makes storage deals for commits   *)
(* the Index holds, for any set of keys.  DealsIndexed is not inductive by *)
(* itself: Push with no ref pushes nd.lastRef, so the proof also carries   *)
(* that lastRef, once set, is a root the Index holds (Pack sets it only    *)
(* after SetRef succeeded, and nothing removes a root from the Index).     *)
(***************************************************************************)
EXTENDS NodeOld, TLAPS

\* nd.lastRef is nil or a root of the Index.
LastRefIndexed == lastRef # NoRef => lastRef \in index

OldInv == DealsIndexed /\ LastRefIndexed

\* getCommit only returns roots the Index holds.
LEMMA CommitsIndexed ==
    ASSUME LastRefIndexed, NEW r
    PROVE  Commits(r) \subseteq index
BY DEF LastRefIndexed, Commits

LEMMA OldInvNext ==
    ASSUME OldInv, [Next]_vars
    PROVE  OldInv'
<1> USE DEF OldInv, DealsIndexed, LastRefIndexed
<1>1. ASSUME NEW k \in Keys, Add(k) PROVE OldInv'
  BY <1>1 DEF Add
<1>2. CASE Pack
  BY <1>2 DEF Pack
<1>3. ASSUME NEW r, Quote(r) PROVE OldInv'
  BY <1>3 DEF Quote
<1>4. ASSUME NEW r, Push(r) PROVE OldInv'
  <2>1. PICK com \in Commits(r) : deals' = deals \cup {com}
    BY <1>4 DEF Push
  <2>2. com \in index
    BY <2>1, CommitsIndexed
  <2>3. QED
    BY <1>4, <2>1, <2>2 DEF Push
<1>5. ASSUME NEW r, Get(r) PROVE OldInv'
  BY <1>5 DEF Get
<1>6. CASE UNCHANGED vars
  BY <1>6 DEF vars
<1>7. QED
  BY <1>1, <1>2, <1>3, <1>4, <1>5, <1>6 DEF Next

\* Push (with a ref, or with lastRef) only makes deals for commits the
\* Index holds, for every set of keys (checked by old_main).
THEOREM DealsIndexedHolds == Spec => []DealsIndexed
<1>1. Init => OldInv
  BY DEF Init, OldInv, DealsIndexed, LastRefIndexed
<1>2. OldInv => DealsIndexed
  BY DEF OldInv
<1>3. QED
  BY <1>1, <1>2, OldInvNext, PTL DEF Spec
=============================================================================
