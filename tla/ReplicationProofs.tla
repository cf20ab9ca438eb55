-------------------------- MODULE ReplicationProofs --------------------------
(***************************************************************************)
(* Proofs about the replication of one root, for any providers, clients,   *)
(* RF and number of attempts: the type invariant, and that every PRecord   *)
(* Dispatch yields for a provider names one that was authorized and still *)
(* holds the root.                                                         *)
(*                                                                         *)
(* ConfirmedProvidersHold is not inductive: a step that forwards a         *)
(* confirmation from resChan, or a failed transfer that drops a DataRef,   *)
(* needs to know the state of the pull channels behind the confirmations.  *)
(* RInv records it: a provider in resChan or out has a completed pull, a   *)
(* provider with an open or completed pull holds the DataRef and is in     *)
(* pulls, and a Request in flight was sent to a provider whose channel is *)
(* not open yet (Dispatch never asks the same provider twice, rcv).        *)
(***************************************************************************)
EXTENDS Replication, TLAPS

\* The providers among the entries of s have a completed pull.
FromCompleted(s) ==
    \A i \in 1..Len(s) : s[i] \in Providers => chan[s[i]] = "completed"

RInv ==
    /\ TypeOK
    /\ pulls = rcv
    /\ inflight \subseteq rcv
    /\ Len(out) = n
    /\ dpc # "done" => n < RF
    /\ \A p \in Providers : chan[p] # "none" => p \in rcv /\ p \notin inflight
    /\ \A p \in Providers : chan[p] \in {"open", "completed"} => p \in provRef
    /\ FromCompleted(resChan)
    /\ FromCompleted(out)

USE ReplicationAssumption

LEMMA InitRInv == Init => RInv
BY DEF Init, RInv, TypeOK, FromCompleted, ChanStates, DispatchPcs

LEMMA RoundRInv == RInv /\ DispatchRound => RInv'
<1> SUFFICES ASSUME RInv, DispatchRound PROVE RInv'
  OBVIOUS
<1>1. CASE attempt > MaxAttempts
  BY <1>1 DEF DispatchRound, Return, RInv, TypeOK, FromCompleted, DispatchPcs
<1>2. CASE ~(attempt > MaxAttempts)
  <2>1. PICK P \in SelectPeers(RF - n, rcv) :
            \E D \in SendAllRequests(P) :
              /\ pulls' = AuthorizePull(P)
              /\ rcv' = rcv \cup P
              /\ inflight' = inflight \cup D
              /\ attempt' = attempt + 1
              /\ dpc' = "wait"
              /\ UNCHANGED subscribed
    BY <1>2 DEF DispatchRound
  <2>2. PICK D \in SendAllRequests(P) :
              /\ pulls' = AuthorizePull(P)
              /\ rcv' = rcv \cup P
              /\ inflight' = inflight \cup D
              /\ attempt' = attempt + 1
              /\ dpc' = "wait"
              /\ UNCHANGED subscribed
    BY <2>1
  <2>3. P \subseteq Providers \ rcv /\ D \subseteq P
    BY DEF SelectPeers, SendAllRequests
  <2>4. UNCHANGED <<n, resChan, out, provRef, chan, retrieved>>
    BY DEF DispatchRound
  <2>5. TypeOK'
    <3>1. attempt' \in 0..(MaxAttempts + 1)
      BY <1>2, <2>2 DEF RInv, TypeOK
    <3>2. pulls' \in SUBSET Providers /\ rcv' \in SUBSET Providers
          /\ inflight' \in SUBSET Providers
      BY <2>2, <2>3 DEF RInv, TypeOK, AuthorizePull
    <3>3. QED
      BY <2>2, <2>4, <3>1, <3>2 DEF RInv, TypeOK, DispatchPcs
  <2>6. \A p \in Providers : chan'[p] # "none" =>
                              p \in rcv' /\ p \notin inflight'
    BY <2>2, <2>3, <2>4 DEF RInv
  <2>7. dpc = "loop" /\ n < RF
    BY DEF DispatchRound, RInv
  <2>8. pulls' = rcv' /\ inflight' \subseteq rcv'
    BY <2>2, <2>3 DEF RInv, AuthorizePull, SendAllRequests
  <2>9. QED
    BY <2>2, <2>4, <2>5, <2>6, <2>7, <2>8 DEF RInv, FromCompleted
<1>3. QED
  BY <1>1, <1>2

LEMMA TimerRInv == RInv /\ DispatchTimer => RInv'
BY DEF DispatchTimer, RInv, TypeOK, FromCompleted, DispatchPcs

LEMMA ReceiveRInv == RInv /\ DispatchReceive => RInv'
<1> SUFFICES ASSUME RInv, DispatchReceive PROVE RInv'
  OBVIOUS
<1>1. resChan \in Seq(Peers) /\ resChan # <<>> /\ n < RF
  BY DEF RInv, TypeOK, DispatchReceive
<1>2. /\ Len(resChan') = Len(resChan) - 1
      /\ \A i \in 1..Len(resChan') : resChan'[i] = resChan[i + 1]
      /\ resChan' \in Seq(Peers)
  BY <1>1 DEF DispatchReceive
<1>3. /\ Len(out') = Len(out) + 1
      /\ \A i \in 1..Len(out) : out'[i] = out[i]
      /\ out'[Len(out')] = resChan[1]
      /\ out' \in Seq(Peers)
  BY <1>1 DEF DispatchReceive, RInv, TypeOK
<1>4. UNCHANGED <<attempt, rcv, pulls, inflight, provRef, chan, retrieved>>
  BY DEF DispatchReceive
<1>5. /\ n' = n + 1
      /\ dpc' \in DispatchPcs /\ subscribed' \in BOOLEAN
      /\ dpc' # "done" => n' < RF
  <2>1. n \in Nat /\ n' = n + 1
    BY DEF DispatchReceive, RInv, TypeOK
  <2>2. CASE n + 1 = RF
    BY <2>1, <2>2 DEF DispatchReceive, Return, DispatchPcs
  <2>3. CASE n + 1 # RF
    BY <2>1, <2>3, <1>1 DEF DispatchReceive, RInv, TypeOK, DispatchPcs
  <2>4. QED
    BY <2>2, <2>3
<1>6. FromCompleted(resChan)'
  BY <1>1, <1>2, <1>4 DEF RInv, FromCompleted
<1>7. resChan[1] \in Providers => chan[resChan[1]] = "completed"
  BY <1>1 DEF RInv, FromCompleted
<1>8. FromCompleted(out)'
  BY <1>3, <1>4, <1>7 DEF RInv, FromCompleted
<1>9. QED
  BY <1>1, <1>2, <1>3, <1>4, <1>5, <1>6, <1>8 DEF RInv, TypeOK

LEMMA HandleRInv ==
    ASSUME NEW p \in Providers, RInv, HandleRequest(p) PROVE RInv'
<1>1. chan[p] = "none" /\ ValidatePull(p)
  BY DEF HandleRequest, RInv, TypeOK, ValidatePull, ChanStates
<1>2. \A i \in 1..Len(resChan) : resChan[i] # p
  BY <1>1 DEF RInv, FromCompleted
<1>3. \A i \in 1..Len(out) : out[i] # p
  BY <1>1 DEF RInv, FromCompleted
<1>4. QED
  BY <1>1, <1>2, <1>3
     DEF HandleRequest, ValidatePull, RInv, TypeOK, FromCompleted, ChanStates

LEMMA CompleteRInv ==
    ASSUME NEW p \in Providers, RInv, TransferComplete(p) PROVE RInv'
<1>1. UNCHANGED <<dpc, attempt, n, rcv, pulls, subscribed, out, inflight,
                  provRef, retrieved>>
  BY DEF TransferComplete
<1>2. chan' = [chan EXCEPT ![p] = "completed"] /\ chan[p] = "open"
  BY DEF TransferComplete
<1>3. CASE subscribed
  <2>1. resChan' = Append(resChan, p) /\ Len(resChan) < RF
    BY <1>3 DEF TransferComplete, NotifyCompleted
  <2>2. QED
    BY <1>1, <1>2, <2>1 DEF RInv, TypeOK, FromCompleted, ChanStates, Peers
<1>4. CASE ~subscribed
  <2>1. UNCHANGED resChan
    BY <1>4 DEF TransferComplete, NotifyCompleted
  <2>2. QED
    BY <1>1, <1>2, <2>1 DEF RInv, TypeOK, FromCompleted, ChanStates
<1>5. QED
  BY <1>3, <1>4

LEMMA FailRInv ==
    ASSUME NEW p \in Providers, RInv, TransferFail(p) PROVE RInv'
<1>1. \A i \in 1..Len(resChan) : resChan[i] # p
  BY DEF TransferFail, RInv, FromCompleted
<1>2. \A i \in 1..Len(out) : out[i] # p
  BY DEF TransferFail, RInv, FromCompleted
<1>3. QED
  BY <1>1, <1>2 DEF TransferFail, RInv, TypeOK, FromCompleted, ChanStates

LEMMA RetrievalRInv ==
    ASSUME NEW c \in Clients, RInv, RetrievalComplete(c) PROVE RInv'
<1>1. c \notin Providers
  OBVIOUS
<1>2. CASE subscribed
  <2>1. resChan' = Append(resChan, c) /\ Len(resChan) < RF
    BY <1>2 DEF RetrievalComplete, NotifyCompleted
  <2>2. QED
    BY <1>1, <2>1 DEF RetrievalComplete, RInv, TypeOK, FromCompleted, Peers
<1>3. CASE ~subscribed
  BY <1>3 DEF RetrievalComplete, NotifyCompleted, RInv, TypeOK, FromCompleted
<1>4. QED
  BY <1>2, <1>3

LEMMA RInvNext == RInv /\ [Next]_vars => RInv'
<1> SUFFICES ASSUME RInv, [Next]_vars PROVE RInv'
  OBVIOUS
<1>1. CASE UNCHANGED vars
  BY <1>1 DEF vars, RInv, TypeOK, FromCompleted
<1>2. QED
  BY <1>1, RoundRInv, TimerRInv, ReceiveRInv, HandleRInv, CompleteRInv,
     FailRInv, RetrievalRInv DEF Next

THEOREM RInvariant == Spec => []RInv
BY InitRInv, RInvNext, PTL DEF Spec

\* The type invariant checked by the repl_main run, for every instance.
THEOREM ReplicationTypeCorrect == Spec => []TypeOK
BY RInvariant, PTL DEF RInv

\* The invariant checked by the repl_main run: a PRecord Dispatch yields
\* for a provider names one that passed ValidatePull and still holds the
\* root, for every set of providers and clients, every RF and attempts.
THEOREM ConfirmedProvidersHoldHolds == Spec => []ConfirmedProvidersHold
<1>1. RInv => ConfirmedProvidersHold
  BY DEF RInv, FromCompleted, ConfirmedProvidersHold
<1>2. QED
  BY <1>1, RInvariant, PTL
=============================================================================
