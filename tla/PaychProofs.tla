------------------------------ MODULE PaychProofs ------------------------------
(***************************************************************************)
(* Proofs about the payment-channel lifecycle of module Paych, for every   *)
(* set of requests, every set of amounts and every message bound.          *)
(***************************************************************************)
EXTENDS Paych, SequenceTheorems, TLAPS

\* The request records TypeOK allows.
ReqRecords == [amt : Amounts \cup {0}, st : ReqStatus, active : BOOLEAN,
               msg : MsgIds \cup {NoMsg}]

\* NoMsg is not a message id.
LEMMA NoMsgNotMsgId == NoMsg \notin MsgIds
BY DEF NoMsg, MsgIds

\* Updating the status, the active flag or the merged message of a request
\* record yields a request record.
LEMMA ReqRecordUpdate ==
    ASSUME NEW rec \in ReqRecords, NEW v \in ReqStatus, NEW b \in BOOLEAN,
           NEW mm \in MsgIds \cup {NoMsg}
    PROVE  /\ [rec EXCEPT !.st = v] \in ReqRecords
           /\ [rec EXCEPT !.active = b] \in ReqRecords
           /\ [rec EXCEPT !.st = v, !.msg = mm] \in ReqRecords
<1>1. [rec EXCEPT !.st = v] = [amt |-> rec.amt, st |-> v, active |-> rec.active,
                               msg |-> rec.msg]
  BY DEF ReqRecords
<1>2. [rec EXCEPT !.active = b] = [amt |-> rec.amt, st |-> rec.st, active |-> b,
                                   msg |-> rec.msg]
  BY DEF ReqRecords
<1>3. [amt |-> rec.amt, st |-> v, active |-> rec.active, msg |-> rec.msg] \in ReqRecords
  BY DEF ReqRecords
<1>4. [amt |-> rec.amt, st |-> rec.st, active |-> b, msg |-> rec.msg] \in ReqRecords
  BY DEF ReqRecords
<1>5. [rec EXCEPT !.st = v] \in ReqRecords /\ [rec EXCEPT !.active = b] \in ReqRecords
  BY <1>1, <1>2, <1>3, <1>4, Zenon
<1>6. \A x \in ReqRecords : [x EXCEPT !.msg = mm] \in ReqRecords
  <2> SUFFICES ASSUME NEW x \in ReqRecords PROVE [x EXCEPT !.msg = mm] \in ReqRecords
    OBVIOUS
  <2>1. [x EXCEPT !.msg = mm] = [amt |-> x.amt, st |-> x.st, active |-> x.active,
                                 msg |-> mm]
    BY DEF ReqRecords
  <2>2. [amt |-> x.amt, st |-> x.st, active |-> x.active, msg |-> mm] \in ReqRecords
    BY DEF ReqRecords
  <2>3. QED
    BY <2>1, <2>2, Zenon
<1>7. QED
  BY <1>5, <1>6, Zenon

\* Updating one field of a ChannelInfo with a value of its type yields a
\* ChannelInfo (cited for the multi-field updates of the waiters).
LEMMA ChannelInfoUpdate ==
    /\ \A c \in ChannelInfos, x \in BOOLEAN : [c EXCEPT !.addr = x] \in ChannelInfos
    /\ \A c \in ChannelInfos, x \in Nat : [c EXCEPT !.amount = x] \in ChannelInfos
    /\ \A c \in ChannelInfos, x \in Nat : [c EXCEPT !.pending = x] \in ChannelInfos
    /\ \A c \in ChannelInfos, x \in MsgIds \cup {NoMsg} :
            [c EXCEPT !.createMsg = x] \in ChannelInfos
    /\ \A c \in ChannelInfos, x \in MsgIds \cup {NoMsg} :
            [c EXCEPT !.addFundsMsg = x] \in ChannelInfos
<1> DEFINE Rec(c, a, am, p, cm, am2) ==
        [exists |-> c.exists, addr |-> a, amount |-> am, pending |-> p,
         createMsg |-> cm, addFundsMsg |-> am2]
<1>1. \A c \in ChannelInfos, a \in BOOLEAN, am \in Nat, p \in Nat,
             cm \in MsgIds \cup {NoMsg}, am2 \in MsgIds \cup {NoMsg} :
        Rec(c, a, am, p, cm, am2) \in ChannelInfos
  BY DEF ChannelInfos
<1>2. \A c \in ChannelInfos, x \in BOOLEAN :
        [c EXCEPT !.addr = x] = Rec(c, x, c.amount, c.pending, c.createMsg, c.addFundsMsg)
  BY DEF ChannelInfos
<1>3. \A c \in ChannelInfos, x \in Nat :
        [c EXCEPT !.amount = x] = Rec(c, c.addr, x, c.pending, c.createMsg, c.addFundsMsg)
  BY DEF ChannelInfos
<1>4. \A c \in ChannelInfos, x \in Nat :
        [c EXCEPT !.pending = x] = Rec(c, c.addr, c.amount, x, c.createMsg, c.addFundsMsg)
  BY DEF ChannelInfos
<1>5. \A c \in ChannelInfos, x \in MsgIds \cup {NoMsg} :
        [c EXCEPT !.createMsg = x] = Rec(c, c.addr, c.amount, c.pending, x, c.addFundsMsg)
  BY DEF ChannelInfos
<1>6. \A c \in ChannelInfos, x \in MsgIds \cup {NoMsg} :
        [c EXCEPT !.addFundsMsg = x] = Rec(c, c.addr, c.amount, c.pending, c.createMsg, x)
  BY DEF ChannelInfos
<1>7. \A c \in ChannelInfos :
        /\ c.addr \in BOOLEAN /\ c.amount \in Nat /\ c.pending \in Nat
        /\ c.createMsg \in MsgIds \cup {NoMsg} /\ c.addFundsMsg \in MsgIds \cup {NoMsg}
  BY DEF ChannelInfos
<1>8. \A c \in ChannelInfos, x \in BOOLEAN : [c EXCEPT !.addr = x] \in ChannelInfos
  <2> SUFFICES ASSUME NEW c \in ChannelInfos, NEW x \in BOOLEAN
               PROVE  [c EXCEPT !.addr = x] \in ChannelInfos
    OBVIOUS
  <2>1. Rec(c, x, c.amount, c.pending, c.createMsg, c.addFundsMsg) \in ChannelInfos
    BY <1>1, <1>7
  <2>2. QED
    BY <2>1, <1>2
<1>9. \A c \in ChannelInfos, x \in Nat : [c EXCEPT !.amount = x] \in ChannelInfos
  <2> SUFFICES ASSUME NEW c \in ChannelInfos, NEW x \in Nat
               PROVE  [c EXCEPT !.amount = x] \in ChannelInfos
    OBVIOUS
  <2>1. Rec(c, c.addr, x, c.pending, c.createMsg, c.addFundsMsg) \in ChannelInfos
    BY <1>1, <1>7
  <2>2. QED
    BY <2>1, <1>3
<1>10. \A c \in ChannelInfos, x \in Nat : [c EXCEPT !.pending = x] \in ChannelInfos
  <2> SUFFICES ASSUME NEW c \in ChannelInfos, NEW x \in Nat
               PROVE  [c EXCEPT !.pending = x] \in ChannelInfos
    OBVIOUS
  <2>1. Rec(c, c.addr, c.amount, x, c.createMsg, c.addFundsMsg) \in ChannelInfos
    BY <1>1, <1>7
  <2>2. QED
    BY <2>1, <1>4
<1>11. \A c \in ChannelInfos, x \in MsgIds \cup {NoMsg} : [c EXCEPT !.createMsg = x] \in ChannelInfos
  <2> SUFFICES ASSUME NEW c \in ChannelInfos, NEW x \in MsgIds \cup {NoMsg}
               PROVE  [c EXCEPT !.createMsg = x] \in ChannelInfos
    OBVIOUS
  <2>1. Rec(c, c.addr, c.amount, c.pending, x, c.addFundsMsg) \in ChannelInfos
    BY <1>1, <1>7
  <2>2. QED
    BY <2>1, <1>5
<1>12. \A c \in ChannelInfos, x \in MsgIds \cup {NoMsg} : [c EXCEPT !.addFundsMsg = x] \in ChannelInfos
  <2> SUFFICES ASSUME NEW c \in ChannelInfos, NEW x \in MsgIds \cup {NoMsg}
               PROVE  [c EXCEPT !.addFundsMsg = x] \in ChannelInfos
    OBVIOUS
  <2>1. Rec(c, c.addr, c.amount, c.pending, c.createMsg, x) \in ChannelInfos
    BY <1>1, <1>7
  <2>2. QED
    BY <2>1, <1>6
<1>13. QED
  BY <1>8, <1>9, <1>10, <1>11, <1>12

\* The amount of a merge of requests drawn from a queue of requests is a
\* natural number.
LEMMA MergeAmtType ==
    ASSUME NEW q \in Seq(Reqs), NEW rq \in [Reqs -> ReqRecords]
    PROVE  AmtSum([r \in Reqs |-> rq[r].amt], ActiveReqs(q, rq)) \in Nat
<1>1. [r \in Reqs |-> rq[r].amt] \in [Reqs -> Amounts \cup {0}]
  BY DEF ReqRecords
<1>2. ActiveReqs(q, rq) \in SUBSET Reqs
  BY DEF ActiveReqs
<1>3. QED
  BY <1>1, <1>2, SumAssumption, Zenon

\* The request function GetOrCreateChannel(r, a) hands to processQueue.
NewReqs(r, a) == [req EXCEPT ![r] = [amt |-> a, st |-> "queued",
                                     active |-> TRUE, msg |-> NoMsg]]

LEMMA GetOrCreateTypes ==
    ASSUME TypeOK, NEW r \in Reqs, NEW a \in Amounts
    PROVE  /\ Append(queue, r) \in Seq(Reqs)
           /\ NewReqs(r, a) \in [Reqs -> ReqRecords]
           /\ AmtSum([x \in Reqs |-> NewReqs(r, a)[x].amt],
                     ActiveReqs(Append(queue, r), NewReqs(r, a))) \in Nat
<1>1. Append(queue, r) \in Seq(Reqs)
  BY AppendProperties DEF TypeOK
<1>2. NewReqs(r, a) \in [Reqs -> ReqRecords]
  <2>1. [amt |-> a, st |-> "queued", active |-> TRUE, msg |-> NoMsg] \in ReqRecords
    BY DEF ReqRecords, ReqStatus
  <2>2. req \in [Reqs -> ReqRecords]
    BY DEF TypeOK, ReqRecords
  <2>3. QED
    BY <2>1, <2>2 DEF NewReqs
<1>3. QED
  BY <1>1, <1>2, MergeAmtType

-----------------------------------------------------------------------------
\* The initial state is well typed.
LEMMA TypeOKInit == Init => TypeOK
<1> SUFFICES ASSUME Init PROVE TypeOK
  OBVIOUS
<1>1. req \in [Reqs -> ReqRecords]
  BY DEF Init, ReqRecords, ReqStatus
<1>2. ci \in ChannelInfos
  BY DEF Init, NoChannel, ChannelInfos
<1>3. chain \in [MsgIds -> ChainMsgs]
  BY DEF Init, ChainMsgs
<1>4. nextMsg \in 1 .. MaxMsgs + 1
  BY MaxMsgsAssumption DEF Init
<1>5. /\ waiter \in [MsgIds -> WaiterPhase]
      /\ waitErr \in [MsgIds -> BOOLEAN]
      /\ msgResult \in [MsgIds -> {"none", "ok", "err"}]
  BY DEF Init, WaiterPhase
<1>6. queue \in Seq(Reqs)
  BY EmptySeq DEF Init
<1>7. actor \in BOOLEAN /\ balance \in Nat
  BY DEF Init
<1>8. QED
  BY <1>1, <1>2, <1>3, <1>4, <1>5, <1>6, <1>7 DEF TypeOK, ReqRecords

\* One step of the channel keeps every variable in its type.
LEMMA TypeOKNext == TypeOK /\ [Next]_vars => TypeOK'
<1> SUFFICES ASSUME TypeOK, [Next]_vars PROVE TypeOK'
  OBVIOUS
<1> USE NoMsgNotMsgId
<1>1. ASSUME NEW r \in Reqs, NEW a \in Amounts, GetOrCreateChannel(r, a)
      PROVE  TypeOK'
  <2> DEFINE q == Append(queue, r)
             rq == NewReqs(r, a)
             amt == AmtSum([x \in Reqs |-> rq[x].amt], ActiveReqs(q, rq))
             m == nextMsg
  <2>1. /\ q \in Seq(Reqs)
        /\ rq \in [Reqs -> ReqRecords]
        /\ amt \in Nat
    BY GetOrCreateTypes
  <2>2. processQueue(q, rq) /\ UNCHANGED <<actor, balance, waitErr, msgResult>>
    BY <1>1 DEF GetOrCreateChannel, NewReqs
  <2>3. CASE HasOutstandingMsg(ci) \/ ActiveReqs(q, rq) = {}
    <3>1. /\ queue' = IF HasOutstandingMsg(ci) THEN q ELSE << >>
          /\ req' = rq
          /\ UNCHANGED <<ci, chain, nextMsg, waiter>>
      BY <2>2, <2>3 DEF processQueue
    <3>2. queue' \in Seq(Reqs)
      BY <2>1, <3>1
    <3>3. QED
      BY <2>1, <2>2, <3>1, <3>2 DEF TypeOK, ReqRecords
  <2>4. CASE ~HasOutstandingMsg(ci) /\ ActiveReqs(q, rq) # {}
    <3> DEFINE failed == [x \in Reqs |-> IF x \in ActiveReqs(q, rq)
                                         THEN [rq[x] EXCEPT !.st = "err"]
                                         ELSE rq[x]]
               merged == [x \in Reqs |-> IF x \in ActiveReqs(q, rq)
                                         THEN [rq[x] EXCEPT !.st = "merged",
                                                            !.msg = m]
                                         ELSE rq[x]]
    <3>1. /\ queue' = << >>
          /\ \/ req' = failed /\ UNCHANGED <<ci, chain, nextMsg, waiter>>
             \/ /\ m \in MsgIds
                /\ nextMsg' = m + 1
                /\ req' = merged
                /\ IF ci.exists THEN addFunds(m, amt) ELSE create(m, amt)
      BY <2>2, <2>4 DEF processQueue
    <3>2. queue' \in Seq(Reqs)
      BY <3>1, EmptySeq
    <3>3. CASE req' = failed /\ UNCHANGED <<ci, chain, nextMsg, waiter>>
      <4>1. "err" \in ReqStatus
        BY DEF ReqStatus
      <4>2. failed \in [Reqs -> ReqRecords]
        <5>1. \A x \in Reqs : [rq[x] EXCEPT !.st = "err"] \in ReqRecords
          BY <2>1, <4>1, ReqRecordUpdate
        <5>2. QED
          BY <2>1, <5>1
      <4>3. QED
        BY <2>2, <3>2, <3>3, <4>2 DEF TypeOK, ReqRecords
    <3>4. CASE /\ m \in MsgIds
               /\ nextMsg' = m + 1
               /\ req' = merged
               /\ IF ci.exists THEN addFunds(m, amt) ELSE create(m, amt)
      <4>1. req' \in [Reqs -> ReqRecords]
        <5>1. "merged" \in ReqStatus /\ m \in MsgIds \cup {NoMsg}
          BY <3>4 DEF ReqStatus
        <5>2. merged \in [Reqs -> ReqRecords]
          <6>1. \A x \in Reqs : [rq[x] EXCEPT !.st = "merged", !.msg = m] \in ReqRecords
            BY <2>1, <5>1, ReqRecordUpdate
          <6>2. QED
            BY <2>1, <6>1
        <5>3. QED
          BY <3>4, <5>2
      <4>2. ci' \in ChannelInfos
        <5>1. CASE ci.exists
          <6>1. [ci EXCEPT !.pending = amt] \in ChannelInfos
            BY <2>1, ChannelInfoUpdate DEF TypeOK
          <6>2. [[ci EXCEPT !.pending = amt] EXCEPT !.addFundsMsg = m] \in ChannelInfos
            BY <3>4, <6>1, ChannelInfoUpdate
          <6>3. QED
            BY <3>4, <5>1, <6>2 DEF addFunds
        <5>2. CASE ~ci.exists
          <6>1. [exists |-> TRUE, addr |-> FALSE, amount |-> 0, pending |-> amt,
                 createMsg |-> m, addFundsMsg |-> NoMsg] \in ChannelInfos
            BY <2>1, <3>4 DEF ChannelInfos
          <6>2. QED
            BY <3>4, <5>2, <6>1 DEF create
        <5>3. QED
          BY <5>1, <5>2
      <4>3. chain' \in [MsgIds -> ChainMsgs] /\ waiter' \in [MsgIds -> WaiterPhase]
        <5>1. [kind |-> "addFunds", value |-> amt, st |-> "pending"] \in ChainMsgs
              /\ [kind |-> "create", value |-> amt, st |-> "pending"] \in ChainMsgs
          BY <2>1 DEF ChainMsgs
        <5>2. QED
          BY <3>4, <5>1 DEF addFunds, create, TypeOK, WaiterPhase
      <4>4. nextMsg' \in 1 .. MaxMsgs + 1
        <5>1. m \in 1 .. MaxMsgs /\ nextMsg' = m + 1
          BY <3>4 DEF MsgIds
        <5>2. QED
          BY <5>1, MaxMsgsAssumption
      <4>5. QED
        BY <2>2, <3>2, <4>1, <4>2, <4>3, <4>4 DEF TypeOK, ReqRecords
    <3>5. QED
      BY <3>1, <3>3, <3>4
  <2>5. QED
    BY <2>3, <2>4
<1>2. ASSUME NEW r \in Reqs, cancel(r) PROVE TypeOK'
  <2>1. req' \in [Reqs -> ReqRecords]
    <3>1. req[r] \in ReqRecords
      BY DEF TypeOK, ReqRecords
    <3>2. [req[r] EXCEPT !.active = FALSE] \in ReqRecords
      BY <3>1, ReqRecordUpdate DEF ReqStatus
    <3>3. req' = [req EXCEPT ![r] = [req[r] EXCEPT !.active = FALSE]]
      BY <1>2 DEF cancel
    <3>4. QED
      BY <3>2, <3>3 DEF TypeOK, ReqRecords
  <2>2. QED
    BY <1>2, <2>1 DEF cancel, TypeOK, ReqRecords
<1>3. ASSUME NEW m \in MsgIds, ChainExec(m) PROVE TypeOK'
  <2>1. chain' \in [MsgIds -> ChainMsgs]
    <3>1. chain[m] \in ChainMsgs
      BY DEF TypeOK
    <3>2. /\ [chain[m] EXCEPT !.st = "ok"] \in ChainMsgs
          /\ [chain[m] EXCEPT !.st = "failed"] \in ChainMsgs
      BY <3>1 DEF ChainMsgs
    <3>3. \/ chain' = [chain EXCEPT ![m] = [chain[m] EXCEPT !.st = "ok"]]
          \/ chain' = [chain EXCEPT ![m] = [chain[m] EXCEPT !.st = "failed"]]
      BY <1>3 DEF ChainExec
    <3>4. QED
      BY <3>2, <3>3 DEF TypeOK
  <2>2. actor' \in BOOLEAN /\ balance' \in Nat
    <3>1. chain[m].value \in Nat
      BY DEF TypeOK, ChainMsgs
    <3>2. \/ actor' = TRUE /\ balance' = chain[m].value
          \/ actor' = actor /\ balance' = balance + chain[m].value
          \/ actor' = actor /\ balance' = balance
      BY <1>3, Zenon DEF ChainExec
    <3>3. actor \in BOOLEAN /\ balance \in Nat
      BY DEF TypeOK
    <3>4. actor' \in BOOLEAN
      BY <3>2, <3>3, Zenon
    <3>5. balance' \in Nat
      BY <3>1, <3>2, <3>3
    <3>6. QED
      BY <3>4, <3>5
  <2>3. UNCHANGED <<queue, req, ci, nextMsg, waiter, waitErr, msgResult>>
    BY <1>3 DEF ChainExec
  <2>4. QED
    BY <2>1, <2>2, <2>3 DEF TypeOK
<1>4. ASSUME NEW m \in MsgIds, waitMsgError(m) PROVE TypeOK'
  BY <1>4 DEF waitMsgError, TypeOK, WaiterPhase
<1>5. ASSUME NEW m \in MsgIds, waitPaychCreateMsg(m) PROVE TypeOK'
  <2>1. ci' \in ChannelInfos
    <3>1. CASE chain[m].st = "failed"
      <4>1. ci' = NoChannel
        BY <1>5, <3>1 DEF waitPaychCreateMsg
      <4>2. NoChannel \in ChannelInfos
        BY DEF NoChannel, ChannelInfos
      <4>3. QED
        BY <4>1, <4>2
    <3>2. CASE chain[m].st # "failed"
      <4>1. ci' = [ci EXCEPT !.addr = TRUE, !.amount = ci.pending, !.pending = 0,
                             !.createMsg = NoMsg]
        BY <1>5, <3>2 DEF waitPaychCreateMsg
      <4>2. ci \in ChannelInfos /\ ci.pending \in Nat
        BY DEF TypeOK, ChannelInfos
      <4>3. [ci EXCEPT !.addr = TRUE] \in ChannelInfos
        BY <4>2, ChannelInfoUpdate
      <4>4. [[ci EXCEPT !.addr = TRUE] EXCEPT !.amount = ci.pending] \in ChannelInfos
        BY <4>2, <4>3, ChannelInfoUpdate
      <4>5. [[[ci EXCEPT !.addr = TRUE] EXCEPT !.amount = ci.pending]
                EXCEPT !.pending = 0] \in ChannelInfos
        BY <4>4, ChannelInfoUpdate
      <4>6. [[[[ci EXCEPT !.addr = TRUE] EXCEPT !.amount = ci.pending]
                EXCEPT !.pending = 0] EXCEPT !.createMsg = NoMsg] \in ChannelInfos
        BY <4>5, ChannelInfoUpdate
      <4>7. QED
        BY <4>1, <4>6
    <3>3. QED
      BY <3>1, <3>2
  <2>2. waitErr' \in [MsgIds -> BOOLEAN] /\ waiter' \in [MsgIds -> WaiterPhase]
    BY <1>5 DEF waitPaychCreateMsg, TypeOK, WaiterPhase
  <2>3. QED
    BY <1>5, <2>1, <2>2 DEF waitPaychCreateMsg, TypeOK
<1>6. ASSUME NEW m \in MsgIds, waitAddFundsMsg(m) PROVE TypeOK'
  <2>1. ci' \in ChannelInfos
    <3>0. ci \in ChannelInfos /\ ci.pending \in Nat /\ ci.amount \in Nat
      BY DEF TypeOK, ChannelInfos
    <3>1. CASE chain[m].st = "failed"
      <4>1. ci' = [ci EXCEPT !.pending = 0, !.addFundsMsg = NoMsg]
        BY <1>6, <3>1 DEF waitAddFundsMsg
      <4>2. [ci EXCEPT !.pending = 0] \in ChannelInfos
        BY <3>0, ChannelInfoUpdate
      <4>3. [[ci EXCEPT !.pending = 0] EXCEPT !.addFundsMsg = NoMsg] \in ChannelInfos
        BY <4>2, ChannelInfoUpdate
      <4>4. QED
        BY <4>1, <4>3
    <3>2. CASE chain[m].st # "failed"
      <4>1. ci' = [ci EXCEPT !.amount = ci.amount + ci.pending, !.pending = 0,
                             !.addFundsMsg = NoMsg]
        BY <1>6, <3>2 DEF waitAddFundsMsg
      <4>2. [ci EXCEPT !.amount = ci.amount + ci.pending] \in ChannelInfos
        BY <3>0, ChannelInfoUpdate
      <4>3. [[ci EXCEPT !.amount = ci.amount + ci.pending] EXCEPT !.pending = 0]
              \in ChannelInfos
        BY <4>2, ChannelInfoUpdate
      <4>4. [[[ci EXCEPT !.amount = ci.amount + ci.pending] EXCEPT !.pending = 0]
                EXCEPT !.addFundsMsg = NoMsg] \in ChannelInfos
        BY <4>3, ChannelInfoUpdate
      <4>5. QED
        BY <4>1, <4>4
    <3>3. QED
      BY <3>1, <3>2
  <2>2. waitErr' \in [MsgIds -> BOOLEAN] /\ waiter' \in [MsgIds -> WaiterPhase]
    BY <1>6 DEF waitAddFundsMsg, TypeOK, WaiterPhase
  <2>3. QED
    BY <1>6, <2>1, <2>2 DEF waitAddFundsMsg, TypeOK
<1>7. ASSUME NEW m \in MsgIds, msgWaitComplete(m) PROVE TypeOK'
  <2> DEFINE res == IF waitErr[m] THEN "err" ELSE "ok"
  <2>1. res \in ReqStatus
    BY DEF ReqStatus
  <2>2. \A x \in Reqs : [req[x] EXCEPT !.st = res] \in ReqRecords
    <3>1. \A x \in Reqs : req[x] \in ReqRecords
      BY DEF TypeOK, ReqRecords
    <3>2. QED
      BY <2>1, <3>1, ReqRecordUpdate
  <2>3. req' \in [Reqs -> ReqRecords]
    BY <1>7, <2>2 DEF msgWaitComplete, ResolveMerge, TypeOK, ReqRecords
  <2>4. msgResult' \in [MsgIds -> {"none", "ok", "err"}]
        /\ waiter' \in [MsgIds -> WaiterPhase]
    BY <1>7 DEF msgWaitComplete, TypeOK, WaiterPhase
  <2>5. QED
    BY <1>7, <2>3, <2>4 DEF msgWaitComplete, TypeOK, ReqRecords
<1>8. CASE UNCHANGED vars
  BY <1>8 DEF vars, TypeOK
<1>9. QED
  BY <1>1, <1>2, <1>3, <1>4, <1>5, <1>6, <1>7, <1>8 DEF Next, Waiter

\* Type correctness: every reachable state satisfies TypeOK.
THEOREM TypeCorrect == Spec => []TypeOK
BY TypeOKInit, TypeOKNext, PTL DEF Spec

-----------------------------------------------------------------------------
(***************************************************************************)
(* The inductive invariant IInv, and AmountMatchesChain from it.            *)
(***************************************************************************)

\* The initial state satisfies IInv: no message, no channel, no actor.
LEMMA IInvInit == Init => IInv
<1> SUFFICES ASSUME Init PROVE IInv
  OBVIOUS
<1>1. TypeOK
  BY TypeOKInit
<1>2. FreshMsgs /\ OnlyCurrentMsgPending
  BY DEF Init, FreshMsgs, OnlyCurrentMsgPending
<1>3. ~HasOutstandingMsg(ci) /\ ~ci.exists
  BY NoMsgNotMsgId DEF Init, NoChannel, HasOutstandingMsg
<1>4. CreatePendingMatches /\ AddFundsPendingMatches
  BY <1>3 DEF HasOutstandingMsg, CreatePendingMatches, AddFundsPendingMatches
<1>5. IdleMatches
  BY <1>3 DEF Init, IdleMatches
<1>6. QED
  BY <1>1, <1>2, <1>4, <1>5 DEF IInv

\* cancel only touches the request records, which IInv does not mention.
LEMMA IInvCancel ==
    ASSUME IInv, TypeOK', NEW r \in Reqs, cancel(r)
    PROVE  IInv'
BY DEF cancel, IInv, FreshMsgs, OnlyCurrentMsgPending, CreatePendingMatches,
       AddFundsPendingMatches, IdleMatches, HasOutstandingMsg

\* A waiter that fails or completes leaves the ChannelInfo and the chain
\* alone; its message is not fresh and its phase stays past "waiting".
LEMMA IInvWaitError ==
    ASSUME IInv, TypeOK', NEW m \in MsgIds, waitMsgError(m) \/ msgWaitComplete(m)
    PROVE  IInv'
<1>1. UNCHANGED <<ci, chain, actor, balance, nextMsg>>
      /\ waiter' = [waiter EXCEPT ![m] = IF waiter[m] = "waiting" THEN "completing"
                                                                  ELSE "done"]
      /\ waiter[m] \in {"waiting", "completing"}
  BY DEF waitMsgError, msgWaitComplete
<1>2. m < nextMsg
  BY <1>1 DEF IInv, FreshMsgs, TypeOK, MsgIds
<1>3. FreshMsgs'
  BY <1>1, <1>2 DEF IInv, FreshMsgs, TypeOK
<1>4. OnlyCurrentMsgPending'
  BY <1>1 DEF IInv, OnlyCurrentMsgPending, TypeOK
<1>5. (CreatePendingMatches /\ AddFundsPendingMatches /\ IdleMatches)'
  BY <1>1 DEF IInv, CreatePendingMatches, AddFundsPendingMatches, IdleMatches,
              HasOutstandingMsg
<1>6. QED
  BY <1>3, <1>4, <1>5 DEF IInv

\* The chain executes the outstanding message: the actor and its balance
\* move exactly as CreatePendingMatches / AddFundsPendingMatches predict.
LEMMA IInvChainExec ==
    ASSUME IInv, TypeOK', NEW m \in MsgIds, ChainExec(m)
    PROVE  IInv'
<1> USE NoMsgNotMsgId
<1>1. /\ chain[m].st = "pending"
      /\ \/ /\ chain' = [chain EXCEPT ![m].st = "ok"]
            /\ IF chain[m].kind = "create"
               THEN actor' = TRUE /\ balance' = chain[m].value
               ELSE actor' = actor /\ balance' = balance + chain[m].value
         \/ /\ chain' = [chain EXCEPT ![m].st = "failed"]
            /\ UNCHANGED <<actor, balance>>
      /\ UNCHANGED <<queue, req, ci, nextMsg, waiter, waitErr, msgResult>>
  BY DEF ChainExec
<1>2. m \in {ci.createMsg, ci.addFundsMsg}
  BY <1>1 DEF IInv, OnlyCurrentMsgPending
<1>3. m < nextMsg
  BY <1>1 DEF IInv, FreshMsgs, TypeOK, MsgIds
<1>4. /\ \A x \in MsgIds : x # m => chain'[x] = chain[x]
      /\ chain'[m].kind = chain[m].kind /\ chain'[m].value = chain[m].value
      /\ chain'[m].st \in {"ok", "failed"}
      /\ chain'[m].st = "ok" => IF chain[m].kind = "create"
                                THEN actor' = TRUE /\ balance' = chain[m].value
                                ELSE actor' = actor /\ balance' = balance + chain[m].value
      /\ chain'[m].st = "failed" => UNCHANGED <<actor, balance>>
  BY <1>1 DEF IInv, TypeOK, ChainMsgs
<1>5. FreshMsgs'
  BY <1>1, <1>3, <1>4 DEF IInv, FreshMsgs, TypeOK
<1>6. OnlyCurrentMsgPending'
  BY <1>1, <1>4 DEF IInv, OnlyCurrentMsgPending, TypeOK
<1>7. CASE m = ci.createMsg
  <2>1. ci.createMsg # NoMsg /\ ci.addFundsMsg = NoMsg /\ chain[m].kind = "create"
        /\ ~actor /\ balance = 0
    BY <1>1, <1>7 DEF IInv, CreatePendingMatches
  <2>2. CreatePendingMatches'
    <3>1. ci' = ci /\ ci.exists /\ ~ci.addr /\ ci.amount = 0
          /\ chain[m].value = ci.pending
      BY <1>1, <1>7, <2>1 DEF IInv, CreatePendingMatches
    <3>2. chain'[m].kind = "create" /\ chain'[m].value = ci.pending
      BY <1>4, <2>1, <3>1
    <3>3. CASE chain'[m].st = "ok"
      <4>1. actor' = TRUE /\ balance' = chain'[m].value
        BY <1>4, <2>1, <3>3
      <4>2. QED
        BY <3>1, <3>2, <3>3, <4>1, <1>7, <2>1, Zenon DEF CreatePendingMatches
    <3>4. CASE chain'[m].st = "failed"
      <4>1. ~actor' /\ balance' = 0
        BY <1>4, <2>1, <3>4
      <4>2. QED
        BY <3>1, <3>2, <3>4, <4>1, <1>7, <2>1, Zenon DEF CreatePendingMatches
    <3>5. QED
      BY <1>4, <3>3, <3>4
  <2>3. AddFundsPendingMatches' /\ IdleMatches'
    BY <1>1, <2>1 DEF AddFundsPendingMatches, IdleMatches, HasOutstandingMsg
  <2>4. QED
    BY <1>5, <1>6, <2>2, <2>3 DEF IInv
<1>8. CASE m = ci.addFundsMsg
  <2>1. ci.addFundsMsg # NoMsg /\ ci.createMsg = NoMsg /\ chain[m].kind = "addFunds"
        /\ balance = ci.amount /\ actor
    BY <1>1, <1>8 DEF IInv, AddFundsPendingMatches
  <2>2. AddFundsPendingMatches'
    <3>1. ci' = ci /\ ci.exists /\ ci.addr /\ chain[m].value = ci.pending
          /\ ci.amount \in Nat /\ chain[m].value \in Nat
      BY <1>1, <1>8, <2>1 DEF IInv, AddFundsPendingMatches, TypeOK, ChannelInfos,
                             ChainMsgs
    <3>2. chain'[m].kind = "addFunds" /\ chain'[m].value = ci.pending
      BY <1>4, <2>1, <3>1
    <3>3. CASE chain'[m].st = "ok"
      <4>1. actor' = actor /\ balance' = ci.amount + chain'[m].value
        BY <1>4, <2>1, <3>1, <3>2, <3>3
      <4>2. QED
        BY <3>1, <3>2, <3>3, <4>1, <1>8, <2>1, Zenon DEF AddFundsPendingMatches
    <3>4. CASE chain'[m].st = "failed"
      <4>1. actor' = actor /\ balance' = ci.amount
        BY <1>4, <2>1, <3>4
      <4>2. QED
        BY <3>1, <3>2, <3>4, <4>1, <1>8, <2>1, Zenon DEF AddFundsPendingMatches
    <3>5. QED
      BY <1>4, <3>3, <3>4
  <2>3. CreatePendingMatches' /\ IdleMatches'
    BY <1>1, <2>1 DEF CreatePendingMatches, IdleMatches, HasOutstandingMsg
  <2>4. QED
    BY <1>5, <1>6, <2>2, <2>3 DEF IInv
<1>9. QED
  BY <1>2, <1>7, <1>8

\* waitPaychCreateMsg applies the receipt of the outstanding create
\* message: a failure removes the ChannelInfo (and no actor exists), a
\* success records Amount = PendingAmount, the actor's balance.
LEMMA IInvCreateDone ==
    ASSUME IInv, TypeOK', NEW m \in MsgIds, waitPaychCreateMsg(m)
    PROVE  IInv'
<1> USE NoMsgNotMsgId
<1>1. /\ waiter[m] = "waiting" /\ chain[m].kind = "create"
      /\ chain[m].st \in {"ok", "failed"}
      /\ waiter' = [waiter EXCEPT ![m] = "completing"]
      /\ UNCHANGED <<queue, req, chain, actor, balance, nextMsg, msgResult>>
  BY DEF waitPaychCreateMsg
<1>2. m = ci.createMsg
  BY <1>1 DEF IInv, OnlyCurrentMsgPending, AddFundsPendingMatches
<1>3. /\ ci.exists /\ ~ci.addr /\ ci.addFundsMsg = NoMsg /\ ci.amount = 0
      /\ chain[m].value = ci.pending
      /\ IF chain[m].st = "ok" THEN actor /\ balance = chain[m].value
                               ELSE ~actor /\ balance = 0
  BY <1>2, NoMsgNotMsgId DEF IInv, CreatePendingMatches
<1>4. \A x \in MsgIds : x # m => chain[x].st # "pending" /\ waiter[x] # "waiting"
  BY <1>2, <1>3 DEF IInv, OnlyCurrentMsgPending
<1>5. m < nextMsg
  BY <1>1 DEF IInv, FreshMsgs, TypeOK, MsgIds
<1>6. FreshMsgs'
  BY <1>1, <1>5 DEF IInv, FreshMsgs, TypeOK
<1>7. ~HasOutstandingMsg(ci')
  <2>1. CASE chain[m].st = "failed"
    BY <1>1, <2>1 DEF waitPaychCreateMsg, NoChannel, HasOutstandingMsg
  <2>2. CASE chain[m].st = "ok"
    <3>1. ci' = [ci EXCEPT !.addr = TRUE, !.amount = ci.pending, !.pending = 0,
                           !.createMsg = NoMsg]
      BY <1>1, <2>2 DEF waitPaychCreateMsg
    <3>2. ci'.createMsg = NoMsg /\ ci'.addFundsMsg = NoMsg
      BY <1>3, <3>1 DEF IInv, TypeOK, ChannelInfos
    <3>3. QED
      BY <3>2 DEF HasOutstandingMsg
  <2>3. QED
    BY <1>1, <2>1, <2>2
<1>8. OnlyCurrentMsgPending'
  BY <1>1, <1>4 DEF IInv, OnlyCurrentMsgPending, TypeOK
<1>9. (CreatePendingMatches /\ AddFundsPendingMatches)'
  BY <1>7 DEF CreatePendingMatches, AddFundsPendingMatches, HasOutstandingMsg
<1>10. IdleMatches'
  <2>1. CASE chain[m].st = "failed"
    <3>1. ci' = NoChannel /\ ~actor /\ balance = 0
      BY <1>1, <1>3, <2>1 DEF waitPaychCreateMsg
    <3>2. QED
      BY <1>1, <3>1 DEF IdleMatches, NoChannel
  <2>2. CASE chain[m].st = "ok"
    <3>1. ci' = [ci EXCEPT !.addr = TRUE, !.amount = ci.pending, !.pending = 0,
                           !.createMsg = NoMsg]
      BY <1>1, <2>2 DEF waitPaychCreateMsg
    <3>2. ci'.exists /\ ci'.addr /\ ci'.amount = ci.pending
      BY <1>3, <3>1 DEF IInv, TypeOK, ChannelInfos
    <3>3. actor' /\ balance' = ci.pending
      BY <1>1, <1>3, <2>2
    <3>4. QED
      BY <3>2, <3>3 DEF IdleMatches
  <2>3. QED
    BY <1>1, <2>1, <2>2
<1>11. QED
  BY <1>6, <1>8, <1>9, <1>10 DEF IInv

\* waitAddFundsMsg applies the receipt of the outstanding add-funds
\* message: Amount grows by PendingAmount exactly when the chain credited it.
LEMMA IInvAddFundsDone ==
    ASSUME IInv, TypeOK', NEW m \in MsgIds, waitAddFundsMsg(m)
    PROVE  IInv'
<1> USE NoMsgNotMsgId
<1>1. /\ waiter[m] = "waiting" /\ chain[m].kind = "addFunds"
      /\ chain[m].st \in {"ok", "failed"}
      /\ waiter' = [waiter EXCEPT ![m] = "completing"]
      /\ UNCHANGED <<queue, req, chain, actor, balance, nextMsg, msgResult>>
  BY DEF waitAddFundsMsg
<1>2. m = ci.addFundsMsg
  BY <1>1 DEF IInv, OnlyCurrentMsgPending, CreatePendingMatches
<1>3. /\ ci.exists /\ ci.addr /\ ci.createMsg = NoMsg /\ actor
      /\ chain[m].value = ci.pending
      /\ ci.amount \in Nat /\ ci.pending \in Nat
      /\ IF chain[m].st = "ok" THEN balance = ci.amount + chain[m].value
                               ELSE balance = ci.amount
  BY <1>2, NoMsgNotMsgId DEF IInv, AddFundsPendingMatches, TypeOK, ChannelInfos
<1>4. \A x \in MsgIds : x # m => chain[x].st # "pending" /\ waiter[x] # "waiting"
  BY <1>2, <1>3 DEF IInv, OnlyCurrentMsgPending
<1>5. m < nextMsg
  BY <1>1 DEF IInv, FreshMsgs, TypeOK, MsgIds
<1>6. FreshMsgs'
  BY <1>1, <1>5 DEF IInv, FreshMsgs, TypeOK
<1>7. /\ ci'.exists /\ ci'.addr
      /\ ci'.createMsg = NoMsg /\ ci'.addFundsMsg = NoMsg
      /\ ci'.amount = balance
  <2>1. CASE chain[m].st = "failed"
    <3>1. ci' = [ci EXCEPT !.pending = 0, !.addFundsMsg = NoMsg]
      BY <1>1, <2>1 DEF waitAddFundsMsg
    <3>2. QED
      BY <1>3, <2>1, <3>1 DEF IInv, TypeOK, ChannelInfos
  <2>2. CASE chain[m].st = "ok"
    <3>1. ci' = [ci EXCEPT !.amount = ci.amount + ci.pending, !.pending = 0,
                           !.addFundsMsg = NoMsg]
      BY <1>1, <2>2 DEF waitAddFundsMsg
    <3>2. QED
      BY <1>3, <2>2, <3>1 DEF IInv, TypeOK, ChannelInfos
  <2>3. QED
    BY <1>1, <2>1, <2>2
<1>8. OnlyCurrentMsgPending'
  BY <1>1, <1>4 DEF IInv, OnlyCurrentMsgPending, TypeOK
<1>9. (CreatePendingMatches /\ AddFundsPendingMatches)'
  BY <1>7 DEF CreatePendingMatches, AddFundsPendingMatches
<1>10. IdleMatches'
  BY <1>1, <1>3, <1>7 DEF IdleMatches
<1>11. QED
  BY <1>6, <1>8, <1>9, <1>10 DEF IInv

\* processQueue pushes a message for amt while none is outstanding: the
\* fresh id nextMsg becomes the ChannelInfo's create or add-funds message,
\* pending on chain with value PendingAmount.
LEMMA IInvPush ==
    ASSUME IInv, TypeOK', ~HasOutstandingMsg(ci), NEW amt \in Nat,
           nextMsg \in MsgIds, nextMsg' = nextMsg + 1,
           IF ci.exists THEN addFunds(nextMsg, amt) ELSE create(nextMsg, amt),
           UNCHANGED <<actor, balance>>
    PROVE  IInv'
<1> USE NoMsgNotMsgId
<1> DEFINE m == nextMsg
<1>2. \A x \in MsgIds : chain[x].st # "pending" /\ waiter[x] # "waiting"
  BY DEF IInv, OnlyCurrentMsgPending, HasOutstandingMsg
<1>3. /\ chain'[m].value = amt /\ chain'[m].st = "pending"
      /\ chain'[m].kind = IF ci.exists THEN "addFunds" ELSE "create"
      /\ waiter'[m] = "waiting"
      /\ \A x \in MsgIds : x # m => chain'[x] = chain[x] /\ waiter'[x] = waiter[x]
  BY DEF addFunds, create, IInv, TypeOK
<1>4. FreshMsgs'
  BY <1>3 DEF IInv, FreshMsgs, TypeOK, MsgIds
<1>5. CASE ci.exists
  <2>1. ci.addr /\ actor /\ ci.amount = balance /\ ci.createMsg = NoMsg
    BY <1>5 DEF IInv, IdleMatches, HasOutstandingMsg
  <2>2. ci' = [ci EXCEPT !.pending = amt, !.addFundsMsg = m]
    BY <1>5 DEF addFunds
  <2>3. /\ ci'.exists /\ ci'.addr /\ ci'.createMsg = NoMsg
        /\ ci'.addFundsMsg = m /\ ci'.pending = amt /\ ci'.amount = ci.amount
    BY <1>5, <2>1, <2>2 DEF IInv, TypeOK, ChannelInfos
  <2>4. OnlyCurrentMsgPending'
    BY <1>2, <1>3, <1>5, <2>3 DEF IInv, OnlyCurrentMsgPending, TypeOK
  <2>5. AddFundsPendingMatches'
    BY <1>3, <1>5, <2>1, <2>3 DEF AddFundsPendingMatches
  <2>6. (CreatePendingMatches /\ IdleMatches)'
    BY <2>3 DEF CreatePendingMatches, IdleMatches, HasOutstandingMsg
  <2>7. QED
    BY <1>4, <2>4, <2>5, <2>6 DEF IInv
<1>6. CASE ~ci.exists
  <2>1. ~actor /\ balance = 0
    BY <1>6 DEF IInv, IdleMatches
  <2>2. ci' = [exists |-> TRUE, addr |-> FALSE, amount |-> 0, pending |-> amt,
               createMsg |-> m, addFundsMsg |-> NoMsg]
    BY <1>6 DEF create
  <2>3. OnlyCurrentMsgPending'
    BY <1>2, <1>3, <1>6, <2>2 DEF IInv, OnlyCurrentMsgPending, TypeOK
  <2>4. CreatePendingMatches'
    BY <1>3, <1>6, <2>1, <2>2 DEF CreatePendingMatches
  <2>5. (AddFundsPendingMatches /\ IdleMatches)'
    BY <2>2 DEF AddFundsPendingMatches, IdleMatches, HasOutstandingMsg
  <2>6. QED
    BY <1>4, <2>3, <2>4, <2>5 DEF IInv
<1>7. QED
  BY <1>5, <1>6

\* GetOrCreateChannel: processQueue either leaves the channel alone (an
\* outstanding message, nothing active, or a failed push) or pushes.
LEMMA IInvGetOrCreate ==
    ASSUME IInv, TypeOK', NEW r \in Reqs, NEW a \in Amounts,
           GetOrCreateChannel(r, a)
    PROVE  IInv'
<1> DEFINE q == Append(queue, r)
           rq == NewReqs(r, a)
           amt == AmtSum([x \in Reqs |-> rq[x].amt], ActiveReqs(q, rq))
<1>1. processQueue(q, rq) /\ UNCHANGED <<actor, balance>>
  BY DEF GetOrCreateChannel, NewReqs
<1>2. amt \in Nat
  BY GetOrCreateTypes DEF IInv
<1>3. CASE UNCHANGED <<ci, chain, nextMsg, waiter>>
  BY <1>1, <1>3 DEF IInv, TypeOK, FreshMsgs, OnlyCurrentMsgPending,
                    CreatePendingMatches, AddFundsPendingMatches, IdleMatches,
                    HasOutstandingMsg
<1>4. CASE /\ ~HasOutstandingMsg(ci)
           /\ nextMsg \in MsgIds /\ nextMsg' = nextMsg + 1
           /\ IF ci.exists THEN addFunds(nextMsg, amt) ELSE create(nextMsg, amt)
  BY <1>1, <1>2, <1>4, IInvPush
<1>5. QED
  BY <1>1, <1>3, <1>4 DEF processQueue

\* One step of the channel, or of the chain, preserves IInv.
LEMMA IInvNext == IInv /\ [Next]_vars => IInv'
<1> SUFFICES ASSUME IInv, [Next]_vars PROVE IInv'
  OBVIOUS
<1>1. TypeOK'
  BY TypeOKNext DEF IInv
<1>2. CASE UNCHANGED vars
  BY <1>2 DEF vars, IInv, TypeOK, FreshMsgs, OnlyCurrentMsgPending,
              CreatePendingMatches, AddFundsPendingMatches, IdleMatches,
              HasOutstandingMsg
<1>3. QED
  BY <1>1, <1>2, IInvGetOrCreate, IInvCancel, IInvChainExec, IInvWaitError,
     IInvCreateDone, IInvAddFundsDone DEF Next, Waiter

\* IInv holds in every reachable state.
THEOREM IInvariant == Spec => []IInv
BY IInvInit, IInvNext, PTL DEF Spec

\* Funds accounting (AmountMatchesChain): in every reachable state the
\* Amount of the stored ChannelInfo is at most the actor's on-chain
\* balance, and equal to it when no create or add-funds message is
\* outstanding; i.e. the waiters of channel.create / channel.addFunds
\* credit PendingAmount only for a message the chain executed.
THEOREM AmountMatchesChainHolds == Spec => []AmountMatchesChain
<1>1. IInv => AmountMatchesChain
  <2> SUFFICES ASSUME IInv PROVE AmountMatchesChain
    OBVIOUS
  <2>1. ci.amount \in Nat /\ balance \in Nat
    BY DEF IInv, TypeOK, ChannelInfos
  <2>2. CASE ci.createMsg # NoMsg
    BY <2>1, <2>2 DEF IInv, CreatePendingMatches, AmountMatchesChain,
                      HasOutstandingMsg
  <2>3. CASE ci.createMsg = NoMsg /\ ci.addFundsMsg # NoMsg
    <3>1. ci.addFundsMsg \in MsgIds
      BY <2>3 DEF IInv, TypeOK, ChannelInfos
    <3>2. chain[ci.addFundsMsg].value \in Nat
      BY <3>1 DEF IInv, TypeOK, ChainMsgs
    <3>3. \/ balance = ci.amount + chain[ci.addFundsMsg].value
          \/ balance = ci.amount
      BY <2>3 DEF IInv, AddFundsPendingMatches
    <3>4. QED
      BY <2>1, <2>3, <3>2, <3>3 DEF AmountMatchesChain, HasOutstandingMsg
  <2>4. CASE ~HasOutstandingMsg(ci)
    BY <2>1, <2>4 DEF IInv, IdleMatches, AmountMatchesChain, NoChannel
  <2>5. QED
    BY <2>2, <2>3, <2>4 DEF HasOutstandingMsg
<1>2. QED
  BY <1>1, IInvariant, PTL

(***************************************************************************)
(* AmountOnlyCredited.  Only the two waiters write Amount on success, and  *)
(* IInv ties their message to the ChannelInfo: the waiting waiter of a     *)
(* create message waits on CreateMsg (Amount = 0, PendingAmount = its      *)
(* value), that of an add-funds message on AddFundsMsg (PendingAmount =    *)
(* its value).  processQueue's create replaces a NoChannel, whose Amount   *)
(* is 0, and a failed create restores it.                                  *)
(***************************************************************************)

\* The waiting waiter of a create message waits on the ChannelInfo's
\* CreateMsg; that of an add-funds message on its AddFundsMsg.
LEMMA WaitingOnCurrent ==
    ASSUME IInv, NEW m \in MsgIds, waiter[m] = "waiting"
    PROVE  /\ chain[m].kind = "create" => m = ci.createMsg
           /\ chain[m].kind = "addFunds" => m = ci.addFundsMsg
<1> USE NoMsgNotMsgId
<1>1. m \in {ci.createMsg, ci.addFundsMsg}
  BY DEF IInv, OnlyCurrentMsgPending
<1>2. m = ci.createMsg => chain[m].kind = "create"
  BY DEF IInv, CreatePendingMatches
<1>3. m = ci.addFundsMsg => chain[m].kind = "addFunds"
  BY DEF IInv, AddFundsPendingMatches
<1>4. QED
  BY <1>1, <1>2, <1>3

LEMMA AmountCreditedCreateDone ==
    ASSUME IInv, NEW m \in MsgIds, waitPaychCreateMsg(m)
    PROVE  AmountCredited
<1> USE NoMsgNotMsgId
<1>1. waiter[m] = "waiting" /\ chain[m].kind = "create"
      /\ waiter'[m] = "completing"
  BY DEF waitPaychCreateMsg, IInv, TypeOK
<1>2. m = ci.createMsg
  BY <1>1, WaitingOnCurrent
<1>3. ci.amount = 0 /\ ci.pending = chain[m].value
  BY <1>2 DEF IInv, CreatePendingMatches
<1>4. CASE chain[m].st = "failed"
  BY <1>3, <1>4 DEF waitPaychCreateMsg, NoChannel, AmountCredited
<1>5. CASE chain[m].st # "failed"
  <2>1. chain[m].st = "ok" /\ ci'.amount = ci.pending
    BY <1>5 DEF waitPaychCreateMsg, IInv, TypeOK, ChannelInfos
  <2>2. chain[m].value \in Nat
    BY DEF IInv, TypeOK, ChainMsgs
  <2>3. QED
    BY <1>1, <1>3, <2>1, <2>2 DEF AmountCredited
<1>6. QED
  BY <1>4, <1>5

LEMMA AmountCreditedAddFundsDone ==
    ASSUME IInv, NEW m \in MsgIds, waitAddFundsMsg(m)
    PROVE  AmountCredited
<1> USE NoMsgNotMsgId
<1>1. waiter[m] = "waiting" /\ chain[m].kind = "addFunds"
      /\ waiter'[m] = "completing"
  BY DEF waitAddFundsMsg, IInv, TypeOK
<1>2. m = ci.addFundsMsg
  BY <1>1, WaitingOnCurrent
<1>3. ci.pending = chain[m].value
  BY <1>2 DEF IInv, AddFundsPendingMatches
<1>4. CASE chain[m].st = "failed"
  BY <1>4 DEF waitAddFundsMsg, IInv, TypeOK, ChannelInfos, AmountCredited
<1>5. CASE chain[m].st # "failed"
  <2>1. chain[m].st = "ok" /\ ci'.amount = ci.amount + ci.pending
    BY <1>5 DEF waitAddFundsMsg, IInv, TypeOK, ChannelInfos
  <2>2. QED
    BY <1>1, <1>3, <2>1 DEF AmountCredited
<1>6. QED
  BY <1>4, <1>5

LEMMA AmountCreditedGetOrCreate ==
    ASSUME IInv, NEW r \in Reqs, NEW a \in Amounts, GetOrCreateChannel(r, a)
    PROVE  ci'.amount = ci.amount
<1> DEFINE q == Append(queue, r)
           rq == NewReqs(r, a)
           amt == AmtSum([x \in Reqs |-> rq[x].amt], ActiveReqs(q, rq))
<1>1. processQueue(q, rq)
  BY DEF GetOrCreateChannel, NewReqs
<1>2. CASE UNCHANGED ci
  BY <1>2
<1>3. CASE ~HasOutstandingMsg(ci) /\ ci.exists /\ addFunds(nextMsg, amt)
  BY <1>3 DEF addFunds, IInv, TypeOK, ChannelInfos
<1>4. CASE ~HasOutstandingMsg(ci) /\ ~ci.exists /\ create(nextMsg, amt)
  <2>1. ci.amount = 0
    BY <1>4 DEF IInv, IdleMatches, NoChannel
  <2>2. QED
    BY <1>4, <2>1 DEF create
<1>5. QED
  BY <1>1, <1>2, <1>3, <1>4 DEF processQueue

\* Every step of the channel and of the chain satisfies AmountCredited.
LEMMA AmountCreditedNext == IInv /\ [Next]_vars => [AmountCredited]_vars
<1> SUFFICES ASSUME IInv, [Next]_vars PROVE [AmountCredited]_vars
  OBVIOUS
<1>1. CASE UNCHANGED vars
  BY <1>1 DEF vars
<1>2. ASSUME NEW r \in Reqs, NEW a \in Amounts, GetOrCreateChannel(r, a)
      PROVE  AmountCredited
  BY <1>2, AmountCreditedGetOrCreate DEF AmountCredited
<1>3. ASSUME NEW r \in Reqs, cancel(r)
      PROVE  AmountCredited
  BY <1>3 DEF cancel, AmountCredited
<1>4. ASSUME NEW m \in MsgIds,
             ChainExec(m) \/ waitMsgError(m) \/ msgWaitComplete(m)
      PROVE  AmountCredited
  BY <1>4 DEF ChainExec, waitMsgError, msgWaitComplete, AmountCredited
<1>5. QED
  BY <1>1, <1>2, <1>3, <1>4, AmountCreditedCreateDone,
     AmountCreditedAddFundsDone DEF Next, Waiter

\* Funds accounting, per step (AmountOnlyCredited): in every behaviour the
\* stored Amount changes only when waitPaychCreateMsg or waitAddFundsMsg
\* handles the receipt of a message the chain executed with exit code zero,
\* and then by exactly that message's value.
THEOREM AmountOnlyCreditedHolds == Spec => AmountOnlyCredited
<1>1. Spec => []IInv
  BY IInvariant
<1>2. IInv /\ [Next]_vars => [AmountCredited]_vars
  BY AmountCreditedNext
<1>3. QED
  BY <1>1, <1>2, PTL DEF Spec, AmountOnlyCredited

=============================================================================
