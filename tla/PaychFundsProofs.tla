--------------------------- MODULE PaychFundsProofs ---------------------------
(***************************************************************************)
(* Proofs about the amounts the channel promises its callers, for every    *)
(* set of requests, every set of amounts and every message bound.          *)
(***************************************************************************)
EXTENDS PaychProofs

\* The amount each request asked for.
Amt == [r \in Reqs |-> req[r].amt]

\* The messages whose waiter applied a successful receipt to the
\* ChannelInfo: it went on to msgWaitComplete with no error.
Credited == {m \in MsgIds : waiter[m] \in {"completing", "done"} /\ ~waitErr[m]}

\* The requests merged into message m.
MsgReqs(m) == {r \in Reqs : req[r].msg = m}

\* The requests merged into a credited message.
CreditedReqs == {r \in Reqs : req[r].msg \in Credited}

\* A request resolved without error was merged into a credited message.
OkCredited == \A r \in Reqs : req[r].st = "ok" => req[r].msg \in Credited

\* A request not yet issued is in no message, and a request is only ever
\* merged into a message already pushed.
MsgsIssued ==
    \A r \in Reqs : /\ req[r].st = "idle" => req[r].msg = NoMsg
                    /\ req[r].msg # NoMsg => req[r].msg < nextMsg

\* A message's value covers the requests merged into it.
MsgCoversReqs == \A m \in MsgIds : AmtSum(Amt, MsgReqs(m)) <= chain[m].value

\* A credited message exists only once the channel has its address.
CreditedChannel == Credited # {} => ci.addr

\* The ChannelInfo's Amount covers every credited request.
AmountCoversCredited == AmtSum(Amt, CreditedReqs) <= ci.amount

\* What the requests' promises rest on, beside IInv.
FundsFacts ==
    /\ OkCredited
    /\ MsgsIssued
    /\ MsgCoversReqs
    /\ CreditedChannel
    /\ AmountCoversCredited

\* The inductive invariant of merge correctness: IInv, and every request
\* resolved "ok" by msgWaitComplete's listeners sits in a message whose
\* waiter credited it, whose value covers it, and whose requests together
\* fit in the Amount the ChannelInfo records.
FundsInv == IInv /\ FundsFacts


\* The amount functions the sum assumptions range over.
AmtFns == [Reqs -> Amounts \cup {0}]

-----------------------------------------------------------------------------
(***************************************************************************)
(* Facts about AmtSum, from the sum assumptions of Paych.                  *)
(***************************************************************************)

\* The empty merge sums to zero.
LEMMA SumEmpty ==
    ASSUME NEW f \in AmtFns
    PROVE  AmtSum(f, {}) = 0
<1>1. AmtSum(f, {}) \in Nat
  BY SumAssumption DEF AmtFns
<1>2. AmtSum(f, {} \cup {}) = AmtSum(f, {}) + AmtSum(f, {})
  BY SumAdditive DEF AmtFns
<1>3. QED
  BY <1>1, <1>2

\* A sum over a subset is no larger.
LEMMA SumMono ==
    ASSUME NEW f \in AmtFns, NEW S \in SUBSET Reqs, NEW T \in SUBSET Reqs,
           S \subseteq T
    PROVE  AmtSum(f, S) <= AmtSum(f, T)
<1>1. T = S \cup (T \ S) /\ S \cap (T \ S) = {}
  OBVIOUS
<1>2. AmtSum(f, S \cup (T \ S)) = AmtSum(f, S) + AmtSum(f, T \ S)
  BY <1>1, SumAdditive DEF AmtFns
<1>3. AmtSum(f, S) \in Nat /\ AmtSum(f, T \ S) \in Nat
  BY SumAssumption DEF AmtFns
<1>4. AmtSum(f, T) = AmtSum(f, S \cup (T \ S))
  BY <1>1, Zenon
<1>5. QED
  BY <1>2, <1>3, <1>4

\* The amounts of the requests are an amount function.
LEMMA AmtType ==
    ASSUME TypeOK
    PROVE  Amt \in AmtFns
BY DEF TypeOK, Amt, AmtFns


\* Steps that keep every request's amount and message keep Amt and the
\* requests of every message.
LEMMA ReqsKept ==
    ASSUME TypeOK,
           \A x \in Reqs : req'[x].amt = req[x].amt /\ req'[x].msg = req[x].msg
    PROVE  Amt' = Amt /\ \A m \in MsgIds : MsgReqs(m)' = MsgReqs(m)
BY DEF Amt, MsgReqs

-----------------------------------------------------------------------------
(***************************************************************************)
(* FundsInv is inductive.                                                  *)
(***************************************************************************)

\* Initially no request is issued and no message exists.
LEMMA FundsInvInit == Init => FundsInv
<1> SUFFICES ASSUME Init PROVE FundsInv
  OBVIOUS
<1> USE NoMsgNotMsgId
<1>1. IInv
  BY IInvInit
<1>2. Credited = {}
  BY DEF Init, Credited
<1>3. \A r \in Reqs : req[r].msg = NoMsg /\ req[r].st = "idle"
  BY DEF Init
<1>4. CreditedReqs = {} /\ \A m \in MsgIds : MsgReqs(m) = {}
  BY <1>2, <1>3 DEF CreditedReqs, MsgReqs
<1>5. AmtSum(Amt, {}) = 0
  BY <1>1, AmtType, SumEmpty DEF IInv
<1>6. ci.amount = 0 /\ \A m \in MsgIds : chain[m].value = 0
  BY DEF Init, NoChannel
<1>7. MsgCoversReqs
  <2> SUFFICES ASSUME NEW m \in MsgIds
               PROVE  AmtSum(Amt, MsgReqs(m)) <= chain[m].value
    BY DEF MsgCoversReqs
  <2> QED
    BY <1>4, <1>5, <1>6
<1>8. AmountCoversCredited
  BY <1>4, <1>5, <1>6 DEF AmountCoversCredited
<1>9. QED
  BY <1>1, <1>2, <1>3, <1>7, <1>8
     DEF FundsInv, FundsFacts, OkCredited, MsgsIssued, CreditedChannel

\* cancel only clears a request's active flag.
LEMMA FundsCancel ==
    ASSUME FundsInv, NEW r \in Reqs, cancel(r)
    PROVE  FundsFacts'
<1>1. \A x \in Reqs : /\ req'[x].amt = req[x].amt /\ req'[x].msg = req[x].msg
                      /\ req'[x].st = req[x].st
  BY DEF cancel, FundsInv, IInv, TypeOK
<1>2. Amt' = Amt /\ \A m \in MsgIds : MsgReqs(m)' = MsgReqs(m)
  BY <1>1, ReqsKept DEF FundsInv, IInv
<1>3. Credited' = Credited /\ CreditedReqs' = CreditedReqs
  BY <1>1 DEF cancel, Credited, CreditedReqs
<1>4. UNCHANGED <<ci, chain, nextMsg>>
  BY DEF cancel
<1>5. QED
  BY <1>1, <1>2, <1>3, <1>4
     DEF FundsInv, FundsFacts, OkCredited, MsgsIssued, MsgCoversReqs,
         CreditedChannel, AmountCoversCredited

\* The chain executing a message changes no value and no request.
LEMMA FundsChainExec ==
    ASSUME FundsInv, NEW m \in MsgIds, ChainExec(m)
    PROVE  FundsFacts'
<1>1. UNCHANGED <<req, ci, nextMsg, waiter, waitErr>>
  BY DEF ChainExec
<1>2. \A x \in MsgIds : chain'[x].value = chain[x].value
  <2>1. chain[m] \in ChainMsgs
    BY DEF FundsInv, IInv, TypeOK
  <2>2. \/ chain' = [chain EXCEPT ![m] = [chain[m] EXCEPT !.st = "ok"]]
        \/ chain' = [chain EXCEPT ![m] = [chain[m] EXCEPT !.st = "failed"]]
    BY DEF ChainExec
  <2>3. \A st \in {"ok", "failed"} : [chain[m] EXCEPT !.st = st].value = chain[m].value
    BY <2>1 DEF ChainMsgs
  <2>4. QED
    BY <2>2, <2>3 DEF FundsInv, IInv, TypeOK
<1>3. Amt' = Amt /\ \A x \in MsgIds : MsgReqs(x)' = MsgReqs(x)
  BY <1>1, ReqsKept DEF FundsInv, IInv
<1>4. Credited' = Credited /\ CreditedReqs' = CreditedReqs
  BY <1>1 DEF Credited, CreditedReqs
<1>5. QED
  BY <1>1, <1>2, <1>3, <1>4
     DEF FundsInv, FundsFacts, OkCredited, MsgsIssued, MsgCoversReqs,
         CreditedChannel, AmountCoversCredited

\* A waiter whose StateWaitMsg failed credits nothing.
LEMMA FundsWaitError ==
    ASSUME FundsInv, NEW m \in MsgIds, waitMsgError(m)
    PROVE  FundsFacts'
<1>1. UNCHANGED <<req, ci, chain, nextMsg>>
  BY DEF waitMsgError
<1>2. Amt' = Amt /\ \A x \in MsgIds : MsgReqs(x)' = MsgReqs(x)
  BY <1>1, ReqsKept DEF FundsInv, IInv
<1>3. Credited' = Credited
  BY DEF waitMsgError, Credited, FundsInv, IInv, TypeOK
<1>4. CreditedReqs' = CreditedReqs
  BY <1>1, <1>3 DEF CreditedReqs
<1>5. QED
  BY <1>1, <1>2, <1>3, <1>4
     DEF FundsInv, FundsFacts, OkCredited, MsgsIssued, MsgCoversReqs,
         CreditedChannel, AmountCoversCredited

\* msgWaitComplete resolves the requests of message m with its result: an
\* "ok" only when its waiter applied a successful receipt.
LEMMA FundsComplete ==
    ASSUME FundsInv, NEW m \in MsgIds, msgWaitComplete(m)
    PROVE  FundsFacts'
<1>1. UNCHANGED <<ci, chain, nextMsg, waitErr>>
  BY DEF msgWaitComplete
<1>2. /\ waiter[m] = "completing" /\ waiter' = [waiter EXCEPT ![m] = "done"]
      /\ req' = ResolveMerge(m, IF waitErr[m] THEN "err" ELSE "ok")
  BY DEF msgWaitComplete
<1>3. \A x \in Reqs :
        /\ req'[x].amt = req[x].amt /\ req'[x].msg = req[x].msg
        /\ req'[x].st # req[x].st =>
              req[x].msg = m /\ req[x].st = "merged"
              /\ req'[x].st = IF waitErr[m] THEN "err" ELSE "ok"
  BY <1>2 DEF ResolveMerge, FundsInv, IInv, TypeOK
<1>4. Amt' = Amt /\ \A x \in MsgIds : MsgReqs(x)' = MsgReqs(x)
  BY <1>3, ReqsKept DEF FundsInv, IInv
<1>5. Credited' = Credited
  BY <1>1, <1>2 DEF Credited, FundsInv, IInv, TypeOK
<1>6. CreditedReqs' = CreditedReqs
  BY <1>3, <1>5 DEF CreditedReqs
<1>7. OkCredited'
  <2> SUFFICES ASSUME NEW x \in Reqs, req'[x].st = "ok"
               PROVE  req'[x].msg \in Credited'
    BY DEF OkCredited
  <2>1. CASE req'[x].st = req[x].st
    BY <2>1, <1>3, <1>5 DEF FundsInv, FundsFacts, OkCredited
  <2>2. CASE req'[x].st # req[x].st
    <3>1. req[x].msg = m /\ ~waitErr[m]
      BY <2>2, <1>3
    <3>2. m \in Credited
      BY <1>2, <3>1 DEF Credited
    <3>3. QED
      BY <1>3, <1>5, <3>1, <3>2
  <2>3. QED
    BY <2>1, <2>2
<1>8. MsgsIssued'
  BY <1>1, <1>3 DEF FundsInv, FundsFacts, MsgsIssued
<1>9. QED
  BY <1>1, <1>4, <1>5, <1>6, <1>7, <1>8
     DEF FundsInv, FundsFacts, MsgCoversReqs, CreditedChannel,
         AmountCoversCredited


\* waitPaychCreateMsg applies the receipt of the create message, the first
\* message of the channel: no message is credited yet.  A success credits
\* the create message with Amount := PendingAmount, its value; a failure
\* removes the ChannelInfo and credits nothing.
LEMMA FundsCreateDone ==
    ASSUME FundsInv, NEW m \in MsgIds, waitPaychCreateMsg(m)
    PROVE  FundsFacts'
<1> USE NoMsgNotMsgId
<1>1. /\ waiter[m] = "waiting" /\ chain[m].kind = "create"
      /\ chain[m].st \in {"ok", "failed"}
      /\ waiter' = [waiter EXCEPT ![m] = "completing"]
      /\ UNCHANGED <<req, chain, nextMsg>>
  BY DEF waitPaychCreateMsg
<1>0. waitErr' = [waitErr EXCEPT ![m] = (chain[m].st = "failed")]
  <2>1. CASE chain[m].st = "failed"
    BY <2>1 DEF waitPaychCreateMsg
  <2>2. CASE chain[m].st # "failed"
    BY <2>2 DEF waitPaychCreateMsg
  <2>3. QED
    BY <2>1, <2>2
<1>2. m = ci.createMsg
  BY <1>1 DEF FundsInv, IInv, OnlyCurrentMsgPending, AddFundsPendingMatches
<1>3. ~ci.addr /\ chain[m].value = ci.pending /\ ci.pending \in Nat
  BY <1>2 DEF FundsInv, IInv, CreatePendingMatches, TypeOK, ChannelInfos
<1>4. Credited = {}
  BY <1>3 DEF FundsInv, FundsFacts, CreditedChannel
<1>5. Amt' = Amt /\ \A x \in MsgIds : MsgReqs(x)' = MsgReqs(x)
  BY <1>1, ReqsKept DEF FundsInv, IInv
<1>6. \A x \in MsgIds : x # m => (x \in Credited' <=> x \in Credited)
  BY <1>1, <1>0 DEF Credited, FundsInv, IInv, TypeOK
<1>7. AmtSum(Amt, {}) = 0
  BY AmtType, SumEmpty DEF FundsInv, IInv
<1>8. OkCredited' /\ MsgsIssued' /\ MsgCoversReqs'
  <2>1. OkCredited'
    BY <1>1, <1>4 DEF FundsInv, FundsFacts, OkCredited
  <2>2. MsgsIssued'
    BY <1>1 DEF FundsInv, FundsFacts, MsgsIssued
  <2>3. MsgCoversReqs'
    BY <1>1, <1>5 DEF FundsInv, FundsFacts, MsgCoversReqs
  <2>4. QED
    BY <2>1, <2>2, <2>3
<1>9. CASE chain[m].st = "ok"
  <2>1. m \in Credited'
    BY <1>0, <1>1, <1>9 DEF Credited, FundsInv, IInv, TypeOK
  <2>2. Credited' = {m}
    BY <1>4, <1>6, <2>1 DEF Credited
  <2>3. CreditedReqs' = MsgReqs(m)
    BY <1>1, <2>2 DEF CreditedReqs, MsgReqs
  <2>4. ci'.amount = ci.pending /\ ci'.addr
    BY <1>1, <1>9 DEF waitPaychCreateMsg, FundsInv, IInv, TypeOK, ChannelInfos
  <2>5. AmtSum(Amt, MsgReqs(m)) <= chain[m].value
    BY DEF FundsInv, FundsFacts, MsgCoversReqs
  <2>6. AmountCoversCredited'
    BY <1>3, <1>5, <2>3, <2>4, <2>5 DEF AmountCoversCredited
  <2>7. CreditedChannel'
    BY <2>4 DEF CreditedChannel
  <2>8. QED
    BY <1>8, <2>6, <2>7 DEF FundsFacts
<1>10. CASE chain[m].st = "failed"
  <2>1. Credited' = {}
    BY <1>0, <1>1, <1>4, <1>6, <1>10 DEF Credited, FundsInv, IInv, TypeOK
  <2>2. CreditedReqs' = {}
    BY <2>1 DEF CreditedReqs
  <2>3. ci' = NoChannel
    BY <1>1, <1>10 DEF waitPaychCreateMsg
  <2>4. AmountCoversCredited'
    BY <1>5, <1>7, <2>2, <2>3 DEF AmountCoversCredited, NoChannel
  <2>5. CreditedChannel'
    BY <2>1 DEF CreditedChannel
  <2>6. QED
    BY <1>8, <2>4, <2>5 DEF FundsFacts
<1>11. QED
  BY <1>1, <1>9, <1>10

\* waitAddFundsMsg applies the receipt of the outstanding add-funds
\* message: a success credits it, adding its value to Amount; a failure
\* credits nothing and leaves Amount alone.
LEMMA FundsAddFundsDone ==
    ASSUME FundsInv, NEW m \in MsgIds, waitAddFundsMsg(m)
    PROVE  FundsFacts'
<1> USE NoMsgNotMsgId
<1>1. /\ waiter[m] = "waiting" /\ chain[m].kind = "addFunds"
      /\ chain[m].st \in {"ok", "failed"}
      /\ waiter' = [waiter EXCEPT ![m] = "completing"]
      /\ UNCHANGED <<req, chain, nextMsg>>
  BY DEF waitAddFundsMsg
<1>0. waitErr' = [waitErr EXCEPT ![m] = (chain[m].st = "failed")]
  <2>1. CASE chain[m].st = "failed"
    BY <2>1 DEF waitAddFundsMsg
  <2>2. CASE chain[m].st # "failed"
    BY <2>2 DEF waitAddFundsMsg
  <2>3. QED
    BY <2>1, <2>2
<1>2. m = ci.addFundsMsg
  BY <1>1 DEF FundsInv, IInv, OnlyCurrentMsgPending, CreatePendingMatches
<1>3. /\ ci.addr /\ chain[m].value = ci.pending
      /\ ci.pending \in Nat /\ ci.amount \in Nat
  BY <1>2 DEF FundsInv, IInv, AddFundsPendingMatches, TypeOK, ChannelInfos
<1>4. m \notin Credited
  BY <1>1 DEF Credited
<1>5. Amt' = Amt /\ \A x \in MsgIds : MsgReqs(x)' = MsgReqs(x)
  BY <1>1, ReqsKept DEF FundsInv, IInv
<1>6. \A x \in MsgIds : x # m => (x \in Credited' <=> x \in Credited)
  BY <1>1, <1>0 DEF Credited, FundsInv, IInv, TypeOK
<1>7. OkCredited' /\ MsgsIssued' /\ MsgCoversReqs'
  <2>1. Credited \subseteq Credited'
    BY <1>4, <1>6 DEF Credited
  <2>2. OkCredited'
    BY <1>1, <2>1 DEF FundsInv, FundsFacts, OkCredited
  <2>3. MsgsIssued'
    BY <1>1 DEF FundsInv, FundsFacts, MsgsIssued
  <2>4. MsgCoversReqs'
    BY <1>1, <1>5 DEF FundsInv, FundsFacts, MsgCoversReqs
  <2>5. QED
    BY <2>2, <2>3, <2>4
<1>8. CASE chain[m].st = "ok"
  <2>1. m \in Credited'
    BY <1>0, <1>1, <1>8 DEF Credited, FundsInv, IInv, TypeOK
  <2>2. CreditedReqs' = CreditedReqs \cup MsgReqs(m)
        /\ CreditedReqs \cap MsgReqs(m) = {}
    BY <1>1, <1>4, <1>6, <2>1 DEF CreditedReqs, MsgReqs, Credited
  <2>3. ci'.amount = ci.amount + ci.pending /\ ci'.addr
    <3>1. ci' = [ci EXCEPT !.amount = ci.amount + ci.pending, !.pending = 0,
                           !.addFundsMsg = NoMsg]
      BY <1>8 DEF waitAddFundsMsg
    <3>2. QED
      BY <1>3, <3>1 DEF FundsInv, IInv, TypeOK, ChannelInfos
  <2>4. AmtSum(Amt, CreditedReqs \cup MsgReqs(m))
          = AmtSum(Amt, CreditedReqs) + AmtSum(Amt, MsgReqs(m))
    BY <2>2, AmtType, SumAdditive DEF FundsInv, IInv, AmtFns, CreditedReqs,
                                      MsgReqs
  <2>5. AmtSum(Amt, MsgReqs(m)) <= chain[m].value
        /\ AmtSum(Amt, CreditedReqs) <= ci.amount
    BY DEF FundsInv, FundsFacts, MsgCoversReqs, AmountCoversCredited
  <2>6. AmtSum(Amt, CreditedReqs) \in Nat /\ AmtSum(Amt, MsgReqs(m)) \in Nat
    BY AmtType, SumAssumption DEF FundsInv, IInv, AmtFns, CreditedReqs, MsgReqs
  <2>7. AmountCoversCredited'
    BY <1>3, <1>5, <2>2, <2>3, <2>4, <2>5, <2>6 DEF AmountCoversCredited
  <2>8. CreditedChannel'
    BY <2>3 DEF CreditedChannel
  <2>9. QED
    BY <1>7, <2>7, <2>8 DEF FundsFacts
<1>9. CASE chain[m].st = "failed"
  <2>1. Credited' = Credited
    BY <1>0, <1>1, <1>4, <1>6, <1>9 DEF Credited, FundsInv, IInv, TypeOK
  <2>2. CreditedReqs' = CreditedReqs
    BY <1>1, <2>1 DEF CreditedReqs
  <2>3. ci'.amount = ci.amount /\ ci'.addr
    BY <1>1, <1>3, <1>9 DEF waitAddFundsMsg, FundsInv, IInv, TypeOK, ChannelInfos
  <2>4. QED
    BY <1>5, <1>7, <2>1, <2>2, <2>3
       DEF FundsInv, FundsFacts, AmountCoversCredited, CreditedChannel
<1>10. QED
  BY <1>1, <1>8, <1>9


\* A sum over requests that leave out r does not see r's amount.
LEMMA SumOff ==
    ASSUME NEW f \in AmtFns, NEW g \in AmtFns, NEW r \in Reqs,
           \A x \in Reqs : x # r => f[x] = g[x],
           NEW S \in SUBSET Reqs, r \notin S
    PROVE  AmtSum(f, S) = AmtSum(g, S)
BY SumLocal DEF AmtFns

\* GetOrCreateChannel issues request r, which is in no message yet, then
\* processQueue either leaves every message alone (it waits for the
\* outstanding message, drops cancelled requests, or fails the push) or
\* merges the active requests of the queue into the fresh message nextMsg,
\* whose value is their sum.
LEMMA FundsGetOrCreate ==
    ASSUME FundsInv, NEW r \in Reqs, NEW a \in Amounts,
           GetOrCreateChannel(r, a)
    PROVE  FundsFacts'
<1> USE NoMsgNotMsgId
<1> DEFINE q == Append(queue, r)
           rq == NewReqs(r, a)
           A == ActiveReqs(q, rq)
           AmtQ == [x \in Reqs |-> rq[x].amt]
           amt == AmtSum(AmtQ, A)
<1>1. processQueue(q, rq) /\ UNCHANGED waitErr
  BY DEF GetOrCreateChannel, NewReqs
<1>2. req[r].st = "idle" /\ req[r].msg = NoMsg
  BY DEF GetOrCreateChannel, FundsInv, FundsFacts, MsgsIssued
<1>3. /\ rq \in [Reqs -> ReqRecords]
      /\ rq[r].amt = a /\ rq[r].st = "queued"
      /\ \A x \in Reqs : rq[x].msg = req[x].msg
      /\ \A x \in Reqs : x # r => rq[x] = req[x]
  BY <1>2, GetOrCreateTypes DEF NewReqs, FundsInv, IInv
<1>4. /\ Amt \in AmtFns /\ AmtQ \in AmtFns
      /\ \A x \in Reqs : x # r => Amt[x] = AmtQ[x]
      /\ A \in SUBSET Reqs
  <2>1. Amt \in AmtFns
    BY AmtType DEF FundsInv, IInv
  <2>2. AmtQ \in AmtFns
    BY <1>3 DEF AmtFns, ReqRecords
  <2>3. \A x \in Reqs : x # r => Amt[x] = AmtQ[x]
    BY <1>3 DEF Amt
  <2>4. q \in Seq(Reqs)
    BY GetOrCreateTypes DEF FundsInv, IInv
  <2>5. A \in SUBSET Reqs
    BY <2>4 DEF ActiveReqs
  <2>6. QED
    BY <2>1, <2>2, <2>3, <2>5
<1>5. r \notin CreditedReqs /\ \A y \in MsgIds : r \notin MsgReqs(y)
  BY <1>2 DEF CreditedReqs, MsgReqs, Credited
<1>6. \A S \in SUBSET Reqs : r \notin S => AmtSum(AmtQ, S) = AmtSum(Amt, S)
  BY <1>4, SumOff
<1>7. CreditedReqs \in SUBSET Reqs /\ \A y \in MsgIds : MsgReqs(y) \in SUBSET Reqs
  BY DEF CreditedReqs, MsgReqs
<1>8. CASE UNCHANGED <<ci, chain, nextMsg, waiter>>
           /\ \A x \in Reqs : /\ req'[x].amt = rq[x].amt
                              /\ req'[x].msg = rq[x].msg
                              /\ req'[x].st \in {rq[x].st, "err"}
  <2>1. Amt' = AmtQ
    BY <1>8 DEF Amt
  <2>2. \A y \in MsgIds : MsgReqs(y)' = MsgReqs(y)
    BY <1>3, <1>8 DEF MsgReqs
  <2>3. Credited' = Credited /\ CreditedReqs' = CreditedReqs
    BY <1>1, <1>3, <1>8 DEF Credited, CreditedReqs
  <2>4. MsgCoversReqs'
    <3> SUFFICES ASSUME NEW y \in MsgIds
                 PROVE  AmtSum(Amt', MsgReqs(y)') <= chain'[y].value
      BY DEF MsgCoversReqs
    <3> QED
      BY <1>5, <1>6, <1>7, <1>8, <2>1, <2>2
         DEF FundsInv, FundsFacts, MsgCoversReqs
  <2>5. AmountCoversCredited'
    BY <1>5, <1>6, <1>7, <1>8, <2>1, <2>3
       DEF FundsInv, FundsFacts, AmountCoversCredited
  <2>6. OkCredited'
    BY <1>3, <1>8, <2>3 DEF FundsInv, FundsFacts, OkCredited
  <2>7. MsgsIssued'
    BY <1>3, <1>8 DEF FundsInv, FundsFacts, MsgsIssued
  <2>8. CreditedChannel'
    BY <1>8, <2>3 DEF FundsInv, FundsFacts, CreditedChannel
  <2>9. QED
    BY <2>4, <2>5, <2>6, <2>7, <2>8 DEF FundsFacts
<1>9. CASE /\ ~HasOutstandingMsg(ci)
           /\ nextMsg \in MsgIds /\ nextMsg' = nextMsg + 1
           /\ req' = [x \in Reqs |-> IF x \in A
                                     THEN [rq[x] EXCEPT !.st = "merged",
                                                        !.msg = nextMsg]
                                     ELSE rq[x]]
           /\ IF ci.exists THEN addFunds(nextMsg, amt) ELSE create(nextMsg, amt)
  <2> DEFINE nm == nextMsg
  <2>1. \A x \in Reqs : /\ req'[x].amt = rq[x].amt
                        /\ req'[x].msg = IF x \in A THEN nm ELSE req[x].msg
                        /\ req'[x].st = IF x \in A THEN "merged" ELSE rq[x].st
    BY <1>3, <1>9 DEF ReqRecords
  <2>2. Amt' = AmtQ
    BY <2>1 DEF Amt
  <2>3. /\ waiter' = [waiter EXCEPT ![nm] = "waiting"]
        /\ chain'[nm].value = amt
        /\ \A y \in MsgIds : y # nm => chain'[y] = chain[y]
    <3>1. CASE ci.exists
      <4>1. addFunds(nm, amt)
        BY <1>9, <3>1
      <4>2. QED
        BY <1>9, <4>1 DEF addFunds, FundsInv, IInv, TypeOK
    <3>2. CASE ~ci.exists
      <4>1. create(nm, amt)
        BY <1>9, <3>2
      <4>2. QED
        BY <1>9, <4>1 DEF create, FundsInv, IInv, TypeOK
    <3>3. QED
      BY <3>1, <3>2
  <2>4. waiter[nm] = "none"
    <3>1. nextMsg \in MsgIds
      BY <1>9
    <3>2. \A x \in MsgIds : x >= nextMsg => waiter[x] = "none"
      BY DEF FundsInv, IInv, FreshMsgs
    <3>3. QED
      BY <3>1, <3>2 DEF MsgIds
  <2>5. Credited' = Credited /\ nm \notin Credited
    BY <1>1, <2>3, <2>4 DEF Credited, FundsInv, IInv, TypeOK
  <2>6. \A x \in Reqs : req[x].msg # nm
    <3>1. nextMsg \in MsgIds
      BY <1>9
    <3>2. \A x \in Reqs : req[x].msg # NoMsg => req[x].msg < nextMsg
      BY DEF FundsInv, FundsFacts, MsgsIssued
    <3>3. \A x \in Reqs : req[x].msg \in MsgIds \cup {NoMsg}
      BY DEF FundsInv, IInv, TypeOK
    <3>4. QED
      BY <3>1, <3>2, <3>3 DEF MsgIds, NoMsg
  <2>7. /\ \A y \in MsgIds : y = nm => MsgReqs(y)' = A
        /\ \A y \in MsgIds : y # nm => MsgReqs(y)' = MsgReqs(y) \ A
    <3>1. ASSUME NEW y \in MsgIds, y = nm
          PROVE  MsgReqs(y)' = A
      <4>1. \A x \in Reqs : req'[x].msg = y <=> x \in A
        BY <2>1, <2>6, <3>1
      <4>2. QED
        BY <1>4, <4>1 DEF MsgReqs
    <3>2. ASSUME NEW y \in MsgIds, y # nm
          PROVE  MsgReqs(y)' = MsgReqs(y) \ A
      <4>1. \A x \in Reqs : req'[x].msg = y <=> (req[x].msg = y /\ x \notin A)
        BY <2>1, <3>2
      <4>2. QED
        BY <1>4, <4>1 DEF MsgReqs
    <3>3. QED
      BY <3>1, <3>2
  <2>8. CreditedReqs' = CreditedReqs \ A
    BY <2>1, <2>5 DEF CreditedReqs
  <2>9. MsgCoversReqs'
    <3> SUFFICES ASSUME NEW y \in MsgIds
                 PROVE  AmtSum(Amt', MsgReqs(y)') <= chain'[y].value
      BY DEF MsgCoversReqs
    <3>1. CASE y = nm
      <4>1. chain'[y].value = amt
        BY <2>3, <3>1
      <4>2. MsgReqs(y)' = A
        BY <2>7, <3>1
      <4>3. amt \in Nat
        BY <1>4, SumAssumption DEF AmtFns
      <4>4. QED
        BY <2>2, <4>1, <4>2, <4>3
    <3>2. CASE y # nm
      <4>1. AmtSum(Amt', MsgReqs(y)') = AmtSum(Amt, MsgReqs(y) \ A)
        BY <1>5, <1>6, <1>7, <2>2, <2>7, <3>2
      <4>2. AmtSum(Amt, MsgReqs(y) \ A) <= AmtSum(Amt, MsgReqs(y))
        BY <1>4, <1>7, SumMono
      <4>3. AmtSum(Amt, MsgReqs(y)) <= chain[y].value
        BY DEF FundsInv, FundsFacts, MsgCoversReqs
      <4>4. /\ AmtSum(Amt, MsgReqs(y) \ A) \in Nat
            /\ AmtSum(Amt, MsgReqs(y)) \in Nat
            /\ chain[y].value \in Nat
        BY <1>4, <1>7, SumAssumption DEF AmtFns, FundsInv, IInv, TypeOK, ChainMsgs
      <4>5. QED
        BY <2>3, <3>2, <4>1, <4>2, <4>3, <4>4
    <3>3. QED
      BY <3>1, <3>2
  <2>10. AmountCoversCredited' /\ CreditedChannel'
    <3>1. AmtSum(Amt', CreditedReqs') = AmtSum(Amt, CreditedReqs \ A)
      BY <1>5, <1>6, <1>7, <2>2, <2>8
    <3>2. /\ AmtSum(Amt, CreditedReqs \ A) <= AmtSum(Amt, CreditedReqs)
          /\ AmtSum(Amt, CreditedReqs \ A) \in Nat
          /\ AmtSum(Amt, CreditedReqs) \in Nat
      BY <1>4, <1>7, SumMono, SumAssumption DEF AmtFns
    <3>3. CASE ci.exists
      <4>1. ci' = [ci EXCEPT !.pending = amt, !.addFundsMsg = nm]
        BY <1>9, <3>3 DEF addFunds
      <4>2. ci'.amount = ci.amount /\ ci'.addr = ci.addr /\ ci.amount \in Nat
        BY <4>1 DEF FundsInv, IInv, TypeOK, ChannelInfos
      <4>3. QED
        BY <2>5, <3>1, <3>2, <4>2
           DEF FundsInv, FundsFacts, AmountCoversCredited, CreditedChannel
    <3>4. CASE ~ci.exists
      <4>1. ci = NoChannel
        BY <1>9, <3>4 DEF FundsInv, IInv, IdleMatches
      <4>2. Credited = {}
        BY <4>1 DEF FundsInv, FundsFacts, CreditedChannel, NoChannel
      <4>3. CreditedReqs \ A = {}
        BY <4>2 DEF CreditedReqs
      <4>4. AmtSum(Amt, {}) = 0
        BY <1>4, SumEmpty
      <4>5. ci'.amount = 0
        <5>1. create(nm, amt)
          BY <1>9, <3>4
        <5>2. QED
          BY <5>1 DEF create
      <4>6. QED
        BY <2>5, <3>1, <4>2, <4>3, <4>4, <4>5
           DEF AmountCoversCredited, CreditedChannel
    <3>5. QED
      BY <3>3, <3>4
  <2>11. OkCredited'
    BY <1>3, <2>1, <2>5 DEF FundsInv, FundsFacts, OkCredited
  <2>12. MsgsIssued'
    <3> SUFFICES ASSUME NEW x \in Reqs
                 PROVE  /\ req'[x].st = "idle" => req'[x].msg = NoMsg
                        /\ req'[x].msg # NoMsg => req'[x].msg < nextMsg'
      BY DEF MsgsIssued
    <3>1. nm \in Nat /\ nextMsg' = nm + 1
      <4>1. nextMsg \in MsgIds /\ nextMsg' = nextMsg + 1
        BY <1>9
      <4>2. QED
        BY <4>1 DEF MsgIds
    <3>2. req[x].msg # NoMsg => req[x].msg \in Nat /\ req[x].msg < nm
      BY DEF FundsInv, FundsFacts, MsgsIssued, IInv, TypeOK, MsgIds
    <3>3. CASE x \in A
      BY <2>1, <3>1, <3>3
    <3>4. CASE x \notin A
      <4>1. req'[x].msg = req[x].msg /\ req'[x].st = rq[x].st
        BY <2>1, <3>4
      <4>2. rq[x].st = "idle" => req[x].st = "idle"
        BY <1>3
      <4>3. req[x].st = "idle" => req[x].msg = NoMsg
        BY DEF FundsInv, FundsFacts, MsgsIssued
      <4>4. QED
        BY <3>1, <3>2, <4>1, <4>2, <4>3
    <3>5. QED
      BY <3>3, <3>4
  <2>13. QED
    BY <2>9, <2>10, <2>11, <2>12 DEF FundsFacts
<1>10. QED
  <2>1. CASE HasOutstandingMsg(ci) \/ A = {}
    <3>1. req' = rq /\ UNCHANGED <<ci, chain, nextMsg, waiter>>
      BY <1>1, <2>1 DEF processQueue
    <3>2. QED
      BY <1>8, <3>1
  <2>2. CASE ~HasOutstandingMsg(ci) /\ A # {}
    <3>1. \/ /\ req' = [x \in Reqs |-> IF x \in A
                                       THEN [rq[x] EXCEPT !.st = "err"]
                                       ELSE rq[x]]
             /\ UNCHANGED <<ci, chain, nextMsg, waiter>>
          \/ /\ nextMsg \in MsgIds /\ nextMsg' = nextMsg + 1
             /\ req' = [x \in Reqs |-> IF x \in A
                                       THEN [rq[x] EXCEPT !.st = "merged",
                                                          !.msg = nextMsg]
                                       ELSE rq[x]]
             /\ IF ci.exists THEN addFunds(nextMsg, amt)
                             ELSE create(nextMsg, amt)
      BY <1>1, <2>2 DEF processQueue
    <3>2. CASE /\ req' = [x \in Reqs |-> IF x \in A
                                         THEN [rq[x] EXCEPT !.st = "err"]
                                         ELSE rq[x]]
               /\ UNCHANGED <<ci, chain, nextMsg, waiter>>
      <4>1. \A x \in Reqs : /\ req'[x].amt = rq[x].amt
                            /\ req'[x].msg = rq[x].msg
                            /\ req'[x].st \in {rq[x].st, "err"}
        BY <1>3, <3>2 DEF ReqRecords
      <4>2. QED
        BY <1>8, <3>2, <4>1
    <3>3. QED
      BY <1>9, <2>2, <3>1, <3>2
  <2>3. QED
    BY <2>1, <2>2

(***************************************************************************)
(* FundsInv is inductive: IInv' comes from IInvNext, FundsFacts' from the  *)
(* lemma of the action that takes the step.                                *)
(***************************************************************************)
LEMMA FundsInvNext == FundsInv /\ [Next]_vars => FundsInv'
<1> SUFFICES ASSUME FundsInv, [Next]_vars PROVE FundsInv'
  OBVIOUS
<1>1. IInv'
  BY IInvNext DEF FundsInv
<1>2. CASE UNCHANGED vars
  <2>1. UNCHANGED <<req, ci, chain, nextMsg, waiter, waitErr>>
    BY <1>2 DEF vars
  <2>2. /\ Amt' = Amt /\ Credited' = Credited /\ CreditedReqs' = CreditedReqs
        /\ \A m \in MsgIds : MsgReqs(m)' = MsgReqs(m)
    BY <2>1 DEF Amt, Credited, CreditedReqs, MsgReqs
  <2>3. FundsFacts'
    BY <2>1, <2>2 DEF FundsInv, FundsFacts, OkCredited, MsgsIssued, MsgCoversReqs,
                      CreditedChannel, AmountCoversCredited
  <2>4. QED
    BY <1>1, <2>3 DEF FundsInv
<1>3. CASE Next
  <2>1. FundsFacts'
    BY <1>3, FundsGetOrCreate, FundsCancel, FundsChainExec, FundsWaitError,
       FundsCreateDone, FundsAddFundsDone, FundsComplete DEF Next, Waiter
  <2>2. QED
    BY <1>1, <2>1 DEF FundsInv
<1>4. QED
  BY <1>2, <1>3

\* FundsInv holds in every reachable state.
THEOREM FundsInvariant == Spec => []FundsInv
BY FundsInvInit, FundsInvNext, PTL DEF Spec

(***************************************************************************)
(* Funds accounting, per request (FundedCoversResolved): the requests that *)
(* msgWaitComplete resolved with success never ask for more than the      *)
(* Amount credited in the stored ChannelInfo.  Every such request was     *)
(* merged into a message whose waiter credited it without error           *)
(* (OkCredited), and the credited requests sum to at most Amount.         *)
(***************************************************************************)
THEOREM FundedCoversResolvedHolds == Spec => []FundedCoversResolved
<1>1. FundsInv => FundedCoversResolved
  <2> SUFFICES ASSUME FundsInv PROVE FundedCoversResolved
    OBVIOUS
  <2> DEFINE OkReqs == {r \in Reqs : req[r].st = "ok"}
  <2>1. Amt \in AmtFns
    BY AmtType DEF FundsInv, IInv
  <2>2. OkReqs \subseteq CreditedReqs
    BY DEF FundsInv, FundsFacts, OkCredited, CreditedReqs
  <2>3. AmtSum(Amt, OkReqs) <= AmtSum(Amt, CreditedReqs)
    BY <2>1, <2>2, SumMono DEF CreditedReqs
  <2>4. AmtSum(Amt, OkReqs) \in Nat /\ AmtSum(Amt, CreditedReqs) \in Nat
        /\ ci.amount \in Nat
    BY <2>1, SumAssumption DEF AmtFns, CreditedReqs, FundsInv, IInv, TypeOK,
                               ChannelInfos
  <2>5. AmtSum(Amt, CreditedReqs) <= ci.amount
    BY DEF FundsInv, FundsFacts, AmountCoversCredited
  <2>6. QED
    BY <2>3, <2>4, <2>5 DEF FundedCoversResolved, Amt
<1>2. QED
  BY <1>1, FundsInvariant, PTL

=============================================================================
