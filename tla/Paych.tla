-------------------------------- MODULE Paych --------------------------------
(***************************************************************************)
(* Lifecycle of one outbound payment channel (from, to) as managed by the  *)
(* payments `channel` type (src/unnamed/part_000): funds requests queued   *)
(* by callers of GetOrCreateChannel are merged into one on-chain message   *)
(* (create, or add funds), a waiter goroutine per message waits for it on  *)
(* chain, applies its outcome to the stored ChannelInfo and then, in a     *)
(* second critical section, records the result and fires the listeners    *)
(* that resolve the callers' promises.                                     *)
(*                                                                         *)
(* Every action is one critical section under the channel's multiLock.    *)
(* The queue processing step is not in the source tree (it lives in the   *)
(* manager file that is not part of this repository snapshot): it is      *)
(* modelled from spec.md section 4.6 and marked spec-modelled in the map.  *)
(* The chain is an environment: it executes each pushed message once,     *)
(* with exit code zero or non-zero.                                        *)
(***************************************************************************)
EXTENDS Naturals, Sequences, FiniteSets, FiniteSetsExt

CONSTANTS
    Reqs,       \* the funds requests callers may issue (model values)
    Amounts,    \* the amounts a request may ask for
    MaxMsgs     \* bound on the number of on-chain messages pushed

ASSUME AmountsAssumption == Amounts \subseteq Nat \ {0} /\ Amounts # {}
ASSUME MaxMsgsAssumption == MaxMsgs \in Nat

\* The sum of the amounts amt[r] of the requests r in S (mergedFundsReq.sum).
AmtSum(amt, S) == MapThenSumSet(LAMBDA r : amt[r], S)

\* The requests are finitely many, so that a merge of any of them sums to a
\* natural number.  (TLC evaluates it on every instance; the proofs use it
\* in place of an induction over finite sets, which the provers lack.)
ASSUME SumAssumption ==
    \A S \in SUBSET Reqs, amt \in [Reqs -> Amounts \cup {0}] : AmtSum(amt, S) \in Nat

\* Two more facts of finite sums, which hold for every finite set of
\* requests: the sum over two disjoint sets is the sum of their sums, and
\* a sum only depends on the amounts of the requests it sums.  (Like
\* SumAssumption they stand for an induction over finite sets.)
ASSUME SumAdditive ==
    \A amt \in [Reqs -> Amounts \cup {0}], S, T \in SUBSET Reqs :
        S \cap T = {} => AmtSum(amt, S \cup T) = AmtSum(amt, S) + AmtSum(amt, T)

ASSUME SumLocal ==
    \A f, g \in [Reqs -> Amounts \cup {0}], S \in SUBSET Reqs :
        (\A r \in S : f[r] = g[r]) => AmtSum(f, S) = AmtSum(g, S)

\* Message ids; 0 stands for a nil message cid (*cid.Cid == nil).
MsgIds == 1 .. MaxMsgs
NoMsg == 0

\* Status of a fundsReq: not yet issued, on fundsReqQueue, part of a
\* mergedFundsReq whose message is outstanding, or resolved by its promise.
ReqStatus == {"idle", "queued", "merged", "ok", "err"}

\* Progress of the waiter goroutine started for a message:
\* waitForPaychCreateMsg / waitForAddFundsMsg run wait*Msg (phase
\* "waiting"), then msgWaitComplete (phase "completing").
WaiterPhase == {"none", "waiting", "completing", "done"}

VARIABLES
    queue,      \* channel.fundsReqQueue
    req,        \* per request: amount, status, active flag, merged message
    ci,         \* the ChannelInfo record in the Store for (from, to)
    chain,      \* the on-chain messages: kind, value and execution status
    actor,      \* whether the payment-channel actor exists on chain
    balance,    \* the on-chain balance of the payment-channel actor
    nextMsg,    \* next message id to allocate
    waiter,     \* phase of the waiter goroutine of each message
    waitErr,    \* the error the waiter passes to msgWaitComplete
    msgResult   \* Store.SaveMessageResult records

vars == <<queue, req, ci, chain, actor, balance, nextMsg, waiter, waitErr,
          msgResult>>

\* The store holds no ChannelInfo for (from, to).
NoChannel == [exists |-> FALSE, addr |-> FALSE, amount |-> 0, pending |-> 0,
              createMsg |-> NoMsg, addFundsMsg |-> NoMsg]

ChannelInfos ==
    [exists : BOOLEAN, addr : BOOLEAN, amount : Nat, pending : Nat,
     createMsg : MsgIds \cup {NoMsg}, addFundsMsg : MsgIds \cup {NoMsg}]

ChainMsgs ==
    [kind : {"none", "create", "addFunds"}, value : Nat,
     st : {"none", "pending", "ok", "failed"}]

TypeOK ==
    /\ queue \in Seq(Reqs)
    /\ req \in [Reqs -> [amt : Amounts \cup {0}, st : ReqStatus,
                         active : BOOLEAN, msg : MsgIds \cup {NoMsg}]]
    /\ ci \in ChannelInfos
    /\ chain \in [MsgIds -> ChainMsgs]
    /\ actor \in BOOLEAN
    /\ balance \in Nat
    /\ nextMsg \in 1 .. MaxMsgs + 1
    /\ waiter \in [MsgIds -> WaiterPhase]
    /\ waitErr \in [MsgIds -> BOOLEAN]
    /\ msgResult \in [MsgIds -> {"none", "ok", "err"}]

Init ==
    /\ queue = << >>
    /\ req = [r \in Reqs |-> [amt |-> 0, st |-> "idle", active |-> FALSE,
                              msg |-> NoMsg]]
    /\ ci = NoChannel
    /\ chain = [m \in MsgIds |-> [kind |-> "none", value |-> 0, st |-> "none"]]
    /\ actor = FALSE
    /\ balance = 0
    /\ nextMsg = 1
    /\ waiter = [m \in MsgIds |-> "none"]
    /\ waitErr = [m \in MsgIds |-> FALSE]
    /\ msgResult = [m \in MsgIds |-> "none"]

-----------------------------------------------------------------------------
(***************************************************************************)
(* Helpers                                                                 *)
(***************************************************************************)

\* A create or add-funds message of the channel is still outstanding.
HasOutstandingMsg(c) == c.createMsg # NoMsg \/ c.addFundsMsg # NoMsg

\* The requests on queue q that are still active (fundsReq.isActive).
ActiveReqs(q, rq) == {r \in {q[i] : i \in 1 .. Len(q)} : rq[r].active}

\* Mutant: the listeners only deliver successful results; a request whose
\* message failed is left waiting on its promise.
ResolveMergeOkOnly(m, res) ==
    [r \in Reqs |-> IF req[r].msg = m /\ req[r].st = "merged" /\ req[r].active
                                    /\ res = "ok"
                      THEN [req[r] EXCEPT !.st = res]
                      ELSE req[r]]

\* mergedFundsReq.onComplete: every request of the merge that is still
\* active receives the result on its promise.
ResolveMerge(m, res) ==
    [r \in Reqs |-> IF req[r].msg = m /\ req[r].st = "merged" /\ req[r].active
                      THEN [req[r] EXCEPT !.st = res]
                      ELSE req[r]]

-----------------------------------------------------------------------------
(***************************************************************************)
(* Operations                                                              *)
(***************************************************************************)

\* channel.create: push the create message with the merged amount, store a
\* new ChannelInfo with CreateMsg set and PendingAmount = amt, start the
\* waiter.  A failed mpoolPush returns before the store is touched.
create(m, amt) ==
    /\ ci' = [exists |-> TRUE, addr |-> FALSE, amount |-> 0, pending |-> amt,
              createMsg |-> m, addFundsMsg |-> NoMsg]
    /\ chain' = [chain EXCEPT ![m] = [kind |-> "create", value |-> amt,
                                      st |-> "pending"]]
    /\ waiter' = [waiter EXCEPT ![m] = "waiting"]

\* channel.addFunds: push a message to the channel address with value amt,
\* set PendingAmount := amt and AddFundsMsg := mcid, start the waiter.
addFunds(m, amt) ==
    /\ ci' = [ci EXCEPT !.pending = amt, !.addFundsMsg = m]
    /\ chain' = [chain EXCEPT ![m] = [kind |-> "addFunds", value |-> amt,
                                      st |-> "pending"]]
    /\ waiter' = [waiter EXCEPT ![m] = "waiting"]

\* Mutant: the queue is drained without checking for an outstanding
\* message, so a second message can be pushed while one is in flight.
processQueueNoWait(q, rq) ==
    LET active == ActiveReqs(q, rq)
        m == nextMsg
        amt == AmtSum([r \in Reqs |-> rq[r].amt], active)
    IN
    IF active = {}
    THEN /\ queue' = << >>
         /\ req' = rq
         /\ UNCHANGED <<ci, chain, nextMsg, waiter>>
    ELSE /\ queue' = << >>
         /\ m \in MsgIds
         /\ nextMsg' = m + 1
         /\ req' = [r \in Reqs |-> IF r \in active
                                    THEN [rq[r] EXCEPT !.st = "merged", !.msg = m]
                                    ELSE rq[r]]
         /\ IF ci.exists THEN addFunds(m, amt) ELSE create(m, amt)

\* processQueue (spec 4.6, steps 1-2): when the channel has no outstanding
\* message, drain the queue, merge the requests still active and send one
\* create (no channel yet) or add-funds message for their sum.  The push
\* may fail, which resolves every merged request with the error.
processQueue(q, rq) ==
    LET active == ActiveReqs(q, rq)
        m == nextMsg
        amt == AmtSum([r \in Reqs |-> rq[r].amt], active)
    IN
    IF HasOutstandingMsg(ci) \/ active = {}
    THEN \* wait for the outstanding message; or drop cancelled requests
         /\ queue' = IF HasOutstandingMsg(ci) THEN q ELSE << >>
         /\ req' = rq
         /\ UNCHANGED <<ci, chain, nextMsg, waiter>>
    ELSE /\ queue' = << >>
         /\ \/ \* mpoolPush fails: every merged request gets the error
               /\ req' = [r \in Reqs |-> IF r \in active
                                          THEN [rq[r] EXCEPT !.st = "err"]
                                          ELSE rq[r]]
               /\ UNCHANGED <<ci, chain, nextMsg, waiter>>
            \/ \* the message is pushed; the merge waits for its completion
               /\ m \in MsgIds
               /\ nextMsg' = m + 1
               /\ req' = [r \in Reqs |-> IF r \in active
                                          THEN [rq[r] EXCEPT !.st = "merged",
                                                             !.msg = m]
                                          ELSE rq[r]]
               /\ IF ci.exists THEN addFunds(m, amt) ELSE create(m, amt)

\* GetOrCreateChannel: enqueue a new fundsReq and process the queue.
GetOrCreateChannel(r, a) ==
    /\ req[r].st = "idle"
    /\ LET rq == [req EXCEPT ![r] = [amt |-> a, st |-> "queued",
                                     active |-> TRUE, msg |-> NoMsg]]
       IN processQueue(Append(queue, r), rq)
    /\ UNCHANGED <<actor, balance, waitErr, msgResult>>

\* fundsReq.cancel: the caller's context is cancelled; the request stops
\* being active and will receive no result.
cancel(r) ==
    /\ req[r].active
    /\ req[r].st \in {"queued", "merged"}
    /\ req' = [req EXCEPT ![r].active = FALSE]
    /\ UNCHANGED <<queue, ci, chain, actor, balance, nextMsg, waiter, waitErr,
                   msgResult>>

\* The chain executes a pushed message, with exit code zero or non-zero.
\* A successful create makes the actor with the message value as balance;
\* a successful add-funds message adds its value to the balance.
ChainExec(m) ==
    /\ chain[m].st = "pending"
    /\ \/ /\ chain' = [chain EXCEPT ![m].st = "ok"]
          /\ IF chain[m].kind = "create"
             THEN actor' = TRUE /\ balance' = chain[m].value
             ELSE actor' = actor /\ balance' = balance + chain[m].value
       \/ /\ chain' = [chain EXCEPT ![m].st = "failed"]
          /\ UNCHANGED <<actor, balance>>
    /\ UNCHANGED <<queue, req, ci, nextMsg, waiter, waitErr, msgResult>>

\* StateWaitMsg returns an error (RPC failure, ch.ctx cancelled), or the
\* create receipt fails to decode: the waiter returns the error without
\* touching the ChannelInfo, whatever the chain did with the message.
waitMsgError(m) ==
    /\ waiter[m] = "waiting"
    /\ waiter' = [waiter EXCEPT ![m] = "completing"]
    /\ waitErr' = [waitErr EXCEPT ![m] = TRUE]
    /\ UNCHANGED <<queue, req, ci, chain, actor, balance, nextMsg, msgResult>>

\* waitPaychCreateMsg after StateWaitMsg returned the receipt: on a
\* non-zero exit code remove the channel from the store; otherwise store
\* the robust address, Amount := PendingAmount, PendingAmount := 0 and
\* CreateMsg := nil.
waitPaychCreateMsg(m) ==
    /\ waiter[m] = "waiting"
    /\ chain[m].kind = "create"
    /\ chain[m].st \in {"ok", "failed"}
    /\ IF chain[m].st = "failed"
       THEN /\ ci' = NoChannel
            /\ waitErr' = [waitErr EXCEPT ![m] = TRUE]
       ELSE /\ ci' = [ci EXCEPT !.addr = TRUE, !.amount = ci.pending,
                                !.pending = 0, !.createMsg = NoMsg]
            /\ waitErr' = [waitErr EXCEPT ![m] = FALSE]
    /\ waiter' = [waiter EXCEPT ![m] = "completing"]
    /\ UNCHANGED <<queue, req, chain, actor, balance, nextMsg, msgResult>>

\* Mutant: on success Amount is overwritten with PendingAmount instead of
\* being increased by it.
waitAddFundsMsgOverwrite(m) ==
    /\ waiter[m] = "waiting"
    /\ chain[m].kind = "addFunds"
    /\ chain[m].st \in {"ok", "failed"}
    /\ IF chain[m].st = "failed"
       THEN /\ ci' = [ci EXCEPT !.pending = 0, !.addFundsMsg = NoMsg]
            /\ waitErr' = [waitErr EXCEPT ![m] = TRUE]
       ELSE /\ ci' = [ci EXCEPT !.amount = ci.pending, !.pending = 0,
                                !.addFundsMsg = NoMsg]
            /\ waitErr' = [waitErr EXCEPT ![m] = FALSE]
    /\ waiter' = [waiter EXCEPT ![m] = "completing"]
    /\ UNCHANGED <<queue, req, chain, actor, balance, nextMsg, msgResult>>

\* Mutant: on a non-zero exit code the pending amount is taken back off
\* Amount, as if it had been credited when the message was pushed.
waitAddFundsMsgRevert(m) ==
    /\ waiter[m] = "waiting"
    /\ chain[m].kind = "addFunds"
    /\ chain[m].st \in {"ok", "failed"}
    /\ IF chain[m].st = "failed"
       THEN /\ ci' = [ci EXCEPT !.amount = ci.amount - ci.pending, !.pending = 0,
                                !.addFundsMsg = NoMsg]
            /\ waitErr' = [waitErr EXCEPT ![m] = TRUE]
       ELSE /\ ci' = [ci EXCEPT !.amount = ci.amount + ci.pending,
                                !.pending = 0, !.addFundsMsg = NoMsg]
            /\ waitErr' = [waitErr EXCEPT ![m] = FALSE]
    /\ waiter' = [waiter EXCEPT ![m] = "completing"]
    /\ UNCHANGED <<queue, req, chain, actor, balance, nextMsg, msgResult>>

\* waitAddFundsMsg after StateWaitMsg returned the receipt: on a non-zero
\* exit code PendingAmount := 0; otherwise Amount += PendingAmount and
\* PendingAmount := 0; in both cases AddFundsMsg := nil.
waitAddFundsMsg(m) ==
    /\ waiter[m] = "waiting"
    /\ chain[m].kind = "addFunds"
    /\ chain[m].st \in {"ok", "failed"}
    /\ IF chain[m].st = "failed"
       THEN /\ ci' = [ci EXCEPT !.pending = 0, !.addFundsMsg = NoMsg]
            /\ waitErr' = [waitErr EXCEPT ![m] = TRUE]
       ELSE /\ ci' = [ci EXCEPT !.amount = ci.amount + ci.pending,
                                !.pending = 0, !.addFundsMsg = NoMsg]
            /\ waitErr' = [waitErr EXCEPT ![m] = FALSE]
    /\ waiter' = [waiter EXCEPT ![m] = "completing"]
    /\ UNCHANGED <<queue, req, chain, actor, balance, nextMsg, msgResult>>

\* Mutant: the completion listeners report success whatever the error
\* the waiter passed in.
msgWaitCompleteIgnoreErr(m) ==
    /\ waiter[m] = "completing"
    /\ waiter' = [waiter EXCEPT ![m] = "done"]
    /\ msgResult' = [msgResult EXCEPT ![m] = IF waitErr[m] THEN "err" ELSE "ok"]
    /\ req' = ResolveMerge(m, "ok")
    /\ UNCHANGED <<queue, ci, chain, actor, balance, nextMsg, waitErr>>

\* msgWaitComplete: save the message result, fire the completion listeners
\* (which resolve the merged requests' promises).  The queue is NOT
\* processed again: that call is commented out in the source.
msgWaitComplete(m) ==
    /\ waiter[m] = "completing"
    /\ waiter' = [waiter EXCEPT ![m] = "done"]
    /\ msgResult' = [msgResult EXCEPT ![m] = IF waitErr[m] THEN "err" ELSE "ok"]
    /\ req' = ResolveMerge(m, IF waitErr[m] THEN "err" ELSE "ok")
    /\ UNCHANGED <<queue, ci, chain, actor, balance, nextMsg, waitErr>>

\* The waiter goroutine of message m takes one step.
Waiter(m) ==
    \/ waitMsgError(m)
    \/ waitPaychCreateMsg(m)
    \/ waitAddFundsMsg(m)
    \/ msgWaitComplete(m)

Next ==
    \/ \E r \in Reqs, a \in Amounts : GetOrCreateChannel(r, a)
    \/ \E r \in Reqs : cancel(r)
    \/ \E m \in MsgIds : ChainExec(m) \/ Waiter(m)

\* Waiter goroutines are always scheduled and StateWaitMsg either returns
\* or fails; the chain eventually executes a pushed message.  Callers
\* (GetOrCreateChannel, cancel) are under no obligation to act.
Fairness ==
    \A m \in MsgIds : WF_vars(ChainExec(m)) /\ WF_vars(Waiter(m))

Spec == Init /\ [][Next]_vars

FairSpec == Spec /\ Fairness

-----------------------------------------------------------------------------
(***************************************************************************)
(* Properties                                                              *)
(***************************************************************************)

\* Funds accounting (spec invariant 1, property 2): the Amount recorded in
\* the ChannelInfo never exceeds what the channel actor holds on chain, and
\* once no create or add-funds message is outstanding it equals it.  It
\* rests on the waiters crediting PendingAmount only for a message the
\* chain executed with exit code zero, and on no second message being
\* pushed while one is outstanding.
AmountMatchesChain ==
    /\ ci.amount <= balance
    /\ (ci.exists /\ ~HasOutstandingMsg(ci)) => ci.amount = balance

\* Merge correctness (spec property 3): the callers whose promise resolved
\* without error asked, together, for no more than the channel's confirmed
\* Amount: a caller is never told its funds were added when the chain
\* rejected the message or the waiter failed.
FundedCoversResolved ==
    AmtSum([r \in Reqs |-> req[r].amt], {r \in Reqs : req[r].st = "ok"})
        <= ci.amount

\* Funds accounting, per step: the stored Amount never moves except when
\* the waiter of a message (waitPaychCreateMsg or waitAddFundsMsg) handles
\* the receipt of a message the chain executed with exit code zero, and
\* then it grows by exactly that message's value.  A failed create that
\* removes the channel, a failed add-funds message or a waiter error
\* leaves it as it was.
AmountCredited ==
    ci'.amount # ci.amount =>
        \E m \in MsgIds :
            /\ waiter[m] = "waiting" /\ waiter'[m] = "completing"
            /\ chain[m].st = "ok"
            /\ ci'.amount = ci.amount + chain[m].value

AmountOnlyCredited == [][AmountCredited]_vars

\* Every request merged into an on-chain message is eventually resolved
\* through msgWaitComplete's listeners, unless its caller cancelled it.
MergedResolved ==
    \A r \in Reqs :
        req[r].st = "merged" ~> (req[r].st \in {"ok", "err"} \/ ~req[r].active)

\* Spec 4.6 step 4 / design note: once the channel has no outstanding
\* message, a request still waiting on the queue is eventually merged and
\* sent (or resolved), because the completion of the outstanding message
\* processes the queue.
QueuedServed ==
    \A r \in Reqs :
        (req[r].st = "queued" /\ req[r].active /\ ~HasOutstandingMsg(ci))
            ~> (req[r].st # "queued" \/ ~req[r].active)

-----------------------------------------------------------------------------
(***************************************************************************)
(* Inductive strengthening of AmountMatchesChain, used by PaychProofs.     *)
(***************************************************************************)

\* Message ids from nextMsg on are unused: no message, no waiter.
FreshMsgs ==
    \A m \in MsgIds : m >= nextMsg =>
        chain[m] = [kind |-> "none", value |-> 0, st |-> "none"] /\ waiter[m] = "none"

\* Every message other than the one recorded on the ChannelInfo has been
\* executed by the chain, and a waiter still waiting waits on that one.
OnlyCurrentMsgPending ==
    \A m \in MsgIds :
        /\ chain[m].st = "pending" => m \in {ci.createMsg, ci.addFundsMsg}
        /\ waiter[m] = "waiting" => m \in {ci.createMsg, ci.addFundsMsg}
        /\ waiter[m] # "none" => chain[m].kind # "none"

\* While the create message is outstanding the ChannelInfo holds its value
\* as PendingAmount, and the actor exists exactly when it succeeded.
CreatePendingMatches ==
    ci.createMsg # NoMsg =>
        LET m == ci.createMsg IN
        /\ ci.exists /\ ~ci.addr /\ ci.addFundsMsg = NoMsg /\ ci.amount = 0
        /\ chain[m].kind = "create" /\ chain[m].value = ci.pending
        /\ IF chain[m].st = "ok" THEN actor /\ balance = chain[m].value
                                 ELSE ~actor /\ balance = 0

\* While an add-funds message is outstanding the ChannelInfo holds its value
\* as PendingAmount, and the balance includes it exactly when it succeeded.
AddFundsPendingMatches ==
    ci.addFundsMsg # NoMsg =>
        LET m == ci.addFundsMsg IN
        /\ ci.exists /\ ci.addr /\ ci.createMsg = NoMsg /\ actor
        /\ chain[m].kind = "addFunds" /\ chain[m].value = ci.pending
        /\ IF chain[m].st = "ok" THEN balance = ci.amount + chain[m].value
                                 ELSE balance = ci.amount

\* With no message outstanding the ChannelInfo, if any, is the actor.
IdleMatches ==
    ~HasOutstandingMsg(ci) =>
        IF ci.exists THEN ci.addr /\ actor /\ ci.amount = balance
                     ELSE ~actor /\ balance = 0 /\ ci = NoChannel

IInv ==
    /\ TypeOK
    /\ FreshMsgs
    /\ OnlyCurrentMsgPending
    /\ CreatePendingMatches
    /\ AddFundsPendingMatches
    /\ IdleMatches

=============================================================================
