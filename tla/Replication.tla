----------------------------- MODULE Replication -----------------------------
(***************************************************************************)
(* Replication of one committed root (src/unnamed/part_001, package       *)
(* exchange): the Dispatch goroutine on the client, the request handler    *)
(* and the data-transfer error subscriber on each provider, the pull       *)
(* authorization set consulted by ValidatePull, and the Dispatch event     *)
(* subscriber that turns Completed transfers into PRecords.                *)
(*                                                                         *)
(* Time is abstracted: the backoff timer may fire at any point while the   *)
(* goroutine waits, so a late transfer races the timer.  Streams may fail  *)
(* (sendAllRequests ignores the error), so a Request may be lost.          *)
(***************************************************************************)
EXTENDS Naturals, Sequences, FiniteSets

CONSTANTS
    Providers,      \* peers PeerMgr returns for our regions
    Clients,        \* peers retrieving the root from us under a retrieval
                    \* voucher (not providers; outside our regions)
    RF,             \* DispatchOptions.RF
    MaxAttempts     \* DispatchOptions.BackoffAttemps

ASSUME ReplicationAssumption ==
    /\ Providers \cap Clients = {}
    /\ RF \in Nat \ {0}
    /\ MaxAttempts \in Nat

\* State of the pull channel a provider opened towards us.
ChanStates == {"none", "open", "completed", "failed"}

\* The goroutine started by Dispatch: at the top of the "requests" loop,
\* in the select on the timer and resChan, or returned.
DispatchPcs == {"loop", "wait", "done"}

VARIABLES
    dpc,        \* where the Dispatch goroutine is
    attempt,    \* b.Attempt() of the backoff
    n,          \* confirmations received so far
    rcv,        \* the peers requests were sent to
    pulls,      \* r.pulls[root]: the peers authorized to pull
    subscribed, \* the Dispatch event subscriber is registered (before unsub)
    resChan,    \* the buffered channel from the subscriber to the goroutine
    out,        \* the PRecord providers sent on the result channel
    inflight,   \* Requests written to a provider's stream, not yet handled
    provRef,    \* providers holding a DataRef for the root in their Index
    chan,       \* each provider's pull channel
    retrieved   \* clients whose retrieval of the root completed

vars == <<dpc, attempt, n, rcv, pulls, subscribed, resChan, out,
          inflight, provRef, chan, retrieved>>

Peers == Providers \cup Clients

TypeOK ==
    /\ dpc \in DispatchPcs
    /\ attempt \in 0..(MaxAttempts + 1)
    /\ n \in 0..RF
    /\ rcv \in SUBSET Providers
    /\ pulls \in SUBSET Providers
    /\ subscribed \in BOOLEAN
    /\ resChan \in Seq(Peers) /\ Len(resChan) <= RF
    /\ out \in Seq(Peers) /\ Len(out) <= RF
    /\ inflight \in SUBSET Providers
    /\ provRef \in SUBSET Providers
    /\ chan \in [Providers -> ChanStates]
    /\ retrieved \in SUBSET Clients

\* Dispatch has subscribed to transfer events and started its goroutine.
Init ==
    /\ dpc = "loop"
    /\ attempt = 0
    /\ n = 0
    /\ rcv = {}
    /\ pulls = {}
    /\ subscribed = TRUE
    /\ resChan = <<>>
    /\ out = <<>>
    /\ inflight = {}
    /\ provRef = {}
    /\ chan = [p \in Providers |-> "none"]
    /\ retrieved = {}

-----------------------------------------------------------------------------
\* PeerMgr.Peers(k, rgs, rcv): up to k peers of our regions not in rcv.
SelectPeers(k, except) ==
    {P \in SUBSET (Providers \ except) :
        Cardinality(P) = IF Cardinality(Providers \ except) < k
                         THEN Cardinality(Providers \ except) ELSE k}

\* AuthorizePull for each peer of P: add it to the set of r.pulls[root].
AuthorizePull(P) == pulls \cup P

\* ValidatePull(receiver, ..., root): the receiver is in r.pulls[root].
ValidatePull(p) == p \in pulls

\* sendAllRequests(req, P): the peers whose stream opened and whose write
\* succeeded (the others are skipped).
SendAllRequests(P) == SUBSET P

\* The goroutine returns: the deferred unsub() and close(out).
Return ==
    /\ dpc' = "done"
    /\ subscribed' = FALSE

\* Mutant: the backoff attempt is not advanced by a round.
DispatchRoundNoBackoff ==
    /\ dpc = "loop"
    /\ IF attempt > MaxAttempts
       THEN /\ Return
            /\ UNCHANGED <<attempt, rcv, pulls, inflight>>
       ELSE \E P \in SelectPeers(RF - n, rcv) : \E D \in SendAllRequests(P) :
              /\ pulls' = AuthorizePull(P)
              /\ rcv' = rcv \cup P
              /\ inflight' = inflight \cup D
              /\ dpc' = "wait"
              /\ UNCHANGED <<attempt, subscribed>>
    /\ UNCHANGED <<n, resChan, out, provRef, chan, retrieved>>

\* Top of the requests loop: give up once the attempts are spent;
\* otherwise authorize the selected providers, send them the Request
\* (a stream that fails to open or write is skipped), and start the timer
\* for b.Duration(), which advances the attempt count.
DispatchRound ==
    /\ dpc = "loop"
    /\ IF attempt > MaxAttempts
       THEN /\ Return
            /\ UNCHANGED <<attempt, rcv, pulls, inflight>>
       ELSE \E P \in SelectPeers(RF - n, rcv) : \E D \in SendAllRequests(P) :
              /\ pulls' = AuthorizePull(P)
              /\ rcv' = rcv \cup P
              /\ inflight' = inflight \cup D
              /\ attempt' = attempt + 1
              /\ dpc' = "wait"
              /\ UNCHANGED subscribed
    /\ UNCHANGED <<n, resChan, out, provRef, chan, retrieved>>

\* The backoff timer fires: continue requests.
DispatchTimer ==
    /\ dpc = "wait"
    /\ dpc' = "loop"
    /\ UNCHANGED <<attempt, n, rcv, pulls, subscribed, resChan, out,
                   inflight, provRef, chan, retrieved>>

\* Mutant: off by one in the RF check, one confirmation too many.
DispatchReceiveOffByOne ==
    /\ dpc = "wait"
    /\ resChan # <<>>
    /\ out' = Append(out, Head(resChan))
    /\ resChan' = Tail(resChan)
    /\ n' = n + 1
    /\ IF n = RF THEN Return ELSE UNCHANGED <<dpc, subscribed>>
    /\ UNCHANGED <<attempt, rcv, pulls, inflight, provRef, chan, retrieved>>

\* A confirmation arrives on resChan: forward it, count it, and return
\* once RF are counted.
DispatchReceive ==
    /\ dpc = "wait"
    /\ resChan # <<>>
    /\ out' = Append(out, Head(resChan))
    /\ resChan' = Tail(resChan)
    /\ n' = n + 1
    /\ IF n + 1 = RF THEN Return ELSE UNCHANGED <<dpc, subscribed>>
    /\ UNCHANGED <<attempt, rcv, pulls, inflight, provRef, chan, retrieved>>

\* Mutant: the pull channel is opened even when SetRef failed.
HandleRequestIgnoreSetRef(p) ==
    /\ p \in inflight
    /\ inflight' = inflight \ {p}
    /\ \E ok \in BOOLEAN :
         /\ provRef' = IF ok THEN provRef \cup {p} ELSE provRef
         /\ IF ValidatePull(p)
            THEN chan' = [chan EXCEPT ![p] = "open"]
            ELSE UNCHANGED chan
    /\ UNCHANGED <<dpc, attempt, n, rcv, pulls, subscribed, resChan, out,
                   retrieved>>

\* handleRequest on provider p: read the Request, SetRef a provisional
\* DataRef (which may fail), then open the pull channel; our ValidatePull
\* accepts it only if p is in pulls[root].
HandleRequest(p) ==
    /\ p \in inflight
    /\ inflight' = inflight \ {p}
    /\ \/ UNCHANGED <<provRef, chan>>
       \/ /\ provRef' = provRef \cup {p}
          /\ IF ValidatePull(p)
             THEN chan' = [chan EXCEPT ![p] = "open"]
             ELSE UNCHANGED chan
    /\ UNCHANGED <<dpc, attempt, n, rcv, pulls, subscribed, resChan, out,
                   retrieved>>

\* The event subscribers on a Completed event for the root: Dispatch's
\* subscriber, while registered, sends the recipient on resChan (a send
\* that blocks the event loop while the buffer of RF is full).
NotifyCompleted(p) ==
    IF subscribed
    THEN /\ Len(resChan) < RF
         /\ resChan' = Append(resChan, p)
    ELSE UNCHANGED resChan

\* Provider p's pull completes.
TransferComplete(p) ==
    /\ chan[p] = "open"
    /\ chan' = [chan EXCEPT ![p] = "completed"]
    /\ NotifyCompleted(p)
    /\ UNCHANGED <<dpc, attempt, n, rcv, pulls, subscribed, out, inflight,
                   provRef, retrieved>>

\* Provider p's pull fails: the provider's subscriber (Error event, it is
\* the recipient) drops the DataRef from its Index.
TransferFail(p) ==
    /\ chan[p] = "open"
    /\ chan' = [chan EXCEPT ![p] = "failed"]
    /\ provRef' = provRef \ {p}
    /\ UNCHANGED <<dpc, attempt, n, rcv, pulls, subscribed, resChan, out,
                   inflight, retrieved>>

\* A client's paid retrieval of the same root from us completes: the
\* transfer manager reports Completed with the client as recipient.
RetrievalComplete(c) ==
    /\ c \notin retrieved
    /\ retrieved' = retrieved \cup {c}
    /\ NotifyCompleted(c)
    /\ UNCHANGED <<dpc, attempt, n, rcv, pulls, subscribed, out, inflight,
                   provRef, chan>>

Next ==
    \/ DispatchRound
    \/ DispatchTimer
    \/ DispatchReceive
    \/ \E p \in Providers :
         HandleRequest(p) \/ TransferComplete(p) \/ TransferFail(p)
    \/ \E c \in Clients : RetrievalComplete(c)

\* The goroutine runs and its timer fires; received Requests are handled.
Fairness ==
    /\ WF_vars(DispatchRound)
    /\ WF_vars(DispatchTimer)
    /\ WF_vars(DispatchReceive)

Spec == Init /\ [][Next]_vars

FairSpec == Spec /\ Fairness

-----------------------------------------------------------------------------
\* Every PRecord Dispatch yields for a provider names a peer it authorized
\* that still holds the root: the pull passed ValidatePull, the provider's
\* SetRef succeeded, and its DataRef was not dropped by a failed transfer.
ConfirmedProvidersHold ==
    \A i \in 1..Len(out) :
        out[i] \in Providers => out[i] \in pulls /\ out[i] \in provRef

\* Spec 8, properties 4 and 5: the PRecords Dispatch yields come from
\* distinct peers of our regions (the providers PeerMgr returns).
RecordsFromDistinctProviders ==
    /\ \A i \in 1..Len(out) : out[i] \in Providers
    /\ \A i, j \in 1..Len(out) : i # j => out[i] # out[j]

\* Dispatch always ends: it returns (unsubscribing and closing the result
\* channel) after RF confirmations or when the attempts are spent.
DispatchTerminates == <>(dpc = "done" /\ ~subscribed)

=============================================================================
