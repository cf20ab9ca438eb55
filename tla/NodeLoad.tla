------------------------------ MODULE NodeLoad ------------------------------
(***************************************************************************)
(* The node's Load goroutine (src/node/popn.go, current revision): the    *)
(* retrieval of one root, seen from the node.  Successive Loads share the  *)
(* offer cache (nd.omg) and the Index.  The retrieval machinery behind     *)
(* exchange.Tx (query, triage, transfer) is abstracted to its outcomes.    *)
(*                                                                         *)
(* results is unbuffered: a blocking send always reaches the consumer (the *)
(* Get handler ranges over it until it is closed), while sendErr and the   *)
(* event subscriber send with a default case, so their result reaches the  *)
(* consumer only if it is waiting in its receive at that moment.           *)
(***************************************************************************)
EXTENDS Naturals, Sequences

CONSTANTS
    Providers,  \* peers an offer for the root may come from
    NoOffer,    \* omg.GetOffer finds nothing
    MaxLoads    \* Loads in one behaviour

ASSUME NodeLoadAssumption ==
    /\ NoOffer \notin Providers
    /\ MaxLoads \in Nat

\* args.Key: "" retrieves the entries (the index) of the root; "k" a key.
Keys == {"", "k"}

\* What the consumer receives on results.
Results == {"error", "selected", "deal", "completed"}

\* The goroutine's position; "closed" is after close(results).
LoadPcs == {"closed", "lookup", "miner", "triage", "cachedTriage",
            "ongoing", "transfer", "completing", "cleanup", "crashed"}

VARIABLES
    lpc,        \* where the Load goroutine is
    key,        \* args.Key
    hasMiner,   \* args.Miner is set
    offer,      \* the goroutine's offer variable
    cached,     \* nd.omg's offer for the root
    indexed,    \* the root has a DataRef in the Index
    ctxDone,    \* the call's context is cancelled
    seen,       \* the results the consumer received from this Load
    loads       \* Loads started

vars == <<lpc, key, hasMiner, offer, cached, indexed, ctxDone, seen, loads>>

Offers == Providers \cup {NoOffer}

Init ==
    /\ lpc = "closed"
    /\ key = ""
    /\ hasMiner = FALSE
    /\ offer = NoOffer
    /\ cached = NoOffer
    /\ indexed = FALSE
    /\ ctxDone = FALSE
    /\ seen = <<>>
    /\ loads = 0

-----------------------------------------------------------------------------
\* sendErr: select with a default case on the unbuffered results; the
\* error is received only if the consumer is waiting.
SendErr ==
    \/ seen' = Append(seen, "error")
    \/ UNCHANGED seen

\* sendErr(err); return: the deferred unsub, tx.Close and close(results).
ErrExit ==
    /\ SendErr
    /\ lpc' = "closed"

\* A blocking send of r on results.
Send(r) == seen' = Append(seen, r)

\* Load is called and its goroutine starts: the path is split (an invalid
\* path: sendErr and return) and the strategy is chosen; an unknown
\* strategy calls sendErr and carries on with SelectFirst.
Start ==
    /\ lpc = "closed"
    /\ loads < MaxLoads
    /\ loads' = loads + 1
    /\ ctxDone' = FALSE
    /\ offer' = NoOffer
    /\ \E k \in Keys, m \in BOOLEAN :
         /\ key' = k
         /\ hasMiner' = m
    /\ \/ /\ seen' = <<>>
          /\ lpc' = "lookup"
       \/ \* unknown strategy
          /\ \/ seen' = <<"error">>
             \/ seen' = <<>>
          /\ lpc' = "lookup"
       \/ \* SplitAbsPath fails
          /\ \/ seen' = <<"error">>
             \/ seen' = <<>>
          /\ lpc' = "closed"
    /\ UNCHANGED <<cached, indexed>>

\* omg.GetOffer(root) finds no offer: tx.Query over gossip (an error ends
\* the Load), then the miner query if args.Miner is set, then triage.
LookupGossip ==
    /\ lpc = "lookup"
    /\ cached = NoOffer
    /\ \/ ErrExit
       \/ /\ lpc' = IF hasMiner THEN "miner" ELSE "triage"
          /\ UNCHANGED seen
    /\ UNCHANGED <<key, hasMiner, offer, cached, indexed, ctxDone,
                   loads>>

\* omg.GetOffer(root) finds an offer: its AddrInfo and a direct QueryOffer
\* to its provider (either error ends the Load), then the "selected"
\* result is sent before triage.
LookupCached ==
    /\ lpc = "lookup"
    /\ cached # NoOffer
    /\ \/ /\ ErrExit
          /\ UNCHANGED offer
       \/ /\ offer' = cached
          /\ Send("selected")
          /\ lpc' = "cachedTriage"
    /\ UNCHANGED <<key, hasMiner, cached, indexed, ctxDone, loads>>

\* The miner query: address.NewFromString or filMinerInfo fails, sendErr
\* is called without returning and *info dereferences the nil pointer
\* filMinerInfo returned; otherwise QueryOffer's error is only logged.
MinerQuery ==
    /\ lpc = "miner"
    /\ \/ /\ SendErr
          /\ lpc' = "crashed"
       \/ /\ lpc' = "triage"
          /\ UNCHANGED seen
    /\ UNCHANGED <<key, hasMiner, offer, cached, indexed, ctxDone,
                   loads>>

\* tx.Triage() on the gossip path: the selection's offer is sent as
\* "selected" and executed.
Triage ==
    /\ lpc = "triage"
    /\ \/ /\ ErrExit
          /\ UNCHANGED offer
       \/ \E q \in Providers :
            /\ offer' = q
            /\ Send("selected")
            /\ lpc' = "ongoing"
    /\ UNCHANGED <<key, hasMiner, cached, indexed, ctxDone, loads>>

\* tx.Triage() on the cached-offer path, then selection.Exec().
CachedTriage ==
    /\ lpc = "cachedTriage"
    /\ \/ ErrExit
       \/ /\ lpc' = "ongoing"
          /\ UNCHANGED seen
    /\ UNCHANGED <<key, hasMiner, offer, cached, indexed, ctxDone,
                   loads>>

\* select on tx.Ongoing() and ctx.Done(); the deal id is then sent.
Ongoing ==
    /\ lpc = "ongoing"
    /\ \/ /\ ctxDone
          /\ ErrExit
       \/ /\ Send("deal")
          /\ lpc' = "transfer"
    /\ UNCHANGED <<key, hasMiner, offer, cached, indexed, ctxDone,
                   loads>>

\* Mutant: "Completed" is sent before the DataRef is set.
TransferCompletedFirst ==
    /\ lpc = "transfer"
    /\ \/ /\ ctxDone
          /\ lpc' = "closed"
          /\ UNCHANGED <<cached, indexed, seen>>
       \/ /\ ErrExit
          /\ UNCHANGED <<cached, indexed>>
       \/ /\ cached' = IF key = "" THEN offer ELSE cached
          /\ \/ /\ indexed' = TRUE
                /\ seen' = Append(seen, "completed")
                /\ lpc' = "cleanup"
             \/ /\ seen' = Append(seen, "completed")
                /\ lpc' = "closed"
                /\ UNCHANGED indexed
    /\ UNCHANGED <<key, hasMiner, offer, ctxDone, loads>>

\* select on tx.Done() and ctx.Done().  On success an index-only Load
\* caches its offer (omg.SetOffer), then the DataRef is set (or updated
\* when it already exists); another SetRef error ends the Load.
Transfer ==
    /\ lpc = "transfer"
    /\ \/ /\ ctxDone
          /\ lpc' = "closed"
          /\ UNCHANGED <<cached, indexed, seen>>
       \/ /\ ErrExit
          /\ UNCHANGED <<cached, indexed>>
       \/ /\ cached' = IF key = "" THEN offer ELSE cached
          /\ \/ /\ indexed' = TRUE
                /\ lpc' = "completing"
                /\ UNCHANGED seen
             \/ /\ ErrExit
                /\ UNCHANGED indexed
    /\ UNCHANGED <<key, hasMiner, offer, ctxDone, loads>>

\* The "Completed" result, in a select with ctx.Done().
Completing ==
    /\ lpc = "completing"
    /\ \/ /\ Send("completed")
          /\ lpc' = "cleanup"
       \/ /\ ctxDone
          /\ ErrExit
    /\ UNCHANGED <<key, hasMiner, offer, cached, indexed, ctxDone,
                   loads>>

\* After a paid transfer (res.PayCh set): the offer is removed when no key
\* of the root is missing or the channel has no funds left.
Cleanup ==
    /\ lpc = "cleanup"
    /\ lpc' = "closed"
    /\ \/ cached' = NoOffer
       \/ UNCHANGED cached
    /\ UNCHANGED <<key, hasMiner, offer, indexed, ctxDone, seen,
                   loads>>

\* The caller's context is cancelled.
Cancel ==
    /\ lpc \notin {"closed", "crashed"}
    /\ ~ctxDone
    /\ ctxDone' = TRUE
    /\ UNCHANGED <<lpc, key, hasMiner, offer, cached, indexed, seen,
                   loads>>

Next ==
    \/ Start \/ LookupGossip \/ LookupCached \/ MinerQuery \/ Triage \/ CachedTriage
    \/ Ongoing \/ Transfer \/ Completing \/ Cleanup \/ Cancel

Spec == Init /\ [][Next]_vars

-----------------------------------------------------------------------------
\* A Load that reports "Completed" has put the root in the Index first:
\* the consumer may read the content as soon as it sees Completed.
CompletedImpliesIndexed ==
    (\E i \in 1..Len(seen) : seen[i] = "completed") => indexed

\* Spec 4.7, Finalizing: on Completed the Index is updated (SetRef, or
\* UpdateRef when the ref exists) and only then is the offer kept in the
\* offer cache; so an offer is cached for the root only once the root's
\* DataRef is in the Index, and a later Load that reuses the cached offer
\* (skipping the query) works on a root the node holds.
CachedOfferIndexed ==
    cached # NoOffer => indexed

\* Spec 4.7, failures: a Load that ends without being cancelled surfaces
\* its outcome, "Completed" or an error, to the caller.
LoadReportsOutcome ==
    (lpc = "closed" /\ loads > 0 /\ ~ctxDone) =>
        \E i \in 1..Len(seen) : seen[i] \in {"completed", "error"}

\* The Load goroutine never panics (a panic in it takes the node down).
NoNilDeref == lpc # "crashed"

=============================================================================
