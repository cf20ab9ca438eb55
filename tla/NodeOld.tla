------------------------------- MODULE NodeOld -------------------------------
(***************************************************************************)
(* The older revision of the node kept at the top of src/node/popn.go     *)
(* (lines 1-875): files are added to a transaction (Add), the transaction *)
(* is committed and archived (Pack), a storage quote is asked for a commit *)
(* (Quote), the commit is pushed to storage miners under the last quote   *)
(* (Push), and a root is retrieved from the network (Get).  The handlers  *)
(* run one at a time here: what is checked is the order in which a client *)
(* may call them.                                                          *)
(*                                                                         *)
(* A commit's root is the set of keys it holds; the I/O behind the calls  *)
(* (the DAG, the CAR archive, the Filecoin RPC) is abstracted to whether   *)
(* it fails.                                                               *)
(***************************************************************************)
EXTENDS FiniteSets

CONSTANTS
    Keys,       \* file keys
    NoRef,      \* nd.lastRef == nil
    NoQuote     \* nd.sQuote == nil

VARIABLES
    txOpen,     \* nd.tx != nil
    staged,     \* the keys put in the transaction
    index,      \* roots recorded in the Index by SetRef
    lastRef,    \* nd.lastRef
    sQuote,     \* nd.sQuote: the commit it was asked for
    deals       \* the commits Push made a storage deal for

vars == <<txOpen, staged, index, lastRef, sQuote, deals>>

Init ==
    /\ txOpen = FALSE
    /\ staged = {}
    /\ index = {}
    /\ lastRef = NoRef
    /\ sQuote = NoQuote
    /\ deals = {}

-----------------------------------------------------------------------------
\* Add, under txmu: open a transaction if there is none, then tx.Put the
\* file (which may fail).
Add(k) ==
    /\ txOpen' = TRUE
    /\ \/ staged' = staged \cup {k}
       \/ UNCHANGED staged
    /\ UNCHANGED <<index, lastRef, sQuote, deals>>

\* Mutant: lastRef is recorded as soon as the transaction is committed,
\* before SetRef (which may then fail).
PackRefFirst ==
    /\ txOpen
    /\ lastRef' = staged
    /\ \/ index' = index \cup {staged}
       \/ UNCHANGED index
    /\ UNCHANGED <<txOpen, staged, sQuote, deals>>

\* Pack: with a transaction, tx.Commit(), archive and Index().SetRef; each
\* may fail and end the call.  On success lastRef is set under rmu.  The
\* transaction is left open with its content.
Pack ==
    /\ txOpen
    /\ index' = index \cup {staged}
    /\ lastRef' = staged
    /\ UNCHANGED <<txOpen, staged, sQuote, deals>>

\* getCommit: the commit named by the argument (which the Index must
\* hold), or lastRef when none is named.
Commits(r) ==
    IF r = NoRef THEN (IF lastRef = NoRef THEN {} ELSE {lastRef})
    ELSE (IF r \in index THEN {r} ELSE {})

\* Quote: with Filecoin online, getCommit, the store, the archive, then
\* GetMarketQuote, whose result is stored in sQuote under qmu before its
\* error is checked (nil on error).
Quote(r) ==
    /\ \E com \in Commits(r) :
         \/ sQuote' = com
         \/ sQuote' = NoQuote
    /\ UNCHANGED <<txOpen, staged, index, lastRef, deals>>

\* Push with StorageRF > 0: getCommit, then the miners of sQuote (an error
\* when there is none) are offered a deal for the commit; Store may fail or
\* make no deal.  The Dispatch of the cache branch changes nothing here.
\* Only the quote's miners reach Store, so a deal records its commit.
Push(r) ==
    /\ sQuote # NoQuote
    /\ \E com \in Commits(r) :
         deals' = deals \cup {com}
    /\ UNCHANGED <<txOpen, staged, index, lastRef, sQuote>>

\* Get of a root: one the Index holds is served locally (GetStoreID), with
\* no change.  Another is retrieved by get: the strategy, the miner's
\* address and PeerInfo, the query, Checkout, the deal and the transfer
\* may each fail (or the context end) and return the error; after the
\* transfer (and export) the DataRef is set by SetRef, which may fail too.
Get(r) ==
    /\ r \notin index
    /\ \/ index' = index \cup {r}
       \/ UNCHANGED index
    /\ UNCHANGED <<txOpen, staged, lastRef, sQuote, deals>>

Next ==
    \/ \E k \in Keys : Add(k)
    \/ Pack
    \/ \E r \in (SUBSET Keys) \cup {NoRef} : Quote(r) \/ Push(r)
    \/ \E r \in SUBSET Keys : Get(r)

Spec == Init /\ [][Next]_vars

-----------------------------------------------------------------------------
\* Every storage deal Push makes is for a commit the Index holds, also
\* when Push is called with no ref and pushes nd.lastRef: Pack sets
\* lastRef only after SetRef succeeded.
DealsIndexed == deals \subseteq index

=============================================================================
