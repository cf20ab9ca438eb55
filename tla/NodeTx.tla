-------------------------------- MODULE NodeTx --------------------------------
(***************************************************************************)
(* The node's ongoing content transaction (src/node/popn.go, current       *)
(* revision): the RPC handlers Put, Status, Commit and Get share nd.tx     *)
(* under the mutex nd.txmu.  Each caller runs one handler at a time; the   *)
(* RPC server runs the callers concurrently.                               *)
(*                                                                         *)
(* Content is addressed: a transaction's root is determined by its staged  *)
(* entries, so a root is modelled as the set of keys it holds.  The Index  *)
(* is the set of committed roots.  The I/O the handlers do (reading files, *)
(* building the DAG, writing outputs, the retrieval behind Load) is        *)
(* abstracted to whether it fails.                                         *)
(***************************************************************************)
EXTENDS FiniteSets

CONSTANTS
    Callers,    \* concurrent RPC callers (model values)
    Keys,       \* file keys a Put may stage
    NoOwner     \* txmu is free

ASSUME CallersAssumption == NoOwner \notin Callers

\* No ongoing transaction (nd.tx == nil).
NoTx == [staged |-> {}, open |-> FALSE]

Txs == [staged : SUBSET Keys, open : BOOLEAN]

\* The handler a caller is in, or the step after txmu is released.
Calls == {"idle", "put", "status", "commit", "get", "gc", "load"}

VARIABLES
    txmu,       \* holder of nd.txmu
    tx,         \* nd.tx
    index,      \* roots recorded in the Index by SetRef
    pc,         \* the handler each caller is running
    arg,        \* its argument: keys to put, or the root to get
    putOk       \* keys of the Puts that reported success

vars == <<txmu, tx, index, pc, arg, putOk>>

Init ==
    /\ txmu = NoOwner
    /\ tx = NoTx
    /\ index = {}
    /\ pc = [c \in Callers |-> "idle"]
    /\ arg = [c \in Callers |-> {}]
    /\ putOk = {}

-----------------------------------------------------------------------------
\* A caller issues an RPC: Put of a file tree, Status, Commit, or Get of a
\* root.
Call(c) ==
    /\ pc[c] = "idle"
    /\ \/ \E S \in SUBSET Keys \ {{}} : pc' = [pc EXCEPT ![c] = "put"] /\ arg' = [arg EXCEPT ![c] = S]
       \/ pc' = [pc EXCEPT ![c] = "status"] /\ UNCHANGED arg
       \/ pc' = [pc EXCEPT ![c] = "commit"] /\ UNCHANGED arg
       \/ \E R \in SUBSET Keys : pc' = [pc EXCEPT ![c] = "get"] /\ arg' = [arg EXCEPT ![c] = R]
    /\ UNCHANGED <<txmu, tx, index, putOk>>

\* addRecursive over a tree of files F (each file is added to the DAG, then
\* tx.Put under its key): the files it staged, all of them or the ones
\* before the first failing file.
AddRecursive(F) == SUBSET F

\* Mutant: a new transaction on every Put (the nd.tx == nil check dropped).
PutNewTx(c) ==
    /\ pc[c] = "put"
    /\ txmu = NoOwner
    /\ \E S \in AddRecursive(arg[c]) :
         /\ tx' = [staged |-> S, open |-> TRUE]
         /\ \/ S = arg[c] /\ putOk' = putOk \cup S
            \/ UNCHANGED putOk
    /\ pc' = [pc EXCEPT ![c] = "idle"]
    /\ UNCHANGED <<txmu, index, arg>>

\* Put, under txmu (released by the deferred Unlock): open a transaction if
\* there is none, then stage the files.  os.Stat, NewSerialFile,
\* addRecursive or tx.Status may fail; addRecursive stops at the first
\* failing file, so the files staged before it stay in the transaction.
Put(c) ==
    /\ pc[c] = "put"
    /\ txmu = NoOwner
    /\ \E S \in AddRecursive(arg[c]) :
         /\ tx' = [staged |-> tx.staged \cup S, open |-> TRUE]
         /\ \/ S = arg[c] /\ putOk' = putOk \cup S
            \/ UNCHANGED putOk
    /\ pc' = [pc EXCEPT ![c] = "idle"]
    /\ UNCHANGED <<txmu, index, arg>>

\* Status, under txmu (deferred Unlock): report the transaction, or ErrNoTx.
Status(c) ==
    /\ pc[c] = "status"
    /\ txmu = NoOwner
    /\ pc' = [pc EXCEPT ![c] = "idle"]
    /\ UNCHANGED <<txmu, tx, index, arg, putOk>>

\* Commit, up to the release of txmu.  With no transaction: unlock and
\* report ErrNoTx.  Otherwise tx.Commit(), then Index().SetRef(ref); both
\* error paths send the error and return with txmu still held.  On success
\* the transaction is closed, nd.tx = nil and txmu is released.
Commit(c) ==
    /\ pc[c] = "commit"
    /\ txmu = NoOwner
    /\ IF ~tx.open
       THEN /\ pc' = [pc EXCEPT ![c] = "idle"]
            /\ UNCHANGED <<txmu, tx, index>>
       ELSE \/ \* tx.Commit() fails, or Index().SetRef fails (the Index
               \* is a dependency, outside this repository)
               /\ txmu' = c
               /\ pc' = [pc EXCEPT ![c] = "idle"]
               /\ UNCHANGED <<tx, index>>
            \/ /\ index' = index \cup {tx.staged}
               /\ tx' = NoTx
               /\ pc' = [pc EXCEPT ![c] = "gc"]
               /\ UNCHANGED txmu
    /\ UNCHANGED <<arg, putOk>>

\* Commit after txmu is released: Index().GC(), then the result is sent.
CommitGC(c) ==
    /\ pc[c] = "gc"
    /\ pc' = [pc EXCEPT ![c] = "idle"]
    /\ UNCHANGED <<txmu, tx, index, arg, putOk>>

\* Get takes txmu to look at the ongoing transaction.  When its root is
\* the one asked for, the file is written from it (GetFile, WriteTo) and
\* Get returns on every path, error or success, without unlocking txmu.
\* Otherwise txmu is released and the content is looked up or loaded.
Get(c) ==
    /\ pc[c] = "get"
    /\ txmu = NoOwner
    /\ IF tx.open /\ tx.staged = arg[c]
       THEN /\ txmu' = c
            /\ pc' = [pc EXCEPT ![c] = "idle"]
       ELSE /\ pc' = [pc EXCEPT ![c] = "load"]
            /\ UNCHANGED txmu
    /\ UNCHANGED <<tx, index, arg, putOk>>

\* Get after txmu: IsLocal, Load from the network, write the file.
GetLoad(c) ==
    /\ pc[c] = "load"
    /\ pc' = [pc EXCEPT ![c] = "idle"]
    /\ UNCHANGED <<txmu, tx, index, arg, putOk>>

Next ==
    \E c \in Callers :
        \/ Call(c)
        \/ Put(c)
        \/ Status(c)
        \/ Commit(c)
        \/ CommitGC(c)
        \/ Get(c)
        \/ GetLoad(c)

\* The Go scheduler runs every runnable goroutine, and a goroutine blocked
\* on txmu.Lock() gets the mutex once it is free.  Callers need not call.
Fairness ==
    \A c \in Callers :
        /\ WF_vars(Put(c)) /\ WF_vars(Status(c)) /\ WF_vars(Commit(c))
        /\ WF_vars(CommitGC(c)) /\ WF_vars(Get(c)) /\ WF_vars(GetLoad(c))

Spec == Init /\ [][Next]_vars

FairSpec == Spec /\ Fairness

-----------------------------------------------------------------------------
\* Staged content is never lost: every key whose Put reported success is
\* still in the ongoing transaction or in a root the Commit handler
\* recorded in the Index, whatever Commit's tx.Commit and SetRef did.
NoLostPuts ==
    \A k \in putOk : k \in tx.staged \/ \E r \in index : k \in r

\* Every RPC call returns and releases txmu, so that the next call on the
\* node gets through (Put, Status, Commit and Get all take txmu).
CallsComplete ==
    \A c \in Callers : pc[c] # "idle" ~> (pc[c] = "idle" /\ txmu # c)

=============================================================================
