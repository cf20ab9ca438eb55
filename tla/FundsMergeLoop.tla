---------------------------- MODULE FundsMergeLoop ----------------------------
(***************************************************************************)
(* Cancellation of merged funds requests (src/unnamed/part_000) with       *)
(* checkActive as the code runs it: a loop over m.reqs that takes each     *)
(* request's r.lk in turn (isActive), returns at the first active request  *)
(* and otherwise calls m.cancel().  A request may be cancelled between two *)
(* reads of one loop.  The loop visits m.reqs in slice order; here it may  *)
(* read the requests left in any order, which includes that one.          *)
(*                                                                         *)
(* FundsMerge runs each checkActive as one atomic step; this module is     *)
(* shown to implement it (ImplementsFundsMerge), so that the atomic view   *)
(* is sound for the code's loop.                                           *)
(***************************************************************************)
EXTENDS Naturals, FiniteSets

CONSTANT Reqs     \* the funds requests queued on the channel

\* A request's cancel goroutine: its context is not cancelled, it is in
\* the checkActive after its unlock, or it returned.
CancelPcs == {"live", "check", "done"}

\* The queue goroutine: before the drain, in newMergedFundsReq's
\* setMergeParent loop, in its final checkActive, or past it.
QueuePcs == {"queue", "parent", "check", "merged", "done"}

VARIABLES
    active,     \* r.active
    parent,     \* r.merge != nil
    cpc,        \* each request's cancel goroutine
    qpc,        \* the queue goroutine
    mreqs,      \* m.reqs
    todo,       \* requests of m.reqs whose merge parent is not set yet
    mcancelled, \* m.ctx is cancelled (m.cancel() was called)
    unread,     \* per cancel goroutine: requests its checkActive has not read
    qunread     \* the requests newMergedFundsReq's checkActive has not read

vars == <<active, parent, cpc, qpc, mreqs, todo, mcancelled, unread, qunread>>

TypeOK ==
    /\ active \in [Reqs -> BOOLEAN]
    /\ parent \in [Reqs -> BOOLEAN]
    /\ cpc \in [Reqs -> CancelPcs]
    /\ qpc \in QueuePcs
    /\ mreqs \in SUBSET Reqs
    /\ todo \in SUBSET Reqs
    /\ mcancelled \in BOOLEAN
    /\ unread \in [Reqs -> SUBSET Reqs]
    /\ qunread \in SUBSET Reqs

\* newFundsReq: every request starts active, with no merge parent.
Init ==
    /\ active = [r \in Reqs |-> TRUE]
    /\ parent = [r \in Reqs |-> FALSE]
    /\ cpc = [r \in Reqs |-> "live"]
    /\ qpc = "queue"
    /\ mreqs = {}
    /\ todo = {}
    /\ mcancelled = FALSE
    /\ unread = [r \in Reqs |-> {}]
    /\ qunread = {}

-----------------------------------------------------------------------------
\* The queue goroutine drains the queue (spec 4.6, step 1): the requests
\* still active are merged; with none there is nothing to send.
Drain ==
    /\ qpc = "queue"
    /\ LET A == {r \in Reqs : active[r]}
       IN  IF A = {}
           THEN qpc' = "done" /\ UNCHANGED <<mreqs, todo>>
           ELSE qpc' = "parent" /\ mreqs' = A /\ todo' = A
    /\ UNCHANGED <<active, parent, cpc, mcancelled, unread, qunread>>

\* newMergedFundsReq's loop: setMergeParent(m) on one request, under r.lk.
setMergeParent(r) ==
    /\ qpc = "parent"
    /\ r \in todo
    /\ parent' = [parent EXCEPT ![r] = TRUE]
    /\ todo' = todo \ {r}
    /\ UNCHANGED <<active, cpc, qpc, mreqs, mcancelled, unread, qunread>>

\* Mutant: newMergedFundsReq without its final checkActive.
newMergedNoCheck ==
    /\ qpc = "parent"
    /\ todo = {}
    /\ qpc' = "merged"
    /\ UNCHANGED <<active, parent, cpc, mreqs, todo, mcancelled, unread,
                   qunread>>

\* newMergedFundsReq, after the loop: m.checkActive() starts over m.reqs.
newMergedCheck ==
    /\ qpc = "parent"
    /\ todo = {}
    /\ qpc' = "check"
    /\ qunread' = mreqs
    /\ UNCHANGED <<active, parent, cpc, mreqs, todo, mcancelled, unread>>

\* One iteration of newMergedFundsReq's checkActive: isActive on a request
\* not read yet; an active one ends the call.
queueRead ==
    /\ qpc = "check"
    /\ \E q \in qunread :
         IF active[q]
         THEN qpc' = "merged" /\ qunread' = {}
         ELSE qpc' = qpc /\ qunread' = qunread \ {q}
    /\ UNCHANGED <<active, parent, cpc, mreqs, todo, mcancelled, unread>>

\* The loop found no active request: m.cancel().
queueCancel ==
    /\ qpc = "check"
    /\ qunread = {}
    /\ mcancelled' = TRUE
    /\ qpc' = "merged"
    /\ UNCHANGED <<active, parent, cpc, mreqs, todo, unread, qunread>>

\* fundsReq.cancel, under r.lk: the request stops being active and its
\* merge parent is read; with one, checkActive follows after the unlock.
cancel(r) ==
    /\ cpc[r] = "live"
    /\ active' = [active EXCEPT ![r] = FALSE]
    /\ IF parent[r]
       THEN cpc' = [cpc EXCEPT ![r] = "check"] /\ unread' = [unread EXCEPT ![r] = mreqs]
       ELSE cpc' = [cpc EXCEPT ![r] = "done"] /\ UNCHANGED unread
    /\ UNCHANGED <<parent, qpc, mreqs, todo, mcancelled, qunread>>

\* One iteration of the checkActive after a cancel's unlock.
cancelRead(r) ==
    /\ cpc[r] = "check"
    /\ \E q \in unread[r] :
         IF active[q]
         THEN cpc' = [cpc EXCEPT ![r] = "done"] /\ unread' = [unread EXCEPT ![r] = {}]
         ELSE cpc' = cpc /\ unread' = [unread EXCEPT ![r] = @ \ {q}]
    /\ UNCHANGED <<active, parent, qpc, mreqs, todo, mcancelled, qunread>>

\* Mutant: the loop stops one request short (off by one) and cancels.
cancelEndEarly(r) ==
    /\ cpc[r] = "check"
    /\ Cardinality(unread[r]) <= 1
    /\ mcancelled' = TRUE
    /\ cpc' = [cpc EXCEPT ![r] = "done"]
    /\ UNCHANGED <<active, parent, qpc, mreqs, todo, unread, qunread>>

\* The cancel's checkActive found no active request: m.cancel().
cancelEnd(r) ==
    /\ cpc[r] = "check"
    /\ unread[r] = {}
    /\ mcancelled' = TRUE
    /\ cpc' = [cpc EXCEPT ![r] = "done"]
    /\ UNCHANGED <<active, parent, qpc, mreqs, todo, unread, qunread>>

Next ==
    \/ Drain
    \/ \E r \in Reqs : setMergeParent(r)
    \/ newMergedCheck \/ queueRead \/ queueCancel
    \/ \E r \in Reqs : cancel(r) \/ cancelRead(r) \/ cancelEnd(r)

\* The queue goroutine and the cancel goroutines, once started, run to
\* their end; a caller's context need not be cancelled.
Fairness ==
    /\ WF_vars(Drain)
    /\ WF_vars(newMergedCheck) /\ WF_vars(queueRead \/ queueCancel)
    /\ \A r \in Reqs : /\ WF_vars(setMergeParent(r))
                       /\ WF_vars(cancelRead(r) \/ cancelEnd(r))

Spec == Init /\ [][Next]_vars

FairSpec == Spec /\ Fairness

-----------------------------------------------------------------------------
\* The loop reads, one lock at a time, what the atomic check of FundsMerge
\* reads at once; the queue goroutine is in FundsMerge's "parent" phase
\* until its checkActive decides.
Atomic == INSTANCE FundsMerge
              WITH qpc <- IF qpc = "check" THEN "parent" ELSE qpc

\* checkActive's loop behaves as one atomic check: whichever cancels come
\* between its reads, the loop cancels the merge exactly when a single
\* read of every request at its deciding iteration would, and returns
\* when that read would find an active request.
ImplementsFundsMerge == Atomic!Spec

\* Spec 4.6, step 4: once every request of a built merge is cancelled, the
\* merge's context is eventually cancelled, whatever the order of the
\* cancels, the setMergeParent calls and the reads of the checkActive loops.
AllCancelledCancelsMerge ==
    (qpc = "merged" /\ \A r \in mreqs : ~active[r]) ~> mcancelled

=============================================================================
