------------------------------ MODULE FundsMerge ------------------------------
(***************************************************************************)
(* Cancellation of merged funds requests (src/unnamed/part_000, fundsReq   *)
(* and mergedFundsReq), at the grain of the locks.  Three kinds of         *)
(* goroutine meet here:                                                    *)
(*   - the queue's goroutine builds one merge of the requests still active *)
(*     (newMergedFundsReq: setMergeParent on each, then checkActive);      *)
(*   - each caller's context-watching goroutine runs fundsReq.cancel:      *)
(*     under r.lk it clears active and reads r.merge, then, after the      *)
(*     unlock, calls checkActive on the parent it read, if any;            *)
(*   - checkActive cancels the merge's context when no request of it is    *)
(*     active.                                                             *)
(* Each r.lk section is one step.  checkActive reads the requests one at a *)
(* time, but active only ever goes from TRUE to FALSE, so its loop returns *)
(* what a single read at its deciding iteration returns: it is one step.   *)
(***************************************************************************)
CONSTANT Reqs     \* the funds requests queued on the channel

\* Where a request's cancel goroutine is: its context is not cancelled,
\* it released r.lk having read a merge parent, or it returned.
CancelPcs == {"live", "check", "done"}

\* The queue goroutine: before the drain, in newMergedFundsReq's
\* setMergeParent loop, or past its checkActive.
QueuePcs == {"queue", "parent", "merged", "done"}

VARIABLES
    active,     \* r.active
    parent,     \* r.merge != nil
    cpc,        \* each request's cancel goroutine
    qpc,        \* the queue goroutine
    mreqs,      \* m.reqs
    todo,       \* requests of m.reqs whose merge parent is not set yet
    mcancelled  \* m.ctx is cancelled (m.cancel() was called)

vars == <<active, parent, cpc, qpc, mreqs, todo, mcancelled>>

TypeOK ==
    /\ active \in [Reqs -> BOOLEAN]
    /\ parent \in [Reqs -> BOOLEAN]
    /\ cpc \in [Reqs -> CancelPcs]
    /\ qpc \in QueuePcs
    /\ mreqs \in SUBSET Reqs
    /\ todo \in SUBSET mreqs
    /\ mcancelled \in BOOLEAN

\* newFundsReq: every request starts active, with no merge parent.
Init ==
    /\ active = [r \in Reqs |-> TRUE]
    /\ parent = [r \in Reqs |-> FALSE]
    /\ cpc = [r \in Reqs |-> "live"]
    /\ qpc = "queue"
    /\ mreqs = {}
    /\ todo = {}
    /\ mcancelled = FALSE

-----------------------------------------------------------------------------
\* checkActive: return if a request of the merge is active, otherwise
\* cancel the merge's context.
checkActive ==
    IF \E r \in mreqs : active[r]
    THEN UNCHANGED mcancelled
    ELSE mcancelled' = TRUE

\* The queue goroutine drains the queue (spec 4.6, step 1): the requests
\* still active are merged; with none there is nothing to send.
Drain ==
    /\ qpc = "queue"
    /\ LET A == {r \in Reqs : active[r]}
       IN  IF A = {}
           THEN qpc' = "done" /\ UNCHANGED <<mreqs, todo>>
           ELSE qpc' = "parent" /\ mreqs' = A /\ todo' = A
    /\ UNCHANGED <<active, parent, cpc, mcancelled>>

\* newMergedFundsReq's loop: setMergeParent(m) on one request, under r.lk.
setMergeParent(r) ==
    /\ qpc = "parent"
    /\ r \in todo
    /\ parent' = [parent EXCEPT ![r] = TRUE]
    /\ todo' = todo \ {r}
    /\ UNCHANGED <<active, cpc, qpc, mreqs, mcancelled>>

\* newMergedFundsReq, after the loop: if the requests were all cancelled
\* while being added, cancel the merge's context at once.
newMergedCheck ==
    /\ qpc = "parent"
    /\ todo = {}
    /\ checkActive
    /\ qpc' = "merged"
    /\ UNCHANGED <<active, parent, cpc, mreqs, todo>>

\* fundsReq.cancel, under r.lk: the request stops being active and its
\* merge parent is read; with one, checkActive follows after the unlock.
cancel(r) ==
    /\ cpc[r] = "live"
    /\ active' = [active EXCEPT ![r] = FALSE]
    /\ cpc' = [cpc EXCEPT ![r] = IF parent[r] THEN "check" ELSE "done"]
    /\ UNCHANGED <<parent, qpc, mreqs, todo, mcancelled>>

\* fundsReq.cancel after the unlock: m.checkActive().
cancelCheck(r) ==
    /\ cpc[r] = "check"
    /\ checkActive
    /\ cpc' = [cpc EXCEPT ![r] = "done"]
    /\ UNCHANGED <<active, parent, qpc, mreqs, todo>>

Next ==
    \/ Drain
    \/ \E r \in Reqs : setMergeParent(r)
    \/ newMergedCheck
    \/ \E r \in Reqs : cancel(r) \/ cancelCheck(r)

\* The queue goroutine and the cancel goroutines, once started, run to
\* their end; a caller's context need not be cancelled.
Fairness ==
    /\ WF_vars(Drain)
    /\ \A r \in Reqs : WF_vars(setMergeParent(r)) /\ WF_vars(cancelCheck(r))
    /\ WF_vars(newMergedCheck)

Spec == Init /\ [][Next]_vars

FairSpec == Spec /\ Fairness

-----------------------------------------------------------------------------
\* Spec 4.6, step 4: once every request of a built merge is cancelled, the
\* merge's context is eventually cancelled, whatever the order of the
\* cancels, the setMergeParent calls and the checkActive calls.
AllCancelledCancelsMerge ==
    (qpc = "merged" /\ \A r \in mreqs : ~active[r]) ~> mcancelled

=============================================================================
