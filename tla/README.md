# Formal models of go-hop-exchange

This directory holds the TLA+ models of the exchange kept in `src/`:
- modules that model the components, for model checking with TLC;
- the TLC configurations for those modules;
- proofs checked by TLAPS.

Every action is translated from the Go code. `PROJECT.json` maps each
definition to the lines it models. It also lists the runs, the mutants, the
findings and the hazards.

## The system and how its parts interact

A node (`src/node/popn.go`) serves RPC calls from the CLI:

- **Put, Status, Commit.** `Put` stages files into an ongoing content
  transaction (`nd.tx`, guarded by `nd.txmu`). `Status` reports on it.
  `Commit` commits it and records its root in the Index (`SetRef`). The
  transaction also dispatches the root to caches through
  `Replication.Dispatch`.
- **Get and Load.** `Get` serves a root from the ongoing transaction, from
  the local store, or through `Load`. `Load` is a goroutine that queries
  offers, triages them, runs the retrieval, and records the content in the
  Index and the offer in the offer cache (`nd.omg`).
- **Older revision.** An older revision of the node is kept at the top of
  the same file, lines 1-875. It has `Add`, `Pack`, `Quote`, `Push` and
  `Get`.

Replication (`src/unnamed/part_001`) works in two halves:

- **Client side.** It authorizes providers to pull a root, sends them
  `Request`s, and counts completed pulls as confirmations.
- **Provider side.** Each provider registers a provisional `DataRef` and
  opens a pull channel back to the client. The client validates the pull
  against its authorization set.

Retrievals pay through payment channels (`src/unnamed/part_000`):

- Funds requests for a (from, to) pair are queued.
- The queued requests are merged into one create or add-funds message on
  chain.
- A waiter goroutine per message applies the receipt to the stored
  ChannelInfo. It then fires listeners that resolve the callers' promises.
- A caller whose context is cancelled runs `fundsReq.cancel` in its own
  goroutine. If the request was already merged, it asks the merge
  (`mergedFundsReq.checkActive`) to cancel the merge's context once no
  request of it is still active.

## Modules

| Module | Models | State | Actions |
|---|---|---|---|
| `Paych` | the payments `channel` (part_000) | `queue` (fundsReqQueue), `req` (each fundsReq), `ci` (the ChannelInfo), `chain`/`actor`/`balance` (the chain, an environment), `waiter`, `waitErr`, `msgResult` | `processQueue` (merge and send, or wait), `create`, `addFunds`, `cancel`, `waitPaychCreateMsg`, `waitAddFundsMsg`, `waitMsgError`, `msgWaitComplete`, `ChainExec` |
| `NodeTx` | Put/Status/Commit/Get of the current node | `txmu` (owner of the mutex), `tx` (staged keys, open), `index`, per caller `pc` and `arg`, `putOk` (history) | `Put`, `Status`, `Commit`, `CommitGC`, `Get`, `GetLoad`, `Call` (a caller issues an RPC) |
| `NodeLoad` | the `Load` goroutine | `lpc`, `key`, `hasMiner`, `offer`, `cached` (omg), `indexed`, `ctxDone`, `seen` (results received by the consumer) | `Start`, `LookupGossip`, `LookupCached`, `MinerQuery`, `Triage`, `CachedTriage`, `Ongoing`, `Transfer`, `Completing`, `Cleanup`, `Cancel` |
| `Replication` | Dispatch, AuthorizePull, ValidatePull, handleRequest, the two transfer-event subscribers | `dpc`, `attempt`, `n`, `rcv`, `pulls`, `subscribed`, `resChan`, `out`, `inflight` (Requests in flight), `provRef` (providers' Index), `chan` (pull channels), `retrieved` | `DispatchRound`, `DispatchTimer`, `DispatchReceive`, `HandleRequest`, `TransferComplete`, `TransferFail`, `RetrievalComplete` |
| `NodeOld` | Add/Pack/getCommit/Quote/Push/Get of the older node | `txOpen`, `staged`, `index`, `lastRef`, `sQuote`, `deals` | `Add`, `Pack`, `Quote`, `Push`, `Get` |
| `FundsMerge` | fundsReq.cancel, setMergeParent, newMergedFundsReq, checkActive (part_000) | `active`, `parent` (r.merge set), `cpc` (each cancel goroutine), `qpc` (the queue goroutine), `mreqs`, `todo`, `mcancelled` (m.ctx) | `Drain`, `setMergeParent`, `newMergedCheck`, `cancel`, `cancelCheck` |
| `FundsMergeLoop` | the same, with `checkActive` as its loop of `isActive` reads (part_000:476-531) | those of `FundsMerge`, `unread` (per cancel goroutine) and `qunread` (the queue's check): the requests its loop has not read yet; `qpc` has a `"check"` phase | `Drain`, `setMergeParent`, `newMergedCheck`, `queueRead`, `queueCancel`, `cancel`, `cancelRead`, `cancelEnd` |
| `PaychProofs`, `PaychFundsProofs`, `NodeTxProofs`, `NodeOldProofs`, `ReplicationProofs`, `NodeLoadProofs`, `FundsMergeProofs` | TLAPS proofs | | |
| `MC_*` | TLC instances | | |

### How the models abstract the code

Each action is one critical section, or one step of a goroutine between
blocking points:

- In `Paych`, an action is everything done under the channel's multiLock.
- In `NodeTx`, an action is a handler up to its `txmu.Unlock()`. The part
  after the unlock is a step of its own (`CommitGC`, `GetLoad`). A second
  caller can therefore run in between. `addRecursive` is the set of key
  sets a Put may stage: the files it walks before an error are staged.
- In `FundsMerge`, an action is one section under a request's `r.lk`, or
  one whole `checkActive` call. `FundsMergeLoop` is the code's grain:
  each `isActive` read of `checkActive`'s loop is a step of its own, so a
  cancel can run between two reads. It is shown to implement `FundsMerge`
  (below), which is what makes the atomic view sound.

Data is abstracted to what the properties tell apart:

- A transaction's root is the set of keys it holds.
- Amounts are small naturals.
- Peers, keys and requests are model values.

I/O that can fail is a nondeterministic choice between its outcomes. This
covers the store, the DAG, the Filecoin RPC, streams and transfers.

Some code is not in the snapshot:

- `PaychMgr.processQueue` and `GetOrCreateChannel`;
- the PaychStore;
- `PeerMgr.Peers`.

These are modelled from `spec.md` sections 4.6 and 4.3, and are marked
`spec_modelled` in the map.

Where a Go statement is reached with a nil pointer, the model has a crashed
state (`NodeLoad`'s `"crashed"`).

## Runs

| Run | Config | Checks | Result |
|---|---|---|---|
| paych_main | `MC_Paych.cfg` | `TypeOK`, `AmountMatchesChain`, `IInv`, `FundsInv`, `FundedCoversResolved`, `AmountOnlyCredited`, `MergedResolved` | pass |
| paych_stall | `MC_Paych_stall.cfg` | `QueuedServed` | violated: `msgWaitComplete` no longer processes the queue (the call is commented out) |
| nodetx_main | `MC_NodeTx.cfg` | `NoLostPuts` | pass |
| nodetx_hang | `MC_NodeTx_hang.cfg` | `CallsComplete` | violated: Commit's error paths and Get of the ongoing root return holding `txmu` |
| repl_main | `MC_Replication.cfg` | `TypeOK`, `ConfirmedProvidersHold`, `DispatchTerminates` | pass |
| repl_records | `MC_Replication_records.cfg` | `RecordsFromDistinctProviders` | violated: a client's retrieval of the root counts as a confirmation |
| load_main | `MC_NodeLoad.cfg` | `CompletedImpliesIndexed` | pass |
| load_silent | `MC_NodeLoad_silent.cfg` | `LoadReportsOutcome` | violated: `sendErr` drops the error on the unbuffered channel |
| load_panic | `MC_NodeLoad_panic.cfg` | `NoNilDeref` | violated: `*info` after a failed `filMinerInfo` |
| load_cache | `MC_NodeLoad_cache.cfg` | `CachedOfferIndexed` | violated: the offer is cached before `SetRef`, and kept when `SetRef` fails |
| old_main | `MC_NodeOld.cfg` | `DealsIndexed` | pass |
| merge_main | `MC_FundsMerge.cfg` | `ImplementsFundsMerge`, `AllCancelledCancelsMerge` | pass |

The findings in `PROJECT.json` explain each violation against the spec or the
code.

Two more departures are recorded as hazards, without a run:
- an unknown strategy in `Load` is reported with `sendErr` but does not end
  the Load;
- Dispatch spends a backoff attempt on a round that found no fresh provider.

Every property of a passing run has a mutant in `PROJECT.json`: a plausible
bug in a mapped definition. TLC finds the property violated under that
mutant. Examples of these bugs:

- a dropped guard (`processQueueNoWait`, `PutNewTx`);
- an off-by-one (`DispatchReceiveOffByOne`);
- a swapped order (`TransferCompletedFirst`);
- a loop that stops one read short (`cancelEndEarly`);
- a swapped order (`PackRefFirst`: lastRef set before `SetRef` succeeded);
- a missing call (`newMergedNoCheck`: no final `checkActive`).

### Bounds

**Paych** uses three requests, amounts {1, 2} and three messages. This is
enough for:
- a merge of several active requests;
- a cancellation during a merge;
- a request queued behind an outstanding message;
- a create followed by two add-funds messages, each succeeding or failing.

**NodeTx** uses two callers and two keys, under symmetry. Both callers can
interleave every pair of handlers, and the `SetRef` and `tx.Commit` failures
are explored on both.

**Replication** uses three providers, one client, RF 2 and two attempts.
With three providers a second round has a fresh provider left, and with
RF 2 there is more than one confirmation. With two attempts the rounds
with and without fresh providers both occur.

**NodeLoad** runs three successive Loads. The offer cache is therefore set
by one Load and reused by the next.

**NodeOld** uses two keys, under symmetry. That is enough for two distinct
commits, a failed `SetRef` after a `tx.Commit`, and a Push with no ref of
the last packed commit.

**FundsMergeLoop** (run through `MC_FundsMerge`) uses three requests.
Each can be cancelled before the drain, between the drain and its
`setMergeParent`, after it, or between two reads of a `checkActive`
loop. With three, a loop can read one request inactive, see another
cancelled behind it, and decide on the third; and two cancel goroutines'
loops and the queue's can run at once.

### Fairness

**Paych.** The waiter goroutines and the chain's execution of each message
are weakly fair:
- a waiter that can take the multiLock eventually runs;
- StateWaitMsg eventually returns or fails;
- the chain eventually executes a pushed message.

Callers are not fair: they need not call `GetOrCreateChannel` or cancel.
`processQueue` runs inside those calls.

**NodeTx.** Each handler step of a caller is weakly fair. Go's
`sync.Mutex` eventually hands a free lock to a blocked goroutine. Issuing a
call (`Call`) is not fair.

**Replication.** The Dispatch goroutine and its timer are weakly fair. The
time.Timer always fires. Provider-side steps and transfers are not fair:
peers may vanish. `DispatchTerminates` therefore relies only on the
client's own goroutine.

**FundsMergeLoop.** The queue goroutine (the drain, each `setMergeParent`
and the reads of its final `checkActive`) is weakly fair. So are the reads
of each cancel goroutine's `checkActive` after its unlock: a started
goroutine runs to its end, and `isActive`'s lock is held only briefly. A
caller's context need not be cancelled, so `cancel` is not fair.
`AllCancelledCancelsMerge` is checked without symmetry.

## Proofs (TLAPS)

`PaychProofs` proves, for every value of the constants (any set of requests,
any amounts of positive naturals, any message bound):

- **`TypeCorrect`**: `Spec => []TypeOK`. It is proved by one lemma per
  action. Lemmas about record updates (`ReqRecordUpdate`,
  `ChannelInfoUpdate`) carry the EXCEPT steps.
- **`IInvariant`**: `Spec => []IInv`. `AmountMatchesChain` alone is not
  inductive. A step that applies a receipt must know that the message it
  waits on is the one the ChannelInfo records, and that PendingAmount is that
  message's value. It must also know that no other message is pending on
  chain. `IInv` adds these facts:
  - `FreshMsgs`: unused message ids have no message and no waiter.
  - `OnlyCurrentMsgPending`: only the recorded message can be pending or
    waited on.
  - `CreatePendingMatches` and `AddFundsPendingMatches`: the outstanding
    message's value is `PendingAmount`, and the balance reflects its status.
  - `IdleMatches`: with nothing outstanding, the ChannelInfo equals the actor.

  TLC checks `IInv` in paych_main. The proof shows `Init => IInv` and
  `IInv /\ [Next]_vars => IInv'`, with one lemma per action.
- **`AmountMatchesChainHolds`**: `Spec => []AmountMatchesChain`, from
  `IInv => AmountMatchesChain`. The proof splits on which message is
  outstanding.
- **`AmountOnlyCreditedHolds`**: `Spec => AmountOnlyCredited`, the action
  property `[][AmountCredited]_vars`: a step changes the stored Amount only
  when a waiter handles the receipt of a message the chain executed with
  exit code zero, and then adds exactly that message's value. It follows
  from `IInv` step by step. `WaitingOnCurrent` shows that a waiting waiter
  of a create (add-funds) message waits on `CreateMsg` (`AddFundsMsg`), so
  `PendingAmount` is the message's value and, for a create, Amount is 0.

`PaychFundsProofs` proves merge correctness:

- **`FundsInvariant`**: `Spec => []FundsInv`, with `FundsInv == IInv /\
  FundsFacts`. `FundedCoversResolved` speaks of requests, `IInv` of
  messages; `FundsFacts` links them through the message each merged request
  records (`req[r].msg`):
  - `OkCredited`: a request resolved "ok" belongs to a message whose waiter
    finished without error (a *credited* message);
  - `MsgsIssued`: an idle request has no message, and every recorded message
    was already allocated;
  - `MsgCoversReqs`: each message's value is at least the sum of the
    requests merged into it (cancelled requests may leave it larger);
  - `CreditedChannel`: once a message is credited the channel has its
    address;
  - `AmountCoversCredited`: the requests of credited messages sum to at
    most Amount.

  TLC checks `FundsInv` in paych_main (`MC_Paych` extends
  `PaychFundsProofs` for it).
  The hard step is processQueue's push. It merges the active requests into
  the fresh message `nextMsg`, whose value is their sum. It takes them out of
  the messages they had (a failed earlier push leaves none) and out of no
  credited one. `FundsInvNext` takes `IInv'` from `IInvNext`.
- **`FundedCoversResolvedHolds`**: `Spec => []FundedCoversResolved`. The
  "ok" requests are among the credited ones (`OkCredited`), and sums are
  monotone (`SumMono`).

The sum over merged requests is `AmtSum`, defined with `FiniteSetsExt`
(`MapThenSumSet`). Three facts about it need induction over finite sets,
which the provers cannot do. They are assumptions of `Paych`:
- `SumAssumption`: a sum is a natural;
- `SumAdditive`: the sum over two disjoint sets is the sum of the two sums;
- `SumLocal`: two functions that agree on a set have the same sum over it.

TLC evaluates all three, over every subset of requests and every amount
function, on every run of `MC_Paych`. For larger sets of requests they are
trusted, as facts of finite sums. `SumEmpty` and `SumMono` are proved from
them.

`NodeTxProofs` proves **`NoLostPutsHolds`**: `Spec => []NoLostPuts` for
any callers and keys. The invariant is inductive as it stands:
- `Put` only adds to the staged set.
- The only step that empties it, Commit's success path, first records it in
  the Index.

`NodeOldProofs` proves **`DealsIndexedHolds`**: Push only makes deals for
commits the Index holds. `DealsIndexed` alone is not inductive, because Push
with no ref pushes `lastRef`. `OldInv` adds `LastRefIndexed`: Pack sets
`lastRef` only after `SetRef` succeeded, and nothing removes a root.

`ReplicationProofs` proves **`ReplicationTypeCorrect`** and
**`ConfirmedProvidersHoldHolds`** from `RInv`. `RInv` ties the
confirmations to the pull channels behind them:
- a provider in `resChan` or `out` has a completed pull;
- a provider with an open or completed pull holds the DataRef;
- every provider asked is in `pulls`, and a Request in flight goes to a
  provider whose channel is not open yet.

There is one lemma per action.

`NodeLoadProofs` proves **`CompletedImpliesIndexedHolds`** from `LInv`. `LInv` adds that the goroutine
reaches "completing" only with the root indexed, and that `seen` is a
sequence of results.

`FundsMergeProofs` proves **`ImplementsFundsMergeHolds`**: `Spec =>
ImplementsFundsMerge`, for any set of requests. The refinement maps the
loop's `"check"` phase of the queue goroutine to `FundsMerge`'s
`"parent"`, and forgets `unread` and `qunread`. A read of an inactive
request is then a stutter. The read that finds an active request, or the
end of the loop, is `FundsMerge`'s atomic `checkActive`. For that step to
match, every request the loop has already read must still be inactive when
it decides. `LInv` carries this (`CancelLoopSound`, `QueueLoopSound`):
`active` only falls, and `m.reqs` is fixed once the drain ran.
`NoMergeYet` (before the drain, no request has a parent and no cancel
goroutine is in a `checkActive`) is needed so that the drain does not
change the `m.reqs` of a loop already running. TLC checks `LInv` on the
merge_main instance. The proof is `Init => LInv`, `LInv /\ [Next]_vars =>
LInv'`, the initial-state mapping and the step mapping, with one case per
action.

### What is only model-checked

Some properties stay with TLC:

- **Liveness.** `MergedResolved`, `DispatchTerminates`,
  `AllCancelledCancelsMerge` and the violated
  `QueuedServed` and `CallsComplete`. They need
  fairness and ENABLED, which TLAPS does not handle here.
- **False safety properties.** The violated
  `RecordsFromDistinctProviders`, `CachedOfferIndexed` and `NoNilDeref`. Every
  safety property that a passing run checks has a theorem.
- **The sum facts.** `SumAssumption`, `SumAdditive` and `SumLocal` are
  checked by TLC on the instance of `MC_Paych` only (see above).

## Not modelled

- **Chain reader.** The chain actor-state reader (`loadActorState`,
  `ChannelState`, `laneState`) decodes data and has no control state.
- **Archive, CLI, regions and configuration.** The CAR archive and CommP,
  the CLI `commit` command, the regions table, and the build and test-plan
  configuration.
- **Node reads.** `List`, `Ping`, `Off` and `New` only read state or wire
  components.
- **Outside the snapshot.** The Index, PeerMgr, HeyService, the retrieval
  state machine, vouchers, settle and collect. Their effects on the modelled
  code are nondeterministic outcomes.
- **Replication schemes.** `JoinScheme`/`LeaveScheme` maintain a set nothing
  in the snapshot reads.

`PROJECT.json` lists every hazard found while modelling, with the properties
that cover it. Where no property covers one, a note says why.
