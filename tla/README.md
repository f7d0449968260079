# A verification project for the LIQSOL liquidation bot

LIQSOL (`src/src/`) watches Kamino lending obligations on Solana, keeps a queue
of obligations it expects to become liquidatable, and sends flash-loan
liquidations for them. It is one Node process per command: one JavaScript
thread, promises and timers, file operations on a thread pool, and three kinds of
remote parties (a Yellowstone gRPC server, RPC nodes, the Jito block engine).
What goes wrong in such a program goes wrong *between* awaits, and that is what
these modules model: every await ends a step, and everything that can run in
between is an action.

Notation below: `module.ts` paths are relative to `src/src/`. "Step" is one
TLA+ action; "external" is code outside the repository, modelled by what the
repository sees of it.

## 1. Inventory

| Component | State it keeps | Operations | What is hard about it |
|---|---|---|---|
| Transaction queue: `scheduler/txScheduler.ts`, `shared/fs.ts` | `data/tx_queue.json`, written through `data/tx_queue.json.tmp` | load, save, replace, enqueue, refresh, drop, downgrade | read-modify-write across awaits; synchronous and asynchronous writers share one temporary file; crashes |
| Forecast manager: `forecast/forecastManager.ts` | none of its own (mtime check of the queue file) | `refreshSubset` | writes back what it loaded unless the mtime moved |
| Candidate pipeline: `pipeline/`, `strategy/`, `predict/`, `math/` | `data/candidates.json`, `forecastCache` | load, score, rank, verify, rank again, build the queue | a round that scored nothing leaves the old file; estimates used again; boundaries of the buckets |
| Reserve and oracle caches: `cache/` | prices and reserves of each caller; one global map of Scope chains | load, apply a streamed price | every load clears the global map; late and reordered prices |
| Live obligation indexer: `engine/liveObligationIndexer.ts`, `utils/retry.ts` | the slot-tagged cache, the reconnection flags and counters, the circuit breaker's window | `start`, `stop`, bootstrap, the subscription loop, `handleAccountUpdate` | `stop()` at any await; fatal and transient errors; silent streams; out-of-order slots |
| Yellowstone subscription: `yellowstone/` | stream, `settled`, inactivity timer | `subscribeToAccounts`, `snapshotAccounts`, diagnostics | one promise settled by five listeners and a timer |
| Yellowstone listeners: `monitoring/yellowstone*Listener.ts` | stream, back-off, `lastSeen`, pending batch, debounce timer | `start`, `stop`, `updateTargets`, messages, reconnection | deliberate and accidental `close` share a listener; overlapping `subscribe()` calls |
| Realtime updater: `monitoring/realtimeForecastUpdater.ts`, `eventRefreshOrchestrator.ts`, `mintObligationMapping.ts` | decoded obligations, candidates, throttle times, mappings, pending keys | account and oracle updates, 75 ms flush, bootstrap, retargeting | throttled updates are dropped; RPC answers overwrite newer stream data |
| Shadow watch list and promotion: `monitoring/shadow*.ts` | healthy cooldown | select, verify with KLend, enqueue | not awaited; enqueues what it read before its awaits |
| Bot scheduler: `scheduler/botStartupScheduler.ts`, `bot/` | `cycleInProgress`, `tickDebounceTimer`, `initPromise`, listener instances | start, debounced ticks, heartbeat, reload of targets | lost ticks, reloads during the initialisation, errors thrown in timers |
| Executor: `execute/executor.ts` (and `planTxBuilder.ts`, `preflight.ts`, `klendHealthyCooldown.ts`) | `tickInProgress`, cooldown maps, dry-run setup cache, presubmitter | one tick: filter, verify, attempt, build, simulate, send, report | some sixty awaits, two callers, a mutex freed before the result is reported |
| Building a plan's transaction: `execute/planTxBuilder.ts`, `kamino/`, `flashloan/` | none | up to four builds, swap sizing, build profiles, window check, rebuilt budgets | the chain moves between two reads; every rebuild shifts indices |
| Lookup-table manager: `solana/executorLutManager.ts`, `state/setupState.ts` | on-chain table of at most 256 addresses, its address in a file | create, load, extend by 20 | lost confirmations and crashes between batches |
| Presubmitter: `presubmit/presubmitter.ts` | cache of built transactions, last refresh times | `getOrBuild`, `prebuildTopK`, `evictStale` | throttled staleness; a table loaded once |
| Broadcast: `execute/broadcastRetry.ts`, `solana/confirmPolling.ts`, `execute/jitoSender.ts` | attempts and compute budget of one send; tip-account cache | bounded resend, rebuild and resend, poll | an unconfirmed transaction is not a failed one |
| Telemetry and notifications: `observability/`, `notify/` | event log, `summary.json` | emit, count, notify | counters updated by load, modify, save |
| Commands, infrastructure, configuration, scripts | none | one-shot runs, single RPC calls | none of concurrency |

How they interact in the running bot (`bot/live.ts`):

    initial pipeline --replaceQueue--> tx_queue.json <--drop, downgrade-- executor tick
    periodic refresh (own mutex) --replaceQueue--^ ^ ^                      ^
                                                 | |                        |
    account/price listeners -> realtime updater -+ +- promotion (enqueue)   |
            |                   (refreshSubset)                             |
            +--> scheduleTick (200 ms debounce, heartbeat) -> cycle mutex --+
                                       executor tick -> builder -> broadcast -> confirmation

The live indexer is a separate command (`commands/liveIndexer.ts`), and
`pipeline/buildCandidates.ts` uses its bootstrap alone. The executor's module
also starts one tick when it is loaded in a process run with `--dry` or
`--broadcast`.

What makes each part correct:

- *queue*: readers see complete snapshots; an operation takes effect at one
  instant or not at all; no temporary file stays; calls return;
- *pipeline*: what is queued was priced when it was scored, with `USE_EV_RANKING`
  liquidatable obligations come first, a verdict of KLend's SDK decides, nothing of
  an older round is queued as new;
- *caches*: a newer price reaches the updater, an older one never replaces it;
- *indexer*: slots only rise; one stream feeds the cache; fatal conditions are
  final; silence is noticed; the loop of a stopped indexer ends;
- *listeners*: each update is emitted once, newest last; a running listener gets
  back to an open stream and holds every stream it opened;
- *updater, promotion*: what is watched agrees everywhere; a verdict is
  respected; nothing older replaces something newer unless two writers had it in
  hand;
- *scheduler*: one cycle at a time, whatever it throws; a change is read by a
  later cycle;
- *executor*: one tick works at a time and the mutex never sticks; a verdict
  (healthy, too poor) is remembered for its cooldown on every path, across ticks,
  queue rebuilds and restarts; a dry tick sends nothing;
- *transaction*: what is sent liquidates the planned pair, with fresh reserves,
  its farms, its swap and the window the program checks, and pays back the
  flash loan it takes;
- *lookup table*: the stored address names a table; nothing is paid for twice;
- *broadcast*: at most one transaction that can still land, budgets that only
  rise, an end.

`PROJECT.json` lists these components with their status, and under `hazards` the
places where the code could break one of these, with the properties that watch it.

## 2. Modules

Each module's header says what it models; `PROJECT.json`'s `map` gives the
source lines of every definition.

| Module | Models | Used by |
|---|---|---|
| `QueueOps` | the queue as a value and its operations as functions | the queue modules, `Executor` |
| `TxQueue` | abstract: an atomic queue | `TxQueueFile` (refinement) |
| `TxQueueFile` | the queue file, system call by system call | `MCTxQueueFile` |
| `SubscriptionOps` | one subscription handle: stream, settlement, inactivity timer | `LiveIndexer` |
| `LiveIndexer` | the indexer's life cycle and update handler | `MCLiveIndexer` |
| `YellowstoneListener` | the account and price listeners | `MCYellowstoneListener` |
| `RealtimeUpdater` | updates, throttle, flush, bootstrap, retargeting, promotion | `BotScheduler` |
| `BotScheduler` | the running bot: initialisation, ticks, cycles, refresh, over `RealtimeUpdater` | `MCBotScheduler` |
| `OracleCache` | loads of reserves and prices, streamed prices, the global map of Scope chains | `CandidateOps` |
| `CandidateOps` | health, legs, contexts, value, time, ranking, verification, filter, plan | `CandidatePipeline` |
| `CandidatePipeline` | rounds of the pipeline beside the updater's price cache | `MCCandidatePipeline` |
| `Selections` | what `Array.filter` and `Array.sort` return, by places and without recursion | `LiquidationIxs`, `LookupTable` |
| `LiquidationIxs` | the instructions of a liquidation, the window check, rebuilt budgets | `PlanBuild` |
| `LookupTable` | the executor's table, its address and its copies | `PlanBuild` |
| `PlanBuild` | how a plan becomes a transaction, tick after tick | `MCPlanBuild` |
| `Broadcast` | one plan's send, both senders, over the confirmation poll and the cluster | `MCBroadcast` |
| `Executor` | ticks of `runDryExecutor` | `MCExecutor` |

The `MC` modules give TLC its constants; the `_proofs` modules hold the theorems.

**QueueOps, TxQueue, TxQueueFile.** A queue is a function from plan keys to
`absent`, `legacy` (a plan `isPlanComplete` rejects), `live` or `blocked`
(downgraded): all that the operations tell apart. `TxQueueFile` has inodes,
two names (`file`, `tmp`), descriptors, and the JavaScript thread `js`.
`Call` is the load and the computation; `OpenTmp`, `WriteFile` and `RenameTmp`
are the system calls of `writeJsonAtomic` and `writeJsonAtomicSync`. A
synchronous save holds `js` from load to rename; an asynchronous one needs a turn
of the thread (`Issue`) before each call, which then runs on the pool, so it may
land between two system calls of a synchronous save. `WriteFile` writes to the
descriptor's inode, whatever name that inode has by then: this is how a shared
temporary file breaks the published one. `refreshSubset`'s mtime check is
`RefreshSubset`/`MergeIfTouched`, with `touched` for "the mtime moved". `Crash`
keeps the files and resets the rest. `overlapped` and `leftover` are history.
Actors: `cycle` (the scheduler's cycle with the executor), `pipeline` (the
periodic rebuild), `realtime` (updater and promotion).

**SubscriptionOps, LiveIndexer.** `loop` says at which await `startSubscription`
is: `boot`, `connecting`, `subscribing`, `streaming`, `waiting`. `Caught` is the
whole catch block, with its fatal, transient and give-up branches. A stream's `st`
follows Node's stream: a failing stream still has an `error` and a `close` event
to emit, in that order, each its own step. `Stop` may run at any await, as the
signal handler does.

**YellowstoneListener.** `subscribe()` has two awaits, counted by `awaitClient` and
`awaitStream`, because several calls may be in flight; `timers` counts pending
reconnection timers. Destroying a stream on purpose moves it to `closing`, whose
`close` event runs the same handler as a loss. `Message`/`Flush` are the version
guard, the batch and its debounce timer. The two listeners are the same machine;
the model speaks of keys and versions (the price listener's slots).

**RealtimeUpdater, BotScheduler.** Numbers (health, value, EV, time) are
abstracted to their age: the version of the account and of the prices they were
computed from, so that "older" is a comparison of stamps. `AccountUpdate` and
`OracleUpdate` are the handlers with their throttle; a throttled update changes
what is decoded and leaves the candidate's numbers. `Flush` is the body of the
75 ms timer: `refreshSubset` over what is queued, and a promotion, not awaited,
over the rest. A promotion (`promos[p]`) is a record of what `promoteWatched-`
`CandidatesToQueue` holds over its awaits: the obligation in hand (`at`), those to
come, those admitted, and the numbers it read before; `Verdict` is one KLend
answer and the turn to the next, and the last one enqueues. `watched`, `late`
and `crossed` in that record are history: what was watched when it began, what
it turned to during a cooldown, and what another promotion or a rebuild had in
hand meanwhile. `BotScheduler` adds `startBotStartupScheduler` await by await
(`phase`), `scheduleTick`, `runCycleGuarded`, the heartbeat, cycles that return
or throw (`alive` is FALSE once the process has exited: `bot/live.ts` alone does
on an unhandled rejection, `bot/run.ts` logs it), and the periodic rebuild with
its reload (`refresh`). `strays` are dropped targets whose update is still in the
listener's batch. A cycle is the executor as the scheduler sees it: it may drop
plans; what a tick does inside is `Executor`'s.

**OracleCache, CandidateOps, CandidatePipeline.** `chains` is the module-wide
map of Scope oracles, cleared by the first step of every load of the reserves
and filled by the second, whoever loads. A round is `RoundBegins`,
`RoundReserves`, `RoundOracles`, `Bootstrap` (with the batches that answered),
`VerifyAndWrite` and `BuildQueue`; the updater's start is `LiveBegins`,
`LiveReserves`, `LiveOracles`; `Delivered` is one price of the stream. `Fails` is a
step that throws: the first round then ends the process (`Restart`), a later one
is given up where it is. `source` is `LIQSOL_HEALTH_SOURCE`, and `ranking` tells
`USE_EV_RANKING` ("ev") from the default of `config/env.ts:44` ("priority"), which
sorts by `priorityScore` alone, estimates nothing, keeps small positions and leaves
the estimates to the scheduler's filter (`FileEv`, `FileTtl`). What KLend's SDK
answers is external: any of `KlendAnswers`, or nothing. The verifier keeps
its answers for a while, so an answer need not fit the accounts as they are.

The arithmetic is in integers (dollars at price 100, per mille, minutes) and keeps
the code's clamps, thresholds and minima; estimates read the raw health ratio, before
its clamp to [0, 2]. `Mantissa` is what `oracleCache.ts:136-138` does to a Pyth
price: it truncates the price, already in dollars, to an integer and keeps the exponent, so
that a dollar counts as the feed's smallest unit (`PythUnit`). Only the clamp of the
stablecoins, or `Usable`'s bounds for those that are not clamped, stands between
such a price and the ranking. A time to liquidation of "now" is no
number to the ranking and the filter, as in the code. The ranking's comparator
compares two times only when both are numbers, so from three candidates of one bucket
and one value on it may go round in a circle; `SelectCandidates` is therefore the
set of the lists a sort can leave (`Rankings`: no candidate stands right before one that
goes before it), which is a single list whenever the comparator is an order. `since`,
in a forecast, is history.

**LiquidationIxs, LookupTable, PlanBuild.** An instruction is its kind, the
reserves it names and one index. `Canonical` is one build; `ValidWindow` is
`validateCompiledInstructionWindow`. `PlanBuild` follows one plan through
`caller`s that build it (warm-up, prebuild, presubmit, executor): the four
`stage`s of `buildPlanTransactions` (a first build, one to size the swap, the
final one, and again with the index moved when accounts must be created), each in
two reads, and `ChainMoves` between any two. `profiles` are the build profiles
left to try; `TooLarge` counts bytes as units. `Sends` is every attempt, with a
rebuilt budget and the tip. Which result ends a tick, cooldowns and drops are
`Executor`'s.

**Broadcast.** One call of `sendWithBoundedRetry` or `sendWithRebuildRetry`
(`mode`), from the attempt's build to its classification. A transaction is its
blockhash and budget levels, so a rebuilt one with neither changed is the same
transaction. The cluster (`chain`) is external: what it accepted lands, fails or
expires at any time, also after the sender stopped polling; a send may throw
after the cluster took the transaction (`SendLost`).

**Executor.** `pc[t]` is the await at which caller `t`'s tick stands. A step runs
from one await to the next, so the mutex, the maps and the files change exactly
where the code changes them. What the builder, the simulation and the RPC node
answer is external: each place has all its outcomes. `Finalizes` is `return
finalizeTargetResult(...)`: the promise is not awaited, so `finally` frees the
mutex first and the result is still pending (`finalizing`). `CooldownElapses` is
time. `Restart` keeps the queue and the block list only. `foundHealthy` and
`foundPoor` are history: the verdicts whose cooldown has not elapsed. A
downgraded plan may pass the filters: with the values of `.env.example` its
`ttlMin` of 999999 is not above the limit, so only the block list keeps it out.

## 3. Runs

| Run | Instance | Shows |
|---|---|---|
| `queue_cycle` | 2 keys, 1 actor, 2 inodes | a process whose only writer is the cycle implements the atomic `TxQueue`, crashes included |
| `queue_merge` | 1 key, pipeline and realtime, 3 inodes, fair | asynchronous against synchronous saves: every call ends, only overlapping saves break the file |
| `queue_partial_read` | 1 key, cycle and realtime, 3 inodes | *violation*: the file the comment in `shared/fs.ts:6` promises whole is empty when a reader runs |
| `indexer_session` | 1 key, slots to 2, 3 streams, 2 reconnections, 1 retry, threshold 2 | one stream at a time, no connection once halted, a stopped loop ends, silence noticed, slots never back |
| `listener_session` | 2 keys, 3 streams, versions to 2, 1 fault, 1 retargeting | updates once and in order; a running listener gets back to an open stream of its own |
| `listener_leak` | 1 key, 1 fault | *violation*: one failing stream starts two `subscribe()` calls, whose overlap leaks a stream (PR60_IMPLEMENTATION_SUMMARY.md:63) |
| `bot_live` | 1 obligation, 2 promotions in flight, 2 updates of its account and 2 of the prices, fair | one cycle at a time however cycles end; what is watched agrees everywhere; a promotion enqueues only what was watched, nothing it learned to be healthy, and nothing older unless two writers had it in hand; what was flushed is read by a later cycle |
| `pipeline` | 2 mints (a clamped Pyth one, a Scope one), 2 obligations, 2 rounds, 2 prices published and in flight, a narrow or a wide interval, 3 units of time; recomputed health with either ranking, stored health with the EV ranking | what is queued was priced, with the EV ranking liquidatable first, verdicts decide, estimates and files do not age unnoticed; newer prices reach the updater's cache |
| `plan_build` | 3 reserves of 2 mints, 2 shapes of the obligation, 3 plans, one token account, a table of 2, batches of 1, 2 attempts, a tip | what is sent is the planned pair, valid, fresh, with its farms, of a bounded size; the table's address and contents |
| `plan_index` | the same market, broadcast with `EXEC_CU_PRICE` unset and a price from recent fees | *violation*: the price that is inserted before the flash borrow moves it away from the index its repayment names (`flashloan/kaminoFlashloan.ts:53`) |
| `broadcast_senders` | both senders, 3 attempts, 3 blockhashes | at most one transaction of the bounded sender at risk, budgets that only rise, an end |
| `executor_ticks` | 2 plans, a broadcasting scheduler and a dry tick at load, 2 attempts | one tick at a time, a mutex that never sticks, verdicts respected on all paths, no dry send |

The bounds. One key is enough for the file protocol, whose steps do not look at
keys; two keys are used where an operation on one plan must not lose another
(`queue_cycle`) and where a tick goes on to the next plan (`executor_ticks`).
Three inodes let the published file, a temporary file and a file that lost its
name but is still open exist at once; two suffice when one actor writes. Three
streams let the indexer lose two, and let two `subscribe()` calls of a
listener overlap while a third stream is closing. Two versions or slots are an
older and a newer one. A threshold of 2 separates "one failure" from "tripped".
Three attempts and three blockhashes let a sender fail in two different ways and
still have an attempt left.

`bot_live` has one obligation, since what its properties relate (two promotions, a
flush, a rebuild, a reload) meets on one; two promotions cross, and two updates
give an older and a newer stamp of either kind. A promotion that turns from one
obligation to the next, and a batch limit that leaves some out, need a second
obligation, whose instance is too large for a run: there the theorems speak, which
hold for any number of both. `pipeline` needs two rounds for anything to be left over
from one to the next, two prices to be out of order, an obligation that is
worth little and one that is worth much and becomes liquidatable, a file of one
candidate (`TopN`) for one to be left out, two answers of KLend's SDK for each
obligation, one on either side of the threshold or at it, and a time that exceeds each
maximal age. `plan_build` needs a third reserve for another debt and a mint two reserves
share; a table of two is full after one warm-up, batches of one can fail in the
middle, and the limit of 12 units is passed by the larger builds and not by the
smaller ones. History counters saturate just past the value that decides their
property. Deadlock is checked where the system never rests (queue, executor); the
other models come to an end at their bounds, or, like a broadcast, really end.

## 4. Fairness

- Queue: weak fairness of each actor's steps, since file operations complete;
  strong fairness of an asynchronous save's turns of the JavaScript thread, since
  its continuation is queued on the event loop, which serves its queue in order
  while other saves come and go. None on calls and crashes.
- Indexer: weak fairness of the loop (timers fire, calls answer or fail) and of
  the events a stream still has to emit; the inactivity timer is fair only on a
  silent stream. None on the server, on data and on `stop()`.
- Listener: weak fairness of `start`, of timers, of both awaits, of stream events
  and of the debounce. None on messages and faults.
- Bot: weak fairness of the initialisation's awaits, of the flush, of the
  debounced tick, of the heartbeat and of the end of a cycle, which assumes that
  the executor's tick returns or throws (`Broadcast` says when a send does). None
  on updates, on the refresh and on KLend's answers.
- Broadcast: weak fairness of the sender. This assumes that each RPC call
  answers: the poll's timeout is looked at between polls only.
- Executor, pipeline, plan building: none; their properties are safety properties.

## 5. Theorems

All are proved for every value of the constants that satisfies the modules'
named assumptions. Where a type invariant, or a safety property that follows from
the same inductive invariant as another (`NoLeftoverTmp`, `InvalidArgIsFinal`,
`LivePriceNeverRegresses`), is a theorem, no run repeats it.
The assumptions say what the data are (legs name reserves of the market, a plan's
reserves are reserves or absent, accounts have a time, a price and a width; prices,
limits and batch sizes are numbers) and that what stands for "none" is not one of them.
Sets of reserves and of scored obligations are finite.

`TxQueueFile_proofs`. *TypeCorrect*. *NoLeftover*: no temporary file without a
user, by an invariant that ties each program counter to the names it needs.
*TornNeedsOverlap*: while saves have not overlapped, the published file parses.
The property alone is not inductive; `WholeInv` adds that the temporary name and
the published name differ, that no descriptor points at the published file, and
that at most one actor is between open and rename. *SoleActorIsAtomic*: with one
actor (the assumption `Sole`), every step of the file system maps to a step or a
stutter of `TxQueue`; `SoleInv` says that what the actor will write is its
operation applied to what readers still see. The theorems cover any set of
actors, so also two asynchronous writers, for which there is no run.

`LiveIndexer_proofs`. *TypeCorrect*, *OneStreamAtATime*, *InvalidArgEnds*,
*SlotsRise*, *HaltedStaysHalted*. The lemmas about a subscription handle say what
every event of a stream keeps (`Follows`): a settled outcome stays, and only a
finished stream settles. `Inv` adds to the types that streams are opened one
after the other and all but the last have settled (`Ordered`), that a new attempt
stays within the limit (`Counted`), that nothing is open during the bootstrap
(`Booting`), and that an InvalidArg leaves the loop where it awaited it or ends it
(`InvalidKept`).

`YellowstoneListener_proofs`. *EventsStayInOrder*: what is pending is newer than
what was emitted, in the order of its versions, and no newer than `lastSeen`, which
is itself pending if its account has anything pending (`Ordered`); streams that
overlap, redeliver or reorder do not matter. *TypeCorrect*: its counters are bounded
though nothing in the code bounds overlapping `subscribe()` calls, because every
stream that is not closed, every awaited call and every pending timer was paid for by
the start, a fault or a retargeting (`Budgeted`, a sum over the streams).

`BotScheduler_proofs`. *TypeCorrect*; *MutexIsCorrect*: the flag is set exactly
while a cycle runs; *WatchersAlwaysAgree*; *PromotionsWereWatched*;
*OlderPlansWereCrossed*; *HealthyStaysOut*. The invariant `Inv` adds `Watch`, the
unconditional form of the agreement (also before the listeners are wired, and with
late batches recreating candidates without legs); `CoolIsRefused`: the cooldown is
what KLend refused; and `PromosOK`: what a promotion has in hand was watched when it
began, was not turned to during a cooldown, and is marked `crossed` when it is in
the queue or another promotion has it too. The action properties follow from `PromosOK` in
the state before the last verdict: an uncrossed obligation is not in the queue, so
nothing is there to be replaced.

`CandidatePipeline_proofs`. *PricesOnlyGetNewer* and *UpdatesAreApplied*. The
invariant `ChainsFilled` says that, when neither the pipeline nor the updater is
between clearing the map and filling it, a Scope chain that both loads found is in
it; it needs that a round that clears the map also forgets what it had loaded.

The rounds: *Inductive*, *TypeCorrect*, *TtlStaysRecent*, *QueueIsPriced*,
*LiquidatableGoesFirst*, *VerdictIsKept*, *QueueIsOfTheRound*. The properties speak of
the step that builds the queue and of the state it starts from, in which nothing says
how the ranking and the file came to be; `IInv` carries that along. `RoundOK`: what
is ranked has no key twice, and each candidate is `Sound`, that is, of an obligation
this round scored with all legs priced (`AllPriced`: `computeHealthRatio` scores all
legs or nothing) and with KLend's verdict as its `eligible` where there is one.
`OraclesOK`: the prices of the round were recent when it loaded them. `ForecastsOK`: a
cache entry is stamped with the time of its estimate, so that handing it on cannot
age it unnoticed. `FileOK`: the file is of an older round until this one writes, and
then it is the head of the ranking. *LiquidatableGoesFirst* is about `USE_EV_RANKING`
(`Ordered`, the part of `RoundOK` that only that mode has); all the others hold in
both modes. That the liquidatable come first is induction along the ranking: neighbours ascend by bucket (`NeighboursAscend`), hence all do
(`BucketsAscend`, by the least place that breaks it), for whatever list the sort
leaves, although its comparator is no order.

`PlanBuild_proofs`. *Inductive*, *TypeCorrect*, *TableExists*, *PlannedPair*,
*FarmsKept*, *SizeKept*, *IndexKept*, *RefreshedFirst*, *WindowKept*,
*NoRepeatFromFreshCopy*: for every market, obligation, set of plans, size limit and
number of ticks. Most of the proof says what a transaction *is*: setup, budget, borrow,
reserve refreshes, the obligation's refresh, farms, liquidation, farms, swap,
repayment and tip (`Core`, `Framed`, `Planned`), and where each kind of instruction
stands in such a list (`Positions`), so that a budget that shrinks or grows in front of
it, a tip behind it, and accounts created before it move `Position` by what is counted
(`SentLayout`). `IInv` has seven parts: `ChainOK`, `LutOK` (the table, the
executor's and the presubmitter's copy, and what is left to add stay within the limit; a
copy exists only of a saved table, a saved one only on chain), `ControlOK` (profiles
without farms are tried only for a pair that has none, which is why no farm is dropped),
`WorkOK` (each stage of the build in progress has the planned layout, and a final build
read the accounts once unless it is marked torn), `PresubmittedOK` (so has what the
presubmitter keeps), `SizedOK` (what reaches simulation or send was sized with this copy
of the table) and `OutOK` (what was sent is that, with a rebuilt budget).

Two of these theorems have a hypothesis. *RefreshedFirst* is about the modes that
refresh all reserves (`PRE_RESERVE_REFRESH_MODE` `all`, and `auto` up to its limit); the
mode of the pair alone refreshes two by design. *WindowKept* is about plans whose two
reserves differ. With a presubmitted transaction the executor validates that one and
sends the one it built itself; the theorem says that the check passes for the latter
too, because both have the planned layout and what separates them does not reach the
window. For a plan that names a single reserve this fails: the presubmitted
transaction may still refresh a second reserve, which the obligation no longer has, and
so be accepted in place of one the check would reject (TLC finds this with a plan for
one reserve; the plans of the runs name two or none, as the pipeline's do for
any obligation that owes one reserve and has deposited another).

`Broadcast_proofs`. *TypeCorrect*: the attempt limit holds and budgets rise at most
once per attempt. *AtMostOneAtRisk*: `RiskInv` says that every transaction but the
current one is unknown, failed or expired, and that a retried current one cannot
land before it is sent again. *BudgetNeverFalls*: `BudgetInv` ties the current
levels to the last recorded attempt.

`Executor_proofs`. *OneTickAtATime*: every disjunct of a tick advances inside
`Working`, ends and frees the mutex, settles after it was freed, or stays; the
invariant is `MutexInv`. *HealthyNotRetried* and *PoorNotRetried*: the history is
contained in the cooldowns and the block list, and only an uncooled target
reaches the builder. *DryTicksNeverSend*: `DryInv` adds the place before the setup's
send. *TypeCorrect*: candidates are sequences of keys no longer than the attempt
limit, which needs the ranking and the truncation to keep their types.

How lists are reasoned about. The provers have no induction over data. Sorts and
filters are therefore given by what they return (`Selections`, `Rankings`) and not by
how they compute it, and what would be an induction on a list is an argument by the
least place at which a claim fails (`WFMin` over the order of the naturals, from the
library's well-founded sets), which is a first-order statement. What folds over an
obligation's legs add up (health, value, time) stays uninterpreted in the proofs: no
theorem depends on a sum, only on when there is one.

Only model-checked: every liveness property (`EveryCallEnds`, `StopEndsLoop`,
`SilenceIsNoticed`, `ComesBack`, `ChangesAreSeen`, `BroadcastEnds`: liveness is
out of the prover's reach). What the sums over an obligation's legs are worth is only
evaluated, in the states of the `pipeline` run. Every safety property of a passing run is stated by a
theorem, two of them under the hypotheses above.

## 6. Divergences and known weaknesses

Three disagreements between text and code are shown by runs: `queue_partial_read`,
`listener_leak`, `plan_index`. The following were met while modelling and are not
shown by a run of their own.

Text and code differ:

- `stop()` during the client's or the subscription's await leaves the stream that
  opens afterwards without an owner (`engine/liveObligationIndexer.ts:843`, `:826`,
  `:842`), against PR5_FIXUP_SUMMARY.md:110-111.
- The attempt counter restarts with every connection (`:829` of the same file), so
  a server that connects and fails every subscription is retried for ever, against
  the limit of PR5_IMPLEMENTATION.md:246 and :304.
- `sendWithRebuildRetry` retries "other" errors, among them confirmation timeouts
  (`execute/broadcastRetry.ts:323`), against FINAL_EXECUTION_PR_SUMMARY.md:100 and :250:
  two of its transactions can then land.
- PR60_IMPLEMENTATION_SUMMARY.md:33 says a listener's back-off restarts after a
  restored connection, but `messagesReceived` counts over the listener's life.
- SEIZED_DELTA_FIX_SUMMARY.md:209 says ticks do not overlap, but a result is
  reported after the mutex is freed.
- COMPILED_VALIDATION_FIX_SUMMARY.md:44 promises the next plan after a failed
  validation, but the tick ends (`execute/executor.ts:1507`).
- `kamino/canonicalLiquidationIxs.ts:281-292`, CANONICAL_INSTRUCTION_REORDERING_SUMMARY.md:19
  and :84 and COMPILED_VALIDATION_FIX_SUMMARY.md:83 allow none to two farm refreshes; the
  window check rejects two, and an obligation of a single reserve.
- *the ranking, with `USE_EV_RANKING`* (as `.env.example:227` sets it):
  PR8.5_EV_RANKING_USAGE.md:57 ("Candidates sorted by EV descending") and :160
  (liquidatable ones "Weighted by size & bonus"). The code sorts by bucket first, the
  liquidatable ones before all others, and by EV within a bucket
  (`strategy/candidateSelector.ts:321-327`, and its own comment at :195). `LiquidatableFirst`
  states what the code does; a ranking by EV alone is its mutant.
- *the ranking, by default* (`config/env.ts:44`): the same table, :160, says of
  liquidatable obligations "Always top priority", and PR_IMPLEMENTATION_SUMMARY.md:178
  that they "always rank above non-liquidatable". The default branch
  (`strategy/candidateSelector.ts:216-220`, `:348`) multiplies an urgency, which is
  about the same just above and just below the threshold, by the logarithm of
  the size: at health 1.0 and $1,000,000 the score is 1000 * 6 = 6,000, at 0.9999 and
  $10 it is 1,000,000 * 0.0011 * 1 = 1,100. `LiquidatableFirst` is therefore
  stated, checked and proved of the EV ranking only.

Behaviour the models have and no text contradicts:

- *listeners*: an `updateTargets()` on a running listener destroys a stream whose
  `close` then reconnects once more.
- *queue*: every operation loads, changes and saves, and an asynchronous one awaits in
  between. `AtomicQueue` is about a process with one writer; of two writers the
  later rename wins: what the other one enqueued or dropped after the first loaded
  is lost (`scheduler/txScheduler.ts:58`). `refreshSubset` looks at the mtime twice, but
  an awaited rename may land after the second look, and is then overwritten by the
  older plans (`forecast/forecastManager.ts:74`). `TornOnlyByOverlap` speaks of
  tearing only, not of this.
- *realtime*: a throttled update never reaches the queued plan by itself; a
  bootstrap's answer overwrites a newer account; the numbers of `candidates.json`
  replace newer ones at a retargeting; `saveQueue` throwing in the flush's timer
  loses the batch; two promotions, or a promotion and a rebuild, that have the same
  obligation in hand may leave the older plan (`NoOlderPlanUnlessCrossed` excepts these),
  and a promotion enqueues what it had admitted before another one learned that it is
  healthy (`HealthyIsNotPromoted` is about those it turns to afterwards).
- *pipeline*: a round that scored nothing queues the candidates of an older
  file with times counted anew (`NoOldPlansOnceScored` is about a round that scored
  something); a failed load of KLend's market is never repeated;
  `setCurrentSlotHint` is not called by the pipeline, so "hybrid" health is always
  recomputed; a round that clears the map of Scope chains, or fails after it,
  makes the updater skip Scope prices until the next one (`LiveUpdateApplied` excepts
  both).
- *prices*: a price in the updater's cache never expires, and a wide Pyth price
  replaces a usable one, after which its mint has none. A Pyth price is cut to an
  integer and then read with its exponent (`cache/oracleCache.ts:136`): a mint that is
  not a clamped stablecoin is worth next to nothing, or, when the cut leaves 0, has no
  usable price.
- *ranking*: with times that are no numbers the EV comparator is not transitive, so the
  order within a bucket may depend on the order of arrival; buckets are never mixed.
- *time*: the filter and the ranking read "now" as no number; a plan that is due
  now but not flagged as liquidatable is left out as too far away.
- *executor*: `dropPlanFromQueue` that rejects where nothing catches
  (`execute/executor.ts:923`, `:1759`) rejects the whole tick; the plans behind it wait for
  the next one.
- *transactions*: a build whose two reads of the obligation differ may refresh other
  reserves than the obligation's (`ReservesAreFresh` excepts it). A presubmitted
  transaction is validated and simulated but never sent; the atomic path simulates but
  is never window-validated, and sends a cross-mint liquidation without its swap if the simulation succeeds; without
  required farms a profile that omits them is the first one again; a transaction
  of a single reserve, which the window check rejects, may be sent when a presubmitted
  one with two was validated for it; a fault between
  creating a table and saving its address pays for a table nobody finds.

## 7. Not modelled, and why

Account decoding is byte-level conversion of another program's layouts, and
instruction bytes belong to the SDKs. Floating-point arithmetic is modelled in
integers where a threshold or an order depends on it (`CandidateOps`), and left out
where it only prints (`math/healthBreakdown.ts`) or converts (`math/fractionScale.ts`,
`utils/`). Amounts of swaps and seizures are answers from outside. Commands and
scripts are sequential compositions of the parts above; telemetry keeps
counters by load, modify and save across awaits, which can lose a count.
`infra/websocketManager.ts` and `infra/blockhashManager.ts` are used by
`commands/healthcheck.ts` alone. `startSchedulerRefreshLoop`, `snapshotAccounts`,
the presubmitter's `evictStale`, `execute/validation.ts` and `execute/swapSizing.ts`
are reached by nothing that runs in the bot. `setup_state.json` is rewritten in
place; the models take that write as atomic. In the promotion, what the selector
drops is any choice; what the shadow watch list takes from an old candidates file
is any numbers not newer than now.

## 8. What the plan has left

1. Composition: `Executor`'s tick around `PlanBuild` and `Broadcast`, and the
   scheduler's cycle over the queue file, with `TxQueue` as what they assume; a
   state machine per await of each is too large to check together, so it needs an
   abstract executor that `Executor` refines.
2. The in-place write of `setup_state.json`, with a torn file at start.
3. `BotScheduler` on two obligations: smaller by an abstraction of the
   candidates' numbers, so that a batch limit that leaves some out is run as well as
   proved.
4. Refinements: the queue of `CandidatePipeline`, `Executor` and `BotScheduler` as
   instances of `TxQueue`, each step proved to map to an operation of it or a stutter.
5. Telemetry's counters over the file operations of `TxQueueFile`.
6. Lemmas that liveness rests on (what is decreased, what stays enabled) as theorems, with
   only the temporal step left to TLC.
