------------------------------- MODULE Executor -------------------------------
(***************************************************************************)
(* Ticks of the executor (src/src/execute/executor.ts, runDryExecutor)     *)
(* over the ranked plans of the queue, with its mutex, its cooldowns and   *)
(* the block list of src/src/state/setupState.ts.                          *)
(*                                                                         *)
(* Two callers start ticks: the scheduler, cycle after cycle, and the      *)
(* module itself, once per process started with --broadcast.  An await     *)
(* ends a step, so whatever else runs in the process comes between two     *)
(* steps.  What the RPC node, the builder and the simulation answer is     *)
(* external: any answer may come at any time.                              *)
(***************************************************************************)
EXTENDS Naturals, Sequences, FiniteSets, QueueOps

CONSTANTS
  Callers,      \* "scheduler" and "import"
  Once,         \* the callers that start one tick per process: "import"
  Dry,          \* the callers whose ticks only simulate: the others broadcast
  MaxAttempts,  \* BOT_MAX_ATTEMPTS_PER_CYCLE
  SetupCache    \* whether EXEC_DRY_RUN_SETUP_CACHE_TTL_SECONDS is positive

ASSUME ExecutorAssumption ==
  /\ IsFiniteSet(Keys)
  /\ {Once, Dry} \subseteq SUBSET Callers /\ MaxAttempts \in Nat \ {0} /\ SetupCache \in BOOLEAN

VARIABLES
  pc,              \* where each caller's tick is
  tickInProgress,
  plans,           \* the queue as the tick read it
  early,           \* near-ready plans the KLend gate has still to verify
  candidates,      \* the plan being attempted and those after it
  healthyCooldown, \* obligationHealthyCooldown
  klendCooldown,   \* klendHealthyCooldown, same anchor
  setupCache,      \* dryRunSetupRequiredCache
  queue,           \* data/tx_queue.json
  blocked,         \* data/setup_state.json, within BLOCKED_COOLDOWN_MS
  foundHealthy, foundPoor  \* history: verdicts younger than their cooldown

memory == <<healthyCooldown, klendCooldown, setupCache>>
history == <<foundHealthy, foundPoor>>
vars == <<pc, tickInProgress, plans, early, candidates, memory, queue, blocked, history>>

\* Within these the mutex is held.
Attempting == {"building", "checkingFunds", "simulatingAtomic", "checkingHealth",
               "sendingSetup", "sendingAtomic", "validating", "simulating", "sending"}
Working == {"reading", "verifying", "attempt"} \cup Attempting
Sending == {"sendingSetup", "sendingAtomic", "sending"}

Init ==
  /\ pc = [t \in Callers |-> "idle"]
  /\ tickInProgress = FALSE
  /\ plans = [t \in Callers |-> EmptyQueue]
  /\ early = [t \in Callers |-> {}]
  /\ candidates = [t \in Callers |-> <<>>]
  /\ healthyCooldown = {} /\ klendCooldown = {} /\ setupCache = {}
  /\ queue \in [Keys -> {"live", "legacy", "absent"}]
  /\ blocked = {}
  /\ foundHealthy = {} /\ foundPoor = {}

-----------------------------------------------------------------------------
(* How a tick goes on and ends.                                            *)

Goto(t, l) == pc' = [pc EXCEPT ![t] = l]
Rest(t) == Goto(t, IF t \in Once THEN "done" ELSE "idle")

Forgets(t) ==
  /\ plans' = [plans EXCEPT ![t] = EmptyQueue]
  /\ early' = [early EXCEPT ![t] = {}]
  /\ candidates' = [candidates EXCEPT ![t] = <<>>]

\* A status returned without an attempt: the finally block frees the mutex.
Returns(t) == Rest(t) /\ Forgets(t) /\ tickInProgress' = FALSE

\* return finalizeTargetResult(...): the promise is returned without an
\* await, so the finally block runs first, and the result is still to be reported.
Finalizes(t) == Goto(t, "finalizing") /\ Forgets(t) /\ tickInProgress' = FALSE

\* The loop's next candidate, or the end of the tick.
Continues(t) ==
  \/ /\ Len(candidates[t]) > 1
     /\ candidates' = [candidates EXCEPT ![t] = Tail(@)]
     /\ Goto(t, "attempt")
     /\ UNCHANGED <<tickInProgress, plans, early>>
  \/ Len(candidates[t]) = 1 /\ Returns(t)

StaysOn(t) == UNCHANGED <<tickInProgress, plans, early, candidates>>

Target(t) == Head(candidates[t])

\* The slip reports the healthy obligation and forgets the cooldown.
HealthyUncooled(t) ==
  /\ foundHealthy' = foundHealthy \cup {Target(t)}
  /\ Finalizes(t)
  /\ UNCHANGED <<memory, queue, blocked, foundPoor>>

\* 6016: the obligation is healthy, leave it alone for five minutes.
Healthy(t) ==
  /\ healthyCooldown' = healthyCooldown \cup {Target(t)}
  /\ foundHealthy' = foundHealthy \cup {Target(t)}
  /\ Finalizes(t)
  /\ UNCHANGED <<klendCooldown, setupCache, queue, blocked, foundPoor>>

Reports(t) == Finalizes(t) /\ UNCHANGED <<memory, queue, blocked, history>>

-----------------------------------------------------------------------------
(* Before the attempts.                                                    *)

\* Two ticks start when the flag is not looked at.
StartUnguarded(t) ==
  /\ pc[t] = "idle" /\ Goto(t, "reading")
  /\ tickInProgress' = TRUE
  /\ plans' = [plans EXCEPT ![t] = queue]
  /\ UNCHANGED <<early, candidates, memory, queue, blocked, history>>

\* A tick that finds the mutex taken returns "skipped-busy": nothing changes.
Start(t) ==
  /\ pc[t] = "idle" /\ ~tickInProgress
  /\ tickInProgress' = TRUE
  /\ Goto(t, "reading")
  /\ plans' = [plans EXCEPT ![t] = queue]
  /\ UNCHANGED <<early, candidates, memory, queue, blocked, history>>

\* No plans, no keypair, lookup tables only warmed up, or a call that throws.
EndsEarly(t) ==
  /\ pc[t] = "reading"
  /\ Returns(t) /\ UNCHANGED <<memory, queue, blocked, history>>

Ranked(S) ==
  {s \in [1..Cardinality(S) -> S] : \A i, j \in DOMAIN s : s[i] = s[j] => i = j}
Shortened(s) == SubSeq(s, 1, IF Len(s) < MaxAttempts THEN Len(s) ELSE MaxAttempts)

\* Time tells which plans are ready, which are near enough for the gate, and
\* which neither.  A downgrade may not keep a plan out: the 999999 it sets passes
\* the EXEC_MAX_TTL_MIN of .env.example, and readiness is read from ttlComputedMin.
Filters(t) ==
  /\ pc[t] = "reading"
  /\ \E ready, near \in SUBSET PlanKeys(plans[t]) :
       /\ ready \cap near = {}
       /\ early' = [early EXCEPT ![t] = near]
       /\ \E s \in Ranked(ready) : candidates' = [candidates EXCEPT ![t] = s]
  /\ Goto(t, "verifying")
  /\ UNCHANGED <<tickInProgress, plans, memory, queue, blocked, history>>

\* A near-ready plan is promoted if KLend finds it unhealthy; a healthy one cools.
Verifies(t) ==
  /\ pc[t] = "verifying"
  /\ \E k \in early[t] :
       /\ early' = [early EXCEPT ![t] = @ \ {k}]
       /\ \/ candidates' = [candidates EXCEPT ![t] = Append(@, k)] /\ UNCHANGED klendCooldown
          \/ klendCooldown' = klendCooldown \cup {k} /\ UNCHANGED candidates
          \/ UNCHANGED <<candidates, klendCooldown>>
  /\ UNCHANGED <<pc, tickInProgress, plans, healthyCooldown, setupCache, queue, blocked, history>>

\* The candidates are ranked again and the tick begins to try them, or there are none.
BeginsAttempts(t) ==
  /\ pc[t] = "verifying" /\ early[t] = {}
  /\ \/ candidates[t] = <<>> /\ Returns(t)
     \/ /\ candidates[t] # <<>>
        /\ \E s \in Ranked({candidates[t][i] : i \in DOMAIN candidates[t]}) :
             candidates' = [candidates EXCEPT ![t] = Shortened(s)]
        /\ Goto(t, "attempt") /\ UNCHANGED <<tickInProgress, plans, early>>
  /\ UNCHANGED <<memory, queue, blocked, history>>

-----------------------------------------------------------------------------
(* One attempt.                                                            *)

Cools(t) ==
  \/ Target(t) \in blocked \cup klendCooldown \cup healthyCooldown
  \/ t \in Dry /\ SetupCache /\ Target(t) \in setupCache

Incomplete(t) == plans[t][Target(t)] \notin Complete

\* dropPlanFromQueue, outside of what catches: when the queue cannot be read or
\* written the tick rejects, the finally block frees the mutex.
DropsOrRejects(t) ==
  \/ queue' = DropPlan(queue, {Target(t)}) /\ Continues(t)
  \/ UNCHANGED queue /\ Returns(t)

DropsIncomplete(t) ==
  /\ pc[t] = "attempt" /\ Incomplete(t)
  /\ DropsOrRejects(t)
  /\ UNCHANGED <<memory, blocked, history>>

SkipsCooling(t) ==
  /\ pc[t] = "attempt" /\ ~Incomplete(t) /\ Cools(t)
  /\ Continues(t)
  /\ UNCHANGED <<memory, queue, blocked, history>>

\* Of an older plan version, or younger than SCHEDULED_MIN_LIQUIDATION_DELAY_MS.
SkipsUnfit(t) ==
  /\ pc[t] = "attempt"
  /\ Continues(t)
  /\ UNCHANGED <<memory, queue, blocked, history>>

BeginsBuild(t) ==
  /\ pc[t] = "attempt" /\ ~Incomplete(t) /\ ~Cools(t)
  /\ Goto(t, "building") /\ StaysOn(t)
  /\ UNCHANGED <<memory, queue, blocked, history>>

\* Built in some size profile, with or without accounts to set up first; or
\* healthy; or reported: too large in every profile, no swap, a builder that throws.
Builds(t) ==
  /\ pc[t] = "building"
  /\ \/ /\ \E l \in {"checkingFunds", "validating"} : Goto(t, l)
        /\ StaysOn(t) /\ UNCHANGED <<memory, queue, blocked, history>>
     \/ Healthy(t)
     \/ Reports(t)

\* Fee payer too poor for the rent: blocked for a minute, and downgraded.
BlocksInQueueOnly(t) ==
  /\ queue' = DowngradePlan(queue, {Target(t)})
  /\ UNCHANGED blocked
Blocks(t) ==
  /\ blocked' = blocked \cup {Target(t)}
  /\ queue' = DowngradePlan(queue, {Target(t)})

ChecksFunds(t) ==
  /\ pc[t] = "checkingFunds"
  /\ \/ Goto(t, "simulatingAtomic") /\ StaysOn(t) /\ UNCHANGED <<memory, queue, blocked, history>>
     \/ /\ Blocks(t)
        /\ foundPoor' = foundPoor \cup {Target(t)}
        /\ Finalizes(t) /\ UNCHANGED <<memory, foundHealthy>>

\* The atomic setup-and-liquidate transaction: healthy, a missing swap (the
\* setup goes first), failed, or good.
SimulatesAtomic(t) ==
  /\ pc[t] = "simulatingAtomic"
  /\ \/ Healthy(t)
     \/ /\ t \notin Dry /\ Goto(t, "checkingHealth")
        /\ StaysOn(t) /\ UNCHANGED <<memory, queue, blocked, history>>
     \/ /\ setupCache' = IF t \in Dry /\ SetupCache
                         THEN setupCache \cup {Target(t)} ELSE setupCache
        /\ Finalizes(t)
        /\ UNCHANGED <<healthyCooldown, klendCooldown, queue, blocked, history>>
     \/ /\ t \in Dry
        /\ setupCache' = IF SetupCache THEN setupCache \ {Target(t)} ELSE setupCache
        /\ Finalizes(t)
        /\ UNCHANGED <<healthyCooldown, klendCooldown, queue, blocked, history>>
     \/ /\ t \notin Dry /\ Goto(t, "sendingAtomic")
        /\ StaysOn(t) /\ UNCHANGED <<memory, queue, blocked, history>>

ChecksHealth(t) ==
  /\ pc[t] = "checkingHealth"
  /\ \/ Healthy(t)
     \/ Goto(t, "sendingSetup") /\ StaysOn(t) /\ UNCHANGED <<memory, queue, blocked, history>>

\* The setup or the atomic transaction landed or did not: reported either way.
SentSetup(t) == pc[t] \in {"sendingSetup", "sendingAtomic"} /\ Reports(t)

\* The slip asks for the executor's mode only when it simulates.
ValidatesAndSends(t) ==
  /\ pc[t] = "validating"
  /\ \E l \in {"simulating", "sending"} : Goto(t, l)
  /\ StaysOn(t) /\ UNCHANGED <<memory, queue, blocked, history>>

\* The compiled instructions are in the canonical order, or the tick reports.
Validates(t) ==
  /\ pc[t] = "validating"
  /\ \/ /\ Goto(t, IF t \in Dry THEN "simulating" ELSE "sending")
        /\ StaysOn(t) /\ UNCHANGED <<memory, queue, blocked, history>>
     \/ Reports(t)

Simulates(t) == pc[t] = "simulating" /\ (Healthy(t) \/ Reports(t))

\* Confirmed is reported; a broadcast that failed goes on to the next plan.
Sent(t) ==
  /\ pc[t] = "sending"
  /\ \/ Reports(t)
     \/ Continues(t) /\ UNCHANGED <<memory, queue, blocked, history>>

\* A call throws; a message that reads as a stale plan also drops the plan.
Throws(t) ==
  /\ pc[t] \in Attempting \ {"building"}
  /\ \/ Continues(t) /\ UNCHANGED queue
     \/ DropsOrRejects(t)
  /\ UNCHANGED <<memory, blocked, history>>

\* The event is stored and notified, or that throws: the caller's promise settles.
Finalized(t) ==
  /\ pc[t] = "finalizing" /\ Rest(t)
  /\ UNCHANGED <<tickInProgress, plans, early, candidates, memory, queue, blocked, history>>

-----------------------------------------------------------------------------
(* The rest of the process, time, and crashes.                             *)

tickVars == <<pc, tickInProgress, plans, early, candidates>>

\* The pipeline rebuilds the queue, promotions and refreshes change it.
QueueChanges ==
  /\ \E o \in [name : {"replace"}, keys : {{}}, plans : Built]
              \cup [name : {"refresh"}, keys : {Keys}, plans : [Keys -> {"live"}]] :
       queue' = Apply(o, queue)
  /\ UNCHANGED <<tickVars, memory, blocked, history>>

CooldownElapses(k) ==
  /\ \/ /\ healthyCooldown' = healthyCooldown \ {k} /\ foundHealthy' = foundHealthy \ {k}
        /\ UNCHANGED <<klendCooldown, setupCache, blocked, foundPoor>>
     \/ /\ klendCooldown' = klendCooldown \ {k}
        /\ UNCHANGED <<healthyCooldown, setupCache, blocked, history>>
     \/ /\ setupCache' = setupCache \ {k}
        /\ UNCHANGED <<healthyCooldown, klendCooldown, blocked, history>>
     \/ /\ blocked' = blocked \ {k} /\ foundPoor' = foundPoor \ {k}
        /\ UNCHANGED <<memory, foundHealthy>>
  /\ UNCHANGED <<tickVars, queue>>

\* The process dies and is started again: only the files are left.
Restart ==
  /\ pc' = [t \in Callers |-> "idle"] /\ tickInProgress' = FALSE
  /\ plans' = [t \in Callers |-> EmptyQueue]
  /\ early' = [t \in Callers |-> {}] /\ candidates' = [t \in Callers |-> <<>>]
  /\ healthyCooldown' = {} /\ klendCooldown' = {} /\ setupCache' = {}
  /\ foundHealthy' = {}
  /\ UNCHANGED <<queue, blocked, foundPoor>>

Tick(t) ==
  \/ EndsEarly(t) \/ Filters(t) \/ Verifies(t) \/ BeginsAttempts(t)
  \/ DropsIncomplete(t) \/ SkipsCooling(t) \/ SkipsUnfit(t) \/ BeginsBuild(t)
  \/ Builds(t) \/ ChecksFunds(t) \/ SimulatesAtomic(t) \/ ChecksHealth(t) \/ SentSetup(t)
  \/ Validates(t) \/ Simulates(t) \/ Sent(t) \/ Throws(t) \/ Finalized(t)

Next ==
  \/ \E t \in Callers : Start(t) \/ Tick(t)
  \/ QueueChanges \/ Restart
  \/ \E k \in Keys : CooldownElapses(k)

Spec == Init /\ [][Next]_vars

-----------------------------------------------------------------------------
TypeOK ==
  /\ pc \in [Callers -> {"idle", "finalizing", "done"} \cup Working]
  /\ tickInProgress \in BOOLEAN
  /\ plans \in [Callers -> Snapshot]
  /\ early \in [Callers -> SUBSET Keys]
  /\ \A t \in Callers :
       /\ candidates[t] \in Seq(Keys)
       /\ pc[t] \in Attempting \cup {"attempt"} => Len(candidates[t]) \in 1..MaxAttempts
  /\ {healthyCooldown, klendCooldown, setupCache, blocked, foundHealthy, foundPoor}
       \subseteq SUBSET Keys
  /\ queue \in Snapshot

\* Two callers, one executor: no plan is built, simulated or sent while another
\* tick works, and the mutex is taken exactly while one does: no way out of a
\* tick keeps it.
OneTickWorks ==
  /\ \A t, u \in Callers : {pc[t], pc[u]} \subseteq Working => t = u
  /\ tickInProgress <=> \E t \in Callers : pc[t] \in Working

\* A verdict "healthy" keeps the plan from being tried again until its cooldown
\* is over, whichever path of whichever tick reached it.
HealthyIsLeftAlone ==
  [][\A t \in Callers : pc[t] = "attempt" /\ pc'[t] = "building" => Target(t) \notin foundHealthy]_vars

\* A plan the fee payer cannot set up is not tried again within the minute, also
\* when the queue was rebuilt or the process restarted in between.
PoorIsLeftAlone ==
  [][\A t \in Callers : pc[t] = "attempt" /\ pc'[t] = "building" => Target(t) \notin foundPoor]_vars

\* A dry tick sends nothing.
DryNeverSends == \A t \in Dry : pc[t] \notin Sending
=============================================================================
