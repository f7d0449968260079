----------------------------- MODULE BotScheduler -----------------------------
(***************************************************************************)
(* The running bot: scheduler/botStartupScheduler.ts (initialisation of    *)
(* the realtime path, debounced ticks, the cycle mutex, the heartbeat and  *)
(* the reload of watch targets) started by bot/live.ts, whose timer        *)
(* rebuilds candidates and queue, composed with RealtimeUpdater, whose     *)
(* updates cause the ticks.  The executor is a cycle that drops plans and  *)
(* returns or throws; the listeners are what they are subscribed to.       *)
(***************************************************************************)
EXTENDS RealtimeUpdater

VARIABLES alive,            \* the process has not exited
          phase,            \* the await at which startBotStartupScheduler stands
          wired,            \* the listener instances are stored and cause ticks
          initTargets,      \* what initRealtime loaded before its first await
          listened,         \* the account listener's targets
          strays,           \* dropped targets with an event in the listener's batch
          refresh,          \* the await at which the periodic refresh stands
          tickDebounceTimer,\* as flushTimer
          cycleInProgress,
          cycles,           \* cycles between cycleOnce's start and its end
          unseen            \* history: the queue changed since a cycle last read it

startVars == <<phase, wired, initTargets>>
tickVars  == <<tickDebounceTimer, cycleInProgress, cycles>>
watchVars == <<listened, strays, refresh>>
updaterVars == <<marketVars, queue, targets, candVars, throttled, flushVars,
                 coolVars, promos>>
vars == <<updaterVars, startVars, tickVars, watchVars, alive, unseen>>

Phases == {"deriving", "bootstrapping", "listening", "first", "running"}

TypeOK ==
  /\ UpdaterTypeOK
  /\ alive \in BOOLEAN /\ phase \in Phases /\ wired \in BOOLEAN
  /\ initTargets \in [keys : SUBSET Keys, numbers : [Keys -> Stamp \union {None}]]
  /\ listened \subseteq Keys /\ strays \subseteq Keys
  /\ refresh \in {"idle", "reload", "bootstrapping"}
  /\ tickDebounceTimer \in {"none", "armed"}
  /\ cycleInProgress \in BOOLEAN /\ cycles \in 0..1 /\ unseen \in BOOLEAN

\* Numbers that may have been read by now.
Readable == {read \in [Keys -> Stamp] :
               \A k \in Keys : read[k].account <= account[k] /\ read[k].price <= price}

\* loadRealtimeWatchTargets: the queued obligations, and those of the candidates
\* file whose bucket, TTL and rank let them be watched, which are any others and
\* bring the numbers of some time, not later than now.
TargetsWith(shadowOnly, read) ==
  [keys |-> PlanKeys \union shadowOnly,
   numbers |-> [k \in Keys |-> IF k \in shadowOnly THEN read[k] ELSE None]]
WatchTargets ==
  UNION {{TargetsWith(shadowOnly, read) : read \in Readable} : shadowOnly \in SUBSET (Keys \ PlanKeys)}

\* live.ts has built the candidates and the queue and called the scheduler,
\* which has loaded its targets and awaits the reserves and oracles.
Init ==
  /\ UpdaterInit
  /\ alive = TRUE
  /\ phase = "deriving" /\ wired = FALSE
  /\ initTargets \in WatchTargets
  /\ listened = {} /\ strays = {} /\ refresh = "idle"
  /\ tickDebounceTimer = "none" /\ cycleInProgress = FALSE /\ cycles = 0
  /\ unseen = TRUE

-----------------------------------------------------------------------------
(* Cycles.                                                                  *)

\* scheduleTick: one timer at a time.
ScheduleTick ==
  tickDebounceTimer' = IF tickDebounceTimer = "none" THEN "armed" ELSE tickDebounceTimer

\* runCycleGuarded.
RunCycleGuarded ==
  IF cycleInProgress THEN UNCHANGED <<cycleInProgress, cycles, unseen>>
  ELSE cycleInProgress' = TRUE /\ cycles' = cycles + 1 /\ unseen' = FALSE

TickFires ==
  /\ alive /\ tickDebounceTimer = "armed"
  /\ tickDebounceTimer' = "none"
  /\ RunCycleGuarded
  /\ UNCHANGED <<updaterVars, startVars, watchVars, alive>>

\* The interval is set once the initial cycle is over.
Heartbeat ==
  /\ alive /\ phase = "running" /\ tickDebounceTimer = "none"
  /\ ScheduleTick
  /\ UNCHANGED <<updaterVars, startVars, watchVars, cycleInProgress, cycles, alive, unseen>>

\* Mutant: the mutex is freed on the way out only when nothing was thrown.
FreeUnlessThrown(thrown) == cycleInProgress' = thrown
Free(thrown) == cycleInProgress' = FALSE

\* cycleOnce returns, or throws what the executor threw.  From the first cycle
\* the error reaches startBotStartupScheduler's caller, which exits; in a timer
\* it is an unhandled rejection, which run.ts logs and live.ts alone dies of.
CycleEnds(thrown) ==
  /\ alive /\ cycles > 0
  /\ cycles' = cycles - 1
  /\ Free(thrown)
  /\ alive' \in IF ~thrown THEN {TRUE} ELSE IF phase = "first" THEN {FALSE} ELSE BOOLEAN
  /\ phase' = IF phase = "first" /\ ~thrown THEN "running" ELSE phase
  /\ UNCHANGED <<updaterVars, wired, initTargets, watchVars, tickDebounceTimer, unseen>>

\* The executor drops a plan it found stale or settled.
ExecutorDrops(k) ==
  /\ alive /\ cycles > 0 /\ queue[k] # None
  /\ queue' = [queue EXCEPT ![k] = None]
  /\ UNCHANGED <<marketVars, targets, candVars, throttled, flushVars, coolVars,
                 promos, startVars, tickVars, watchVars, alive, unseen>>

-----------------------------------------------------------------------------
(* initRealtime, await by await.                                            *)

NoTargets == [keys |-> {}, numbers |-> [k \in Keys |-> None]]

Derived ==
  /\ alive /\ phase = "deriving"
  /\ Retarget(initTargets.keys, initTargets.numbers)
  /\ phase' = IF initTargets.keys = {} THEN "listening" ELSE "bootstrapping"
  /\ listened' = initTargets.keys
  /\ initTargets' = NoTargets
  /\ UNCHANGED <<marketVars, queue, throttled, flushVars, coolVars, promos,
                 wired, strays, refresh, tickVars, alive, unseen>>

Bootstrapped ==
  /\ alive /\ phase = "bootstrapping"
  /\ BootApply
  /\ phase' = "listening"
  /\ UNCHANGED <<wired, initTargets, watchVars, tickVars, alive, unseen>>

\* start() resolves whether or not the streams opened: the listeners see to it.
\* Updates arrive meanwhile.  Then the instances are stored, the events wired to
\* ticks, and the initial cycle begins.
ListenersStarted ==
  /\ alive /\ phase = "listening"
  /\ phase' = "first" /\ wired' = TRUE
  /\ RunCycleGuarded
  /\ UNCHANGED <<updaterVars, initTargets, watchVars, tickDebounceTimer, alive>>

\* An RPC call of the initialisation throws: the scheduler goes on without
\* listeners, on its heartbeat alone.
InitFails ==
  /\ alive /\ phase \in {"deriving", "bootstrapping"}
  /\ phase' = "first"
  /\ RunCycleGuarded
  /\ UNCHANGED <<marketVars, queue, targets, candVars, throttled, flushVars, coolVars,
                 promos, wired, initTargets, watchVars, tickDebounceTimer, alive>>

-----------------------------------------------------------------------------
(* The periodic refresh of live.ts, behind its own mutex.                   *)

\* runInitialPipeline has written the candidates and replaced the queue, from
\* numbers it read at some time; until then it leaves no trace.
PipelineEnds ==
  /\ alive /\ refresh = "idle"
  /\ \E queued \in SUBSET Keys, read \in Readable :
       /\ queue' = [k \in Keys |-> IF k \in queued THEN read[k] ELSE None]
       /\ promos' = [p \in Promos |->
                       [promos[p] EXCEPT !.crossed = @ \union (queued \intersect KeysOf(p))]]
  /\ refresh' = "reload"
  /\ UNCHANGED <<marketVars, targets, candVars, throttled, flushVars, coolVars,
                 startVars, listened, strays, tickVars, alive, unseen>>

\* reloadRealtimeWatchTargets up to its first await: without instances, as
\* during the initialisation, it changes nothing.
Reload ==
  /\ alive /\ refresh = "reload"
  /\ \E new \in WatchTargets :
       IF ~wired
       THEN refresh' = "idle" /\ UNCHANGED <<targets, candVars, listened, strays>>
       ELSE /\ listened' = new.keys
            /\ \E s \in SUBSET ((listened \union strays) \ new.keys) : strays' = s
            /\ Retarget(new.keys, new.numbers)
            /\ refresh' = IF new.keys = {} THEN "idle" ELSE "bootstrapping"
  /\ UNCHANGED <<marketVars, queue, throttled, flushVars, coolVars, promos,
                 startVars, tickVars, alive, unseen>>

Reloaded ==
  /\ alive /\ refresh = "bootstrapping"
  /\ BootApply
  /\ refresh' = "idle"
  /\ UNCHANGED <<startVars, listened, strays, tickVars, alive, unseen>>

\* The node does not answer: logged, and done again at the next interval.
RefreshFails ==
  /\ alive /\ refresh = "bootstrapping"
  /\ refresh' = "idle"
  /\ UNCHANGED <<marketVars, queue, targets, candVars, throttled, flushVars, coolVars,
                 promos, startVars, listened, strays, tickVars, alive, unseen>>

-----------------------------------------------------------------------------
(* The updater's steps in the running bot.                                  *)

Listening == wired \/ phase = "listening"

Tick == IF wired THEN ScheduleTick ELSE UNCHANGED tickDebounceTimer

\* A batch of the account listener: the updater's handler runs first, then the
\* tick is scheduled.  The batch may still hold targets that were dropped.
AccountEvent(k) ==
  /\ alive /\ Listening /\ k \in listened \union strays
  /\ AccountUpdate(k)
  /\ strays' = strays \ {k}
  /\ Tick
  /\ UNCHANGED <<startVars, listened, refresh, cycleInProgress, cycles, alive, unseen>>

StraysGone ==
  /\ strays # {}
  /\ strays' = {}
  /\ UNCHANGED <<updaterVars, startVars, listened, refresh, tickVars, alive, unseen>>

PriceEvent ==
  /\ alive /\ Listening
  /\ OracleUpdate
  /\ Tick
  /\ UNCHANGED <<startVars, watchVars, cycleInProgress, cycles, alive, unseen>>

\* Steps of the updater that no event of a listener causes; what they write to
\* the queue is for a later cycle to see.
UpdaterStep(A) ==
  /\ alive
  /\ A
  /\ unseen' = (unseen \/ queue' # queue)
  /\ UNCHANGED <<startVars, watchVars, tickVars, alive>>

FlushStep == UpdaterStep(Flush)
VerdictStep(p) == UpdaterStep(Verdict(p))

InitStep == Derived \/ Bootstrapped \/ ListenersStarted

Next ==
  \/ InitStep \/ InitFails
  \/ TickFires \/ Heartbeat \/ \E thrown \in BOOLEAN : CycleEnds(thrown)
  \/ \E k \in Keys : ExecutorDrops(k)
  \/ PipelineEnds \/ Reload \/ Reloaded \/ RefreshFails
  \/ PriceEvent \/ StraysGone
  \/ \E k \in Keys : \/ AccountEvent(k)
                     \/ UpdaterStep(ThrottleElapses(k)) \/ UpdaterStep(CooldownElapses(k))
  \/ FlushStep \/ \E p \in Promos : VerdictStep(p)

Spec == Init /\ [][Next]_vars

\* Timers fire, the calls of the initialisation and of a cycle return or throw.
\* Nothing is assumed of updates, of the refresh, of KLend's answers.
Fairness ==
  /\ WF_vars(InitStep)
  /\ WF_vars(FlushStep)
  /\ WF_vars(TickFires) /\ WF_vars(Heartbeat)
  /\ WF_vars(\E thrown \in BOOLEAN : CycleEnds(thrown))

FairSpec == Spec /\ Fairness

-----------------------------------------------------------------------------
(* Properties.                                                              *)

\* The mutex of runCycleGuarded is what it stands for: held exactly while a
\* cycle runs, so two cycles never run at once and none is shut out for ever,
\* however cycles end.
MutexIsTheCycle == cycles = IF cycleInProgress THEN 1 ELSE 0

\* Once the bot is wired, the obligations whose updates arrive, those the price
\* mapping reaches and those that have a promotable candidate are the same set,
\* whatever reloads, failures and late batches came before.
WatchersAgree ==
  wired => listened = targets /\ targets = {k \in Keys : cand[k].legs}

\* Promotion p ends with k among its plans: k was admitted earlier or just now.
Enqueues(p, k) == /\ InFlight(p) /\ promos'[p] = IdlePromo
                  /\ k \in promos[p].admitted \union {promos[p].at}
                  /\ queue'[k] # queue[k] /\ queue'[k] = promos[p].numbers[k]

\* A promotion enqueues nothing that was not being watched when it began: what a
\* dropped target's late batch leaves among the candidates never reaches the queue.
OnlyWatchedIsPromoted ==
  [][\A p \in Promos, k \in Keys : queue[k] = None /\ Enqueues(p, k)
        => k \in promos[p].watched]_vars

\* A promotion, which builds its plans from what it read before it asked KLend,
\* replaces a newer plan by an older one only when, meanwhile, another promotion
\* had the same obligation in hand or the queue was rebuilt.
NoOlderPlanUnlessCrossed ==
  [][\A p \in Promos, k \in Keys :
       queue[k] # None /\ Enqueues(p, k) /\ Older(queue'[k], queue[k])
         => k \in promos[p].crossed]_vars

\* A promotion that turns to an obligation after KLend called it healthy does
\* not enqueue it, as long as that verdict's cooldown lasts.
HealthyIsNotPromoted ==
  [][\A p \in Promos, k \in Keys : Enqueues(p, k)
        => k \notin promos[p].late]_vars

\* What the realtime path wrote to the queue is read by a later cycle, although
\* a tick that finds a cycle running is lost and so is one that fires before
\* the flush it was scheduled with.
ChangesAreSeen == unseen ~> (~unseen \/ ~alive)
=============================================================================
