----------------------------- MODULE LiveIndexer -----------------------------
(***************************************************************************)
(* LiveObligationIndexer (src/src/engine/liveObligationIndexer.ts): the    *)
(* bootstrap, the reconnecting subscription loop, the update handler with  *)
(* its slot guard and circuit breaker, and stop(), which may run at any    *)
(* await of the loop.  One start() and at most one stop(), as the commands *)
(* that own an indexer use it.                                             *)
(***************************************************************************)
EXTENDS SubscriptionOps

CONSTANTS
  Keys,           \* obligation pubkeys
  MaxSlot,        \* bound: slots of updates are 1..MaxSlot
  MaxStreams,     \* bound: subscriptions opened in a behaviour
  MaxReconnect,   \* config.maxReconnectAttempts
  MaxRetries,     \* withRetry's maxRetries around the connection
  Threshold       \* CIRCUIT_BREAKER_THRESHOLD

ASSUME LiveIndexerAssumption ==
  /\ MaxSlot \in Nat \ {0} /\ MaxStreams \in Nat \ {0}
  /\ MaxReconnect \in Nat \ {0} /\ MaxRetries \in Nat
  /\ Threshold \in Nat \ {0}

VARIABLES
  isRunning, shouldReconnect, attempt, reconnectCount,
  activeSub,      \* index in subs of this.activeSub, 0 for null
  client,         \* whether this.client is set
  cache,          \* slot of the cached entry per key, or Absent
  failures,       \* decodeFailures still in the window
  subs,           \* every subscription opened so far
  loop,           \* where startSubscription (or start) is
  tries,          \* withRetry's attempt while connecting
  awaited,        \* the subscription whose done the loop awaits, or awaited last
  pending,        \* keys the bootstrap has not fetched yet
  stopping,       \* where stop() is
  stopSub         \* the subscription stop() waits for

vars == <<isRunning, shouldReconnect, attempt, reconnectCount, activeSub, client,
          cache, failures, subs, loop, tries, awaited, pending, stopping, stopSub>>

flags == <<isRunning, shouldReconnect>>
loopVars == <<attempt, reconnectCount, client, loop, tries, awaited, pending>>
stopVars == <<stopping, stopSub>>

Absent == MaxSlot + 1
StreamIds == 1..MaxStreams
Errors == {"failed", "invalid"}

Init ==
  /\ isRunning = FALSE /\ shouldReconnect = TRUE
  /\ attempt = 0 /\ reconnectCount = 0
  /\ activeSub = 0 /\ client = FALSE
  /\ cache = [k \in Keys |-> Absent]
  /\ failures = 0
  /\ subs = [i \in StreamIds |-> NoSub]
  /\ loop = "idle" /\ tries = 0 /\ awaited = 0 /\ pending = {}
  /\ stopping = "idle" /\ stopSub = 0

-----------------------------------------------------------------------------
(* start(): the flags, the snapshot file, and the RPC bootstrap.           *)

Start ==
  /\ loop = "idle"
  /\ isRunning' = TRUE /\ shouldReconnect' = TRUE
  /\ loop' = "boot"
  /\ \E known \in SUBSET Keys : pending' = known
  /\ UNCHANGED <<attempt, reconnectCount, activeSub, client, cache, failures,
                 subs, tries, awaited, stopVars>>

\* One account of a batch: stored at slot 0, or missing, undecodable or not
\* fetched, which leaves the cache alone.
Bootstrap(k) ==
  /\ loop = "boot" /\ k \in pending
  /\ pending' = pending \ {k}
  /\ \/ cache' = [cache EXCEPT ![k] = 0]
     \/ UNCHANGED cache
  /\ UNCHANGED <<flags, attempt, reconnectCount, activeSub, client, failures,
                 subs, loop, tries, awaited, stopVars>>

-----------------------------------------------------------------------------
(* startSubscription().                                                    *)

\* The condition of the while loop, followed by cleanupClient() either way.
EnterLoopUnchecked == loop' = "connecting" /\ client' = FALSE /\ tries' = 0
EnterLoop ==
  /\ loop' = IF shouldReconnect /\ isRunning THEN "connecting" ELSE "off"
  /\ client' = FALSE
  /\ tries' = 0

Bootstrapped ==
  /\ loop = "boot" /\ pending = {}
  /\ EnterLoop
  /\ UNCHANGED <<flags, attempt, reconnectCount, activeSub, cache, failures,
                 subs, awaited, pending, stopVars>>

Fatal(err) == err = "invalid"

Exhausted(n) == n > MaxReconnect

\* The catch block.
Caught(err) ==
  /\ UNCHANGED <<reconnectCount, awaited, pending, activeSub, cache, failures, subs, stopVars>>
  /\ \/ /\ err = "invalid"
        /\ isRunning' = FALSE /\ shouldReconnect' = FALSE
        /\ loop' = "off"
        /\ UNCHANGED <<attempt, client, tries>>
     \/ /\ ~Fatal(err) /\ shouldReconnect /\ isRunning
        /\ attempt' = attempt + 1
        /\ \/ /\ ~Exhausted(attempt')
              /\ loop' = "waiting"
              /\ UNCHANGED <<flags, client, tries>>
           \/ /\ Exhausted(attempt')
              /\ isRunning' = FALSE /\ shouldReconnect' = FALSE
              /\ loop' = "off" /\ client' = FALSE
              /\ UNCHANGED tries
     \/ /\ ~Fatal(err) /\ ~(shouldReconnect /\ isRunning)
        /\ EnterLoop
        /\ UNCHANGED <<flags, attempt>>

\* withRetry around createYellowstoneClient.
ConnectRetry ==
  /\ loop = "connecting" /\ tries < MaxRetries
  /\ tries' = tries + 1
  /\ UNCHANGED <<flags, attempt, reconnectCount, activeSub, client, cache, failures,
                 subs, loop, awaited, pending, stopVars>>

ConnectFails(err) == loop = "connecting" /\ tries = MaxRetries /\ Caught(err)

Connected ==
  /\ loop = "connecting"
  /\ loop' = "subscribing"
  /\ client' = TRUE
  /\ attempt' = 0
  /\ UNCHANGED <<flags, reconnectCount, activeSub, cache, failures,
                 subs, tries, awaited, pending, stopVars>>

SubscribeFails(err) == loop = "subscribing" /\ Caught(err)

Subscribed ==
  /\ loop = "subscribing" /\ awaited < MaxStreams
  /\ awaited' = awaited + 1 /\ activeSub' = awaited + 1
  /\ subs' = [subs EXCEPT ![awaited + 1] = Opened]
  /\ loop' = "streaming"
  /\ UNCHANGED <<flags, attempt, reconnectCount, client, cache, failures,
                 tries, pending, stopVars>>

StreamResolved ==
  /\ loop = "streaming" /\ subs[awaited].settled = "resolved"
  /\ \/ /\ shouldReconnect /\ isRunning
        /\ reconnectCount' = reconnectCount + 1
        /\ loop' = "waiting"
        /\ UNCHANGED <<client, tries>>
     \/ /\ ~(shouldReconnect /\ isRunning)
        /\ EnterLoop
        /\ UNCHANGED reconnectCount
  /\ UNCHANGED <<flags, attempt, activeSub, cache, failures, subs,
                 awaited, pending, stopVars>>

StreamRejected ==
  /\ loop = "streaming" /\ subs[awaited].settled \in Errors
  /\ Caught(subs[awaited].settled)

\* The reconnect delay or the back-off is over.
Wake ==
  /\ loop = "waiting"
  /\ EnterLoop
  /\ UNCHANGED <<flags, attempt, reconnectCount, activeSub, cache, failures,
                 subs, awaited, pending, stopVars>>

-----------------------------------------------------------------------------
(* The stream and its listeners, each run to completion on the event loop. *)

OnStream(i, s) ==
  /\ subs' = [subs EXCEPT ![i] = s]
  /\ UNCHANGED <<flags, activeSub, cache, failures, loopVars, stopVars>>

Ping(i) == subs[i].st = "open" /\ OnStream(i, OnData(subs[i]))

\* handleAccountUpdate for an account that decodes. The slip keeps an older slot.
StoreAny(k, slot) == cache' = [cache EXCEPT ![k] = slot]
Store(k, slot) ==
  cache' = [cache EXCEPT ![k] = IF cache[k] # Absent /\ slot < cache[k] THEN @ ELSE slot]

AccountUpdate(i, k, slot) ==
  /\ subs[i].st = "open"
  /\ subs' = [subs EXCEPT ![i] = OnData(@)]
  /\ Store(k, slot)
  /\ UNCHANGED <<flags, activeSub, failures, attempt, reconnectCount, client,
                 loop, tries, awaited, pending, stopVars>>

\* trackDecodeFailure, with `recent` earlier failures still in the window.
Trip(streams) ==
  /\ isRunning' = FALSE /\ shouldReconnect' = FALSE
  /\ subs' = IF activeSub = 0 THEN streams ELSE [streams EXCEPT ![activeSub] = Close(@)]

DecodeFailure(i, recent) ==
  /\ subs[i].st = "open"
  /\ recent < Threshold
  /\ failures' = recent + 1
  /\ LET streams == [subs EXCEPT ![i] = OnData(@)]
     IN  \/ failures' >= Threshold /\ Trip(streams)
         \/ failures' < Threshold /\ subs' = streams /\ UNCHANGED flags
  /\ UNCHANGED <<activeSub, cache, attempt, reconnectCount, client,
                 loop, tries, awaited, pending, stopVars>>

\* The server: it ends the stream, fails it, or falls silent.
ServerEnds(i) == Live(subs[i]) /\ OnStream(i, [subs[i] EXCEPT !.st = "ended"])
ServerFails(i, err) == Live(subs[i]) /\ OnStream(i, DestroyWith(subs[i], err))
ServerSilent(i) == subs[i].st = "open" /\ OnStream(i, [subs[i] EXCEPT !.st = "silent"])

Inactive(i) == subs[i].armed /\ OnStream(i, OnInactive(subs[i]))

EmitError(i) == subs[i].st = "failing" /\ OnStream(i, OnError(subs[i]))
EmitEnd(i)   == subs[i].st = "ended" /\ OnStream(i, OnEnd(subs[i]))
EmitClose(i) == subs[i].st = "closing" /\ OnStream(i, OnClose(subs[i]))
Emit(i) == EmitError(i) \/ EmitEnd(i) \/ EmitClose(i)

-----------------------------------------------------------------------------
(* stop().                                                                 *)

Stop ==
  /\ stopping = "idle" /\ loop # "idle"
  /\ \/ /\ ~isRunning
        /\ stopping' = "returned"
        /\ UNCHANGED <<flags, subs, stopSub, client>>
     \/ /\ isRunning
        /\ isRunning' = FALSE /\ shouldReconnect' = FALSE
        /\ \/ /\ activeSub # 0
              /\ subs' = [subs EXCEPT ![activeSub] = Close(@)]
              /\ stopping' = "racing" /\ stopSub' = activeSub
              /\ UNCHANGED client
           \/ /\ activeSub = 0
              /\ client' = FALSE
              /\ stopping' = "returned"
              /\ UNCHANGED <<subs, stopSub>>
  /\ UNCHANGED <<attempt, reconnectCount, activeSub, cache, failures,
                 loop, tries, awaited, pending>>

\* The race of done against the five seconds is over, whoever won.
StopWaited ==
  /\ stopping = "racing"
  /\ activeSub' = 0 /\ client' = FALSE
  /\ stopping' = "returned"
  /\ UNCHANGED <<flags, attempt, reconnectCount, cache, failures, subs,
                 loop, tries, awaited, pending, stopSub>>

-----------------------------------------------------------------------------
LoopStep ==
  \/ \E k \in Keys : Bootstrap(k)
  \/ Bootstrapped \/ ConnectRetry \/ Connected \/ Subscribed
  \/ StreamResolved \/ StreamRejected \/ Wake
  \/ \E err \in Errors : ConnectFails(err) \/ SubscribeFails(err)

Delivery(i) ==
  \/ Ping(i)
  \/ \E k \in Keys, slot \in 1..MaxSlot : AccountUpdate(i, k, slot)
  \/ \E recent \in 0..failures : DecodeFailure(i, recent)

Server(i) == ServerEnds(i) \/ ServerSilent(i) \/ \E err \in Errors : ServerFails(i, err)

Next ==
  \/ Start \/ LoopStep \/ Stop \/ StopWaited
  \/ \E i \in StreamIds : Delivery(i) \/ Server(i) \/ Inactive(i) \/ Emit(i)

Fairness ==
  /\ WF_vars(LoopStep) /\ WF_vars(StopWaited)
  /\ \A i \in StreamIds :
       /\ WF_vars(Emit(i))
       /\ WF_vars(subs[i].st = "silent" /\ Inactive(i))

Spec == Init /\ [][Next]_vars /\ Fairness

-----------------------------------------------------------------------------
TypeOK ==
  /\ isRunning \in BOOLEAN /\ shouldReconnect \in BOOLEAN /\ client \in BOOLEAN
  /\ attempt \in 0..MaxReconnect + 1
  /\ reconnectCount \in 0..MaxStreams
  /\ activeSub \in 0..MaxStreams /\ awaited \in 0..MaxStreams /\ stopSub \in 0..MaxStreams
  /\ cache \in [Keys -> 0..MaxSlot + 1]
  /\ failures \in 0..Threshold
  /\ subs \in [StreamIds -> Sub]
  /\ loop \in {"idle", "boot", "connecting", "subscribing", "streaming", "waiting", "off"}
  /\ tries \in 0..MaxRetries
  /\ pending \in SUBSET Keys
  /\ stopping \in {"idle", "racing", "returned"}

\* A cached obligation never goes back to an older slot, however many
\* subscriptions followed one another.
SlotsNeverRegress ==
  [][\A k \in Keys : cache[k] # Absent => cache'[k] # Absent /\ cache'[k] >= cache[k]]_vars

\* The loop only moves on from a stream that is finished, so two streams never
\* feed the cache at once.
OneLiveStream ==
  \A i, j \in StreamIds : Live(subs[i]) /\ Live(subs[j]) => i = j

\* An InvalidArg rejection ends the indexer: no stream is opened after it.
InvalidArgIsFinal ==
  \A i, j \in StreamIds : subs[i].settled = "invalid" /\ i < j => subs[j].st = "none"

\* Once shouldReconnect is down, by stop(), the breaker, InvalidArg or the
\* attempt limit, the loop begins no new connection.
NoReconnectOnceHalted ==
  [][~shouldReconnect /\ loop # "connecting" => loop' # "connecting"]_vars

\* A server that falls silent is noticed: done settles.
SilenceIsNoticed ==
  \A i \in StreamIds : subs[i].st = "silent" ~> subs[i].settled # "pending"

\* A stop() that finds the loop in a stream or in a delay ends it.
StopEndsLoop ==
  (stopping = "racing" /\ stopSub = awaited /\ loop \in {"streaming", "waiting"}) ~> loop = "off"
=============================================================================
