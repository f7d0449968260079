------------------------- MODULE YellowstoneListener -------------------------
(***************************************************************************)
(* YellowstoneAccountListener (src/src/monitoring/                         *)
(* yellowstoneAccountListener.ts) and its twin YellowstonePriceListener:   *)
(* subscribe() with its two awaits, the stream's listeners, reconnect()    *)
(* timers, deduplication of messages and the debounced emission.           *)
(*                                                                         *)
(* Listeners stay attached to a stream for good, so the 'close' that       *)
(* destroy() causes is heard like any other.  Streams are recycled once    *)
(* closed.  A message's (slot, writeVersion) is one version number: the    *)
(* code only compares the pairs lexicographically.                         *)
(***************************************************************************)
EXTENDS Naturals, FiniteSets, Sequences

CONSTANTS
  Keys,         \* subscribed pubkeys
  Streams,      \* stream objects, recycled
  None,         \* null
  MaxVersion,   \* bound: versions of messages are 1..MaxVersion
  MaxBackoff,   \* reconnectCount from which the delay is the 30 s cap
  MaxFaults,    \* bound: failures of the server or of a connection attempt
  MaxUpdates,   \* bound: calls of updateTargets()
  CanStop       \* whether stop() is called

ASSUME ListenerAssumption ==
  /\ None \notin Streams
  /\ MaxVersion \in Nat /\ MaxBackoff \in Nat /\ MaxFaults \in Nat /\ MaxUpdates \in Nat
  /\ CanStop \in BOOLEAN

VARIABLES
  phase,           \* "new", "starting" (start() not returned), "running" or "stopped"
  reconnectCount, heard, lastSeen, debounceTimer, pendingEvents,
  stream,          \* this.stream
  st,              \* what each stream is about to do
  awaitClient,     \* subscribe() calls awaiting createYellowstoneClient
  awaitStream,     \* subscribe() calls awaiting client.subscribe()
  timers,          \* reconnect timers pending
  emitted,         \* history: version last emitted per key
  faults, updates  \* history: what the environment has spent

connVars == <<reconnectCount, stream, st, timers, awaitClient, awaitStream>>
msgVars  == <<heard, lastSeen, debounceTimer, pendingEvents, emitted>>
envVars  == <<faults, updates>>
vars == <<phase, connVars, msgVars, envVars>>

running == phase \in {"starting", "running"}
StartReturns == phase' = IF phase = "starting" THEN "running" ELSE phase
StreamStates == {"free", "open", "failing", "ended", "closing"}

Init ==
  /\ phase = "new" /\ reconnectCount = 0 /\ heard = FALSE
  /\ lastSeen = [k \in Keys |-> 0] /\ emitted = [k \in Keys |-> 0]
  /\ debounceTimer = "none" /\ pendingEvents = <<>>
  /\ stream = None /\ st = [s \in Streams |-> "free"]
  /\ awaitClient = 0 /\ awaitStream = 0 /\ timers = 0
  /\ faults = 0 /\ updates = 0

-----------------------------------------------------------------------------
(* Connection.                                                             *)

\* cleanupStream() over stream states t: destroy() leaves a 'close' to emit.
Destroyed(t) ==
  IF stream = None THEN t
  ELSE [t EXCEPT ![stream] = IF @ \in {"open", "ended"} THEN "closing" ELSE @]

\* subscribe() up to its first await, `calls` of them being there already.
Subscribe(calls) ==
  /\ st' = Destroyed(st)
  /\ stream' = None
  /\ awaitClient' = calls + 1

\* reconnect() when the streams are in states t. One slip reconnects only once,
\* another schedules the resubscription twice.
ReconnectOnce(t) ==
  IF running /\ reconnectCount = 0
  THEN /\ timers' = timers + 1 /\ reconnectCount' = 1
       /\ st' = Destroyed(t) /\ stream' = None
  ELSE /\ st' = t /\ UNCHANGED <<timers, reconnectCount, stream>>
ReconnectTwice(t) ==
  IF running
  THEN /\ timers' = timers + 2 /\ UNCHANGED reconnectCount
       /\ st' = Destroyed(t) /\ stream' = None
  ELSE /\ st' = t /\ UNCHANGED <<timers, reconnectCount, stream>>
Reconnect(t) ==
  IF running
  THEN /\ timers' = timers + 1
       /\ reconnectCount' = IF reconnectCount < MaxBackoff THEN reconnectCount + 1
                            ELSE reconnectCount
       /\ st' = Destroyed(t) /\ stream' = None
  ELSE /\ st' = t /\ UNCHANGED <<timers, reconnectCount, stream>>

Start ==
  /\ phase = "new" /\ phase' = "starting"
  /\ Subscribe(awaitClient)
  /\ UNCHANGED <<reconnectCount, timers, awaitStream, msgVars, envVars>>

UpdateTargets ==
  /\ updates < MaxUpdates /\ updates' = updates + 1
  /\ phase = "running"
  /\ Subscribe(awaitClient)
  /\ UNCHANGED <<phase, reconnectCount, timers, awaitStream, msgVars, faults>>

TimerFires ==
  /\ timers > 0 /\ timers' = timers - 1
  /\ \/ running /\ Subscribe(awaitClient)
     \/ ~running /\ UNCHANGED <<st, stream, awaitClient>>
  /\ UNCHANGED <<phase, reconnectCount, awaitStream, msgVars, envVars>>

ClientReady ==
  /\ awaitClient > 0
  /\ awaitClient' = awaitClient - 1 /\ awaitStream' = awaitStream + 1
  /\ UNCHANGED <<phase, reconnectCount, stream, st, timers, msgVars, envVars>>

\* The second await returns: the listeners are attached, whatever stop() or
\* another subscribe() did meanwhile.
StreamReady(s) ==
  /\ awaitStream > 0 /\ awaitStream' = awaitStream - 1
  /\ st[s] = "free" /\ st' = [st EXCEPT ![s] = "open"]
  /\ stream' = s
  /\ StartReturns
  /\ UNCHANGED <<reconnectCount, timers, awaitClient, msgVars, envVars>>

\* The catch block of subscribe(): onError().
SubscribeFails ==
  /\ faults < MaxFaults /\ faults' = faults + 1
  /\ \/ awaitClient > 0 /\ awaitClient' = awaitClient - 1 /\ UNCHANGED awaitStream
     \/ awaitStream > 0 /\ awaitStream' = awaitStream - 1 /\ UNCHANGED awaitClient
  /\ Reconnect(st)
  /\ StartReturns
  /\ UNCHANGED <<msgVars, updates>>

\* The server fails or ends a stream; Node then emits 'error' or 'end', and 'close'.
ServerDrops(s) ==
  /\ faults < MaxFaults /\ faults' = faults + 1
  /\ st[s] = "open"
  /\ \E how \in {"failing", "ended", "closing"} : st' = [st EXCEPT ![s] = how]
  /\ UNCHANGED <<phase, reconnectCount, stream, timers, awaitClient, awaitStream,
                 msgVars, updates>>

EmitErrorOrEnd(s) ==
  /\ st[s] \in {"failing", "ended"}
  /\ Reconnect([st EXCEPT ![s] = "closing"])
  /\ UNCHANGED <<phase, awaitClient, awaitStream, msgVars, envVars>>

EmitClose(s) ==
  /\ st[s] = "closing"
  /\ Reconnect([st EXCEPT ![s] = "free"])
  /\ UNCHANGED <<phase, awaitClient, awaitStream, msgVars, envVars>>

-----------------------------------------------------------------------------
(* Messages.                                                               *)

\* isNewer, and a slip that lets a repeated version through.
IsNewerOrSame(k, v) == v >= lastSeen[k]
IsNewer(k, v) == v > lastSeen[k]

\* onMessage() and coalesce().
Message(s, k, v) ==
  /\ st[s] = "open" /\ running
  /\ IsNewer(k, v)
  /\ lastSeen' = [lastSeen EXCEPT ![k] = v]
  /\ reconnectCount' = IF heard THEN reconnectCount ELSE 0
  /\ heard' = TRUE
  /\ pendingEvents' = Append(pendingEvents, [key |-> k, version |-> v])
  /\ debounceTimer' = IF debounceTimer = "none" THEN "armed" ELSE debounceTimer
  /\ UNCHANGED <<phase, stream, st, timers, awaitClient, awaitStream, emitted, envVars>>

Versions(k) == {pendingEvents[i].version : i \in {j \in DOMAIN pendingEvents : pendingEvents[j].key = k}}
LastVersion(k) == CHOOSE v \in Versions(k) : \A w \in Versions(k) : w <= v

\* The debounce callback emits the batch.
Fired == debounceTimer' = "none"

Flush ==
  /\ debounceTimer = "armed"
  /\ Fired
  /\ emitted' = [k \in Keys |-> IF Versions(k) = {} THEN emitted[k] ELSE LastVersion(k)]
  /\ pendingEvents' = <<>>
  /\ UNCHANGED <<phase, connVars, heard, lastSeen, envVars>>

\* stop(): the debounce timer is cleared but its field is not reset.
Stop ==
  /\ CanStop /\ running /\ phase' = "stopped"
  /\ debounceTimer' = IF debounceTimer = "armed" THEN "cleared" ELSE debounceTimer
  /\ pendingEvents' = <<>>
  /\ lastSeen' = [k \in Keys |-> 0]
  /\ st' = Destroyed(st) /\ stream' = None
  /\ UNCHANGED <<reconnectCount, timers, awaitClient, awaitStream, heard, emitted, envVars>>

-----------------------------------------------------------------------------
Next ==
  \/ Start \/ UpdateTargets \/ TimerFires \/ ClientReady \/ SubscribeFails \/ Flush \/ Stop
  \/ \E s \in Streams :
       \/ StreamReady(s) \/ ServerDrops(s) \/ EmitErrorOrEnd(s) \/ EmitClose(s)
       \/ \E k \in Keys, v \in 1..MaxVersion : Message(s, k, v)

Fairness ==
  /\ WF_vars(Start) /\ WF_vars(TimerFires) /\ WF_vars(ClientReady)
  /\ WF_vars(\E s \in Streams : StreamReady(s))
  /\ WF_vars(\E s \in Streams : EmitErrorOrEnd(s) \/ EmitClose(s))
  /\ WF_vars(Flush)

Spec == Init /\ [][Next]_vars /\ Fairness

-----------------------------------------------------------------------------
\* Every stream, attempt and timer descends from start(), a fault or an update.
MaxTokens == 1 + MaxFaults + MaxUpdates

TypeOK ==
  /\ phase \in {"new", "starting", "running", "stopped"}
  /\ reconnectCount \in 0..MaxBackoff /\ heard \in BOOLEAN
  /\ lastSeen \in [Keys -> 0..MaxVersion] /\ emitted \in [Keys -> 0..MaxVersion]
  /\ debounceTimer \in {"none", "armed", "cleared"}
  /\ pendingEvents \in Seq([key : Keys, version : 1..MaxVersion])
  /\ stream \in Streams \cup {None} /\ st \in [Streams -> StreamStates]
  /\ awaitClient \in 0..MaxTokens /\ awaitStream \in 0..MaxTokens /\ timers \in 0..MaxTokens
  /\ faults \in 0..MaxFaults /\ updates \in 0..MaxUpdates

\* While the listener runs no version of an account is emitted twice or after a
\* newer one, across reconnections and streams that overlap.
EventsInOrder ==
  running =>
    \A i \in DOMAIN pendingEvents :
      LET e == pendingEvents[i]
      IN  /\ e.version > emitted[e.key]
          /\ \A j \in 1..i - 1 :
               pendingEvents[j].key = e.key => pendingEvents[j].version < e.version

\* A running listener always gets back to an open stream of its own.
ComesBack == [](running => <>(~running \/ (stream # None /\ st[stream] = "open")))

\* Reconnecting leaks no stream: the open one is the one the listener holds.
NoLeakedStream == \A s \in Streams : st[s] = "open" => stream = s

=============================================================================
