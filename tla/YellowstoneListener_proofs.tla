---------------------- MODULE YellowstoneListener_proofs ----------------------
(***************************************************************************)
(* YellowstoneListener for every set of accounts and streams, any versions *)
(* and any number of faults and retargetings.                              *)
(***************************************************************************)
EXTENDS YellowstoneListener, FiniteSetTheorems, TLAPS

Event == [key : Keys, version : 1..MaxVersion]

\* The messages' part of the state keeps its types.
MsgTypeOK ==
  /\ phase \in {"new", "starting", "running", "stopped"}
  /\ lastSeen \in [Keys -> 0..MaxVersion] /\ emitted \in [Keys -> 0..MaxVersion]
  /\ pendingEvents \in Seq(Event)

\* What is pending is newer than what was emitted, in order, and no newer than
\* lastSeen, which is itself pending if its account has anything pending.
Ordered ==
  \A i \in DOMAIN pendingEvents :
    LET e == pendingEvents[i]
    IN  /\ emitted[e.key] < e.version /\ e.version <= lastSeen[e.key]
        /\ \A j \in 1..i - 1 :
             pendingEvents[j].key = e.key => pendingEvents[j].version < e.version
        /\ \E j \in DOMAIN pendingEvents :
             pendingEvents[j].key = e.key /\ pendingEvents[j].version = lastSeen[e.key]
Seen == \A k \in Keys : emitted[k] <= lastSeen[k]
Inv == /\ MsgTypeOK
       /\ running => Ordered /\ Seen
       /\ ~running => pendingEvents = <<>>
       /\ phase = "new" => Seen

LEMMA InitInv == Init => Inv
BY ListenerAssumption DEF Init, Inv, MsgTypeOK, Seen, running, Event

LEMMA MessageInv ==
  ASSUME Inv, NEW s \in Streams, NEW k \in Keys, NEW v \in 1..MaxVersion, Message(s, k, v)
  PROVE  Inv'
<1>. DEFINE e == [key |-> k, version |-> v]
<1>1. /\ running /\ v > lastSeen[k] /\ phase' = phase /\ emitted' = emitted
      /\ lastSeen' = [lastSeen EXCEPT ![k] = v] /\ pendingEvents' = Append(pendingEvents, e)
  BY DEF Message, IsNewer
<1>2. e \in Event /\ pendingEvents \in Seq(Event)
  BY DEF Event, Inv, MsgTypeOK
<1>3. MsgTypeOK'
  BY <1>1, <1>2 DEF Inv, MsgTypeOK
<1>4. lastSeen \in [Keys -> 0..MaxVersion] /\ emitted \in [Keys -> 0..MaxVersion] /\ MaxVersion \in Nat
  BY ListenerAssumption DEF Inv, MsgTypeOK
<1>5. Seen'
  BY <1>1, <1>4 DEF Inv, Seen
<1>6. ASSUME NEW i \in DOMAIN pendingEvents'
      PROVE  LET f == pendingEvents'[i]
             IN  /\ emitted'[f.key] < f.version /\ f.version <= lastSeen'[f.key]
                 /\ \A j \in 1..i - 1 :
                      pendingEvents'[j].key = f.key => pendingEvents'[j].version < f.version
                 /\ \E j \in DOMAIN pendingEvents' :
                      pendingEvents'[j].key = f.key /\ pendingEvents'[j].version = lastSeen'[f.key]
  <2>. DEFINE n == Len(pendingEvents)
  <2>1. /\ DOMAIN pendingEvents' = 1..(n + 1) /\ DOMAIN pendingEvents = 1..n /\ n \in Nat
        /\ pendingEvents'[n + 1] = e
        /\ \A j \in 1..n : pendingEvents'[j] = pendingEvents[j] /\ pendingEvents[j] \in Event
    BY <1>1, <1>2
  <2>2. CASE i = n + 1
    <3>1. \A j \in 1..n : pendingEvents[j].key = k => pendingEvents[j].version < v
      <4>1. \A j \in 1..n : pendingEvents[j].version <= lastSeen[pendingEvents[j].key]
        <5>1. Ordered
          BY <1>1 DEF Inv
        <5>. QED BY <2>1, <5>1 DEF Ordered
      <4>. QED BY <1>1, <1>4, <2>1, <4>1 DEF Event
    <3>2. emitted[k] < v
      BY <1>1, <1>4 DEF Inv, Seen
    <3>3. lastSeen'[k] = v
      BY <1>1, <1>4
    <3>4. i - 1 = n /\ pendingEvents'[i] = e /\ i \in DOMAIN pendingEvents'
      BY <2>1, <2>2
    <3>. QED BY <1>1, <2>1, <3>1, <3>2, <3>3, <3>4
  <2>3. CASE i \in 1..n
    <3>. DEFINE f == pendingEvents[i]
    <3>1. /\ f \in Event /\ emitted[f.key] < f.version /\ f.version <= lastSeen[f.key]
          /\ \A j \in 1..i - 1 : pendingEvents[j].key = f.key => pendingEvents[j].version < f.version
          /\ \E j \in 1..n : pendingEvents[j].key = f.key /\ pendingEvents[j].version = lastSeen[f.key]
      BY <1>1, <2>1, <2>3 DEF Inv, Ordered
    <3>2. pendingEvents'[i] = f /\ \A j \in 1..i - 1 : j \in 1..n
      BY <2>1, <2>3
    <3>3. f.version <= lastSeen'[f.key]
      BY <1>1, <1>4, <3>1 DEF Event
    <3>4. \E j \in 1..(n + 1) :
            pendingEvents'[j].key = f.key /\ pendingEvents'[j].version = lastSeen'[f.key]
      <4>1. CASE f.key = k
        BY <1>1, <1>4, <2>1, <4>1
      <4>2. CASE f.key # k
        <5>1. lastSeen'[f.key] = lastSeen[f.key]
          BY <1>1, <1>4, <3>1, <4>2 DEF Event
        <5>. QED BY <2>1, <3>1, <5>1
      <4>. QED BY <4>1, <4>2
    <3>. QED BY <1>1, <2>1, <3>1, <3>2, <3>3, <3>4
  <2>. QED BY <2>1, <2>2, <2>3
<1>7. Ordered'
  BY <1>6 DEF Ordered
<1>8. running' /\ phase' # "new"
  BY <1>1 DEF running
<1>. QED BY <1>3, <1>5, <1>7, <1>8 DEF Inv

LEMMA FlushInv ==
  ASSUME Inv, Flush
  PROVE  Inv'
<1>1. /\ phase' = phase /\ lastSeen' = lastSeen /\ pendingEvents' = <<>>
      /\ emitted' = [k \in Keys |-> IF Versions(k) = {} THEN emitted[k] ELSE LastVersion(k)]
  BY DEF Flush
<1>2. \A k \in Keys : Versions(k) \subseteq 1..MaxVersion
  <2>1. \A j \in DOMAIN pendingEvents : pendingEvents[j] \in Event
    BY DEF Inv, MsgTypeOK
  <2>2. \A j \in DOMAIN pendingEvents : pendingEvents[j].version \in 1..MaxVersion
    BY <2>1 DEF Event
  <2>. QED BY <2>2 DEF Versions
<1>3. ASSUME NEW k \in Keys, Versions(k) # {}
      PROVE  LastVersion(k) \in Versions(k)
  <2>1. \E v \in Versions(k) : \A w \in Versions(k) : w <= v
    <3>1. CASE running
      <4>1. PICK i \in DOMAIN pendingEvents : pendingEvents[i].key = k
        BY <1>3 DEF Versions
      <4>2. lastSeen[k] \in Versions(k)
        BY <3>1, <4>1 DEF Inv, Ordered, Versions
      <4>3. \A w \in Versions(k) : w <= lastSeen[k]
        BY <3>1 DEF Inv, Ordered, Versions
      <4>. QED BY <4>2, <4>3
    <3>2. CASE ~running
      BY <1>3, <3>2 DEF Inv, Versions
    <3>. QED BY <3>1, <3>2
  <2>. QED BY <2>1 DEF LastVersion
<1>4. emitted' \in [Keys -> 0..MaxVersion]
  BY <1>1, <1>2, <1>3, ListenerAssumption DEF Inv, MsgTypeOK
<1>5. MsgTypeOK'
  BY <1>1, <1>4 DEF Inv, MsgTypeOK
<1>6. ASSUME Seen, Ordered \/ pendingEvents = <<>> PROVE Seen'
  <2>1. \A k \in Keys : \A w \in Versions(k) : w <= lastSeen[k]
    BY <1>6 DEF Ordered, Versions
  <2>. QED BY <1>1, <1>3, <1>6, <2>1 DEF Seen
<1>7. Ordered'
  BY <1>1 DEF Ordered
<1>. QED BY <1>1, <1>5, <1>6, <1>7 DEF Inv, running

LEMMA NextInv == Inv /\ [Next]_vars => Inv'
<1>. SUFFICES ASSUME Inv, [Next]_vars PROVE Inv'
  OBVIOUS
<1>1. ASSUME NEW s \in Streams, NEW k \in Keys, NEW v \in 1..MaxVersion, Message(s, k, v) PROVE Inv'
  BY <1>1, MessageInv
<1>2. CASE Flush
  BY <1>2, FlushInv
<1>3. CASE Stop
  <2>1. phase' = "stopped" /\ pendingEvents' = <<>> /\ emitted' = emitted /\ lastSeen' \in [Keys -> 0..MaxVersion]
    BY <1>3, ListenerAssumption DEF Stop
  <2>2. ~running' /\ phase' # "new" /\ pendingEvents' \in Seq(Event)
    BY <2>1 DEF running
  <2>. QED BY <2>1, <2>2 DEF Inv, MsgTypeOK
<1>4. ASSUME UNCHANGED msgVars, phase' \in {"starting", "running", phase}, running' = running \/ phase = "new",
             phase' # "new" \/ phase = "new"
      PROVE  Inv'
  <2>1. UNCHANGED <<lastSeen, emitted, pendingEvents>>
    BY <1>4 DEF msgVars
  <2>2. MsgTypeOK'
    BY <1>4, <2>1 DEF Inv, MsgTypeOK
  <2>3. Ordered' <=> Ordered
    BY <2>1 DEF Ordered
  <2>4. Seen' <=> Seen
    BY <2>1 DEF Seen
  <2>5. phase = "new" => Seen /\ pendingEvents = <<>> /\ Ordered
    BY DEF Inv, running, Ordered
  <2>. QED BY <1>4, <2>1, <2>2, <2>3, <2>4, <2>5 DEF Inv
<1>5. CASE Start
  BY <1>4, <1>5 DEF Start
<1>6. CASE UpdateTargets \/ TimerFires \/ ClientReady
  BY <1>4, <1>6 DEF UpdateTargets, TimerFires, ClientReady, running
<1>7. CASE SubscribeFails \/ \E s \in Streams : StreamReady(s)
  BY <1>4, <1>7 DEF SubscribeFails, StreamReady, StartReturns, running
<1>8. CASE \E s \in Streams : ServerDrops(s) \/ EmitErrorOrEnd(s) \/ EmitClose(s)
  BY <1>4, <1>8 DEF ServerDrops, EmitErrorOrEnd, EmitClose, running
<1>9. CASE UNCHANGED vars
  BY <1>4, <1>9 DEF vars, running
<1>. QED BY <1>1, <1>2, <1>3, <1>5, <1>6, <1>7, <1>8, <1>9 DEF Next

-----------------------------------------------------------------------------
(* The connection's part of the state.  A stream about to fail or to end    *)
(* will reconnect twice, in 'error' or 'end' and again in 'close', every    *)
(* other one once: with the pending calls and timers these reconnections    *)
(* still to come never outgrow start(), the faults and the retargetings     *)
(* they descend from.                                                       *)

Live(t) == {s \in Streams : t[s] # "free"}
Doomed(t) == {s \in Streams : t[s] \in {"failing", "ended"}}
Weight(t) == Cardinality(Live(t)) + Cardinality(Doomed(t))
WeightOf(state) ==
  IF state = "free" THEN 0 ELSE IF state \in {"failing", "ended"} THEN 2 ELSE 1

StreamsOK(t) == t \in [Streams -> StreamStates] /\ IsFiniteSet(Live(t))

ConnOK ==
  /\ phase \in {"new", "starting", "running", "stopped"}
  /\ reconnectCount \in 0..MaxBackoff /\ heard \in BOOLEAN
  /\ debounceTimer \in {"none", "armed", "cleared"}
  /\ stream \in Streams \cup {None} /\ StreamsOK(st)
  /\ awaitClient \in Nat /\ awaitStream \in Nat /\ timers \in Nat
  /\ faults \in 0..MaxFaults /\ updates \in 0..MaxUpdates

Budgeted ==
  awaitClient + awaitStream + timers + Weight(st)
    <= (IF phase = "new" THEN 0 ELSE 1) + faults + updates

\* Streams weigh a number.
LEMMA WeightTyped ==
  ASSUME NEW t, StreamsOK(t)
  PROVE  Weight(t) \in Nat
<1>1. Doomed(t) \in SUBSET Live(t)
  BY DEF Doomed, Live
<1>2. IsFiniteSet(Doomed(t))
  BY <1>1, FS_Subset DEF StreamsOK
<1>3. Cardinality(Live(t)) \in Nat /\ Cardinality(Doomed(t)) \in Nat
  BY <1>2, FS_CardinalityType DEF StreamsOK
<1>. QED BY <1>3 DEF Weight

\* cleanupStream() makes no stream heavier.
LEMMA DestroyedWeight ==
  ASSUME NEW t, StreamsOK(t), stream \in Streams \cup {None}
  PROVE  StreamsOK(Destroyed(t)) /\ Weight(Destroyed(t)) <= Weight(t)
<1>. DEFINE u == Destroyed(t)
<1>1. u \in [Streams -> StreamStates]
  BY DEF Destroyed, StreamsOK, StreamStates
<1>2. Live(u) = Live(t)
  BY DEF Destroyed, StreamsOK, Live
<1>3. Doomed(u) \in SUBSET Doomed(t)
  BY DEF Destroyed, StreamsOK, Doomed
<1>. HIDE DEF u
<1>4. StreamsOK(u)
  BY <1>1, <1>2 DEF StreamsOK
<1>5. Doomed(t) \in SUBSET Live(t)
  BY DEF Doomed, Live
<1>6. IsFiniteSet(Doomed(t))
  BY <1>5, FS_Subset DEF StreamsOK
<1>7. Cardinality(Doomed(u)) <= Cardinality(Doomed(t)) /\ IsFiniteSet(Doomed(u))
  BY <1>3, <1>6, FS_Subset
<1>8. /\ Cardinality(Doomed(u)) \in Nat /\ Cardinality(Doomed(t)) \in Nat
      /\ Cardinality(Live(t)) \in Nat
  BY <1>6, <1>7, FS_CardinalityType DEF StreamsOK
<1>9. Weight(u) <= Weight(t)
  BY <1>2, <1>7, <1>8 DEF Weight
<1>. QED BY <1>4, <1>9 DEF u

\* One stream changes its state.
LEMMA ChangedWeight ==
  ASSUME NEW t, StreamsOK(t), NEW s \in Streams, NEW state \in StreamStates
  PROVE  LET u == [t EXCEPT ![s] = state]
         IN StreamsOK(u) /\ Weight(u) = Weight(t) - WeightOf(t[s]) + WeightOf(state)
<1>. DEFINE u == [t EXCEPT ![s] = state]
            Bit(c) == IF c THEN 1 ELSE 0
<1>1. u \in [Streams -> StreamStates] /\ t[s] \in StreamStates
  BY DEF StreamsOK
<1>2. Live(t) \ {s} = Live(u) \ {s} /\ Doomed(t) \ {s} = Doomed(u) \ {s}
  BY DEF StreamsOK, Live, Doomed
<1>3. /\ s \in Live(t) <=> t[s] # "free"
      /\ s \in Live(u) <=> state # "free"
      /\ s \in Doomed(t) <=> t[s] \in {"failing", "ended"}
      /\ s \in Doomed(u) <=> state \in {"failing", "ended"}
  BY DEF StreamsOK, Live, Doomed
<1>. HIDE DEF u
<1>4. IsFiniteSet(Doomed(t)) /\ IsFiniteSet(Live(t))
  <2>1. Doomed(t) \in SUBSET Live(t)
    BY DEF Doomed, Live
  <2>. QED BY <2>1, FS_Subset DEF StreamsOK
<1>5. ASSUME NEW S, NEW T, IsFiniteSet(S), S \ {s} = T \ {s}
      PROVE  /\ IsFiniteSet(T)
             /\ Cardinality(T) = Cardinality(S) - Bit(s \in S) + Bit(s \in T)
  <2>1. /\ IsFiniteSet(T \ {s})
        /\ Cardinality(T \ {s}) = IF s \in S THEN Cardinality(S) - 1 ELSE Cardinality(S)
    BY <1>5, FS_RemoveElement
  <2>2. /\ IsFiniteSet((T \ {s}) \cup {s})
        /\ Cardinality((T \ {s}) \cup {s}) = Cardinality(T \ {s}) + 1
    BY <2>1, FS_AddElement
  <2>3. Cardinality(S) \in Nat
    BY <1>5, FS_CardinalityType
  <2>4. CASE s \in T
    <3>1. T = (T \ {s}) \cup {s}
      BY <2>4
    <3>2. IsFiniteSet(T) /\ Cardinality(T) = Cardinality(T \ {s}) + 1
      BY <2>2, <3>1, Zenon
    <3>. QED BY <2>1, <2>4, <2>3, <3>2
  <2>5. CASE s \notin T
    <3>1. T = T \ {s}
      BY <2>5
    <3>2. IsFiniteSet(T) /\ Cardinality(T) = Cardinality(T \ {s})
      BY <2>1, <3>1, Zenon
    <3>. QED BY <2>1, <2>3, <2>5, <3>2
  <2>. QED BY <2>4, <2>5
<1>6. /\ IsFiniteSet(Live(u))
      /\ Cardinality(Live(u)) = Cardinality(Live(t)) - Bit(s \in Live(t)) + Bit(s \in Live(u))
      /\ Cardinality(Doomed(u)) = Cardinality(Doomed(t)) - Bit(s \in Doomed(t)) + Bit(s \in Doomed(u))
  BY <1>2, <1>4, <1>5
<1>7. Cardinality(Live(t)) \in Nat /\ Cardinality(Doomed(t)) \in Nat
  BY <1>4, FS_CardinalityType
<1>8. Weight(u) = Weight(t) - WeightOf(t[s]) + WeightOf(state)
  <2>1. /\ WeightOf(state) = Bit(s \in Live(u)) + Bit(s \in Doomed(u))
        /\ WeightOf(t[s]) = Bit(s \in Live(t)) + Bit(s \in Doomed(t))
    BY <1>3 DEF WeightOf
  <2>2. /\ Bit(s \in Live(t)) \in Nat /\ Bit(s \in Doomed(t)) \in Nat
        /\ Bit(s \in Live(u)) \in Nat /\ Bit(s \in Doomed(u)) \in Nat
    OBVIOUS
  <2>. HIDE DEF Bit
  <2>. QED BY <1>6, <1>7, <2>1, <2>2 DEF Weight
<1>. QED BY <1>1, <1>6, <1>8 DEF StreamsOK, u

\* reconnect() arms at most one timer and makes no stream heavier.
LEMMA ReconnectWeight ==
  ASSUME ConnOK, NEW t, StreamsOK(t), Reconnect(t)
  PROVE  /\ StreamsOK(st') /\ Weight(st') <= Weight(t) /\ stream' \in Streams \cup {None}
         /\ timers' \in {timers, timers + 1} /\ reconnectCount' \in 0..MaxBackoff
<1>1. Weight(t) \in Nat
  BY WeightTyped
<1>2. CASE running
  <2>1. /\ st' = Destroyed(t) /\ stream' = None /\ timers' = timers + 1
        /\ reconnectCount' = IF reconnectCount < MaxBackoff THEN reconnectCount + 1 ELSE reconnectCount
    BY <1>2 DEF Reconnect
  <2>2. StreamsOK(Destroyed(t)) /\ Weight(Destroyed(t)) <= Weight(t)
    BY DestroyedWeight DEF ConnOK
  <2>. QED BY <2>1, <2>2, ListenerAssumption DEF ConnOK
<1>3. CASE ~running
  <2>1. st' = t /\ UNCHANGED <<timers, reconnectCount, stream>>
    BY <1>3 DEF Reconnect
  <2>. QED BY <1>1, <2>1 DEF ConnOK
<1>. QED BY <1>2, <1>3

\* subscribe() arms nothing: it waits once more.
LEMMA SubscribeWeight ==
  ASSUME ConnOK, NEW calls, Subscribe(calls)
  PROVE  /\ StreamsOK(st') /\ Weight(st') <= Weight(st) /\ stream' \in Streams \cup {None}
         /\ awaitClient' = calls + 1
BY DestroyedWeight DEF ConnOK, Subscribe

LEMMA InitConn == Init => ConnOK /\ Budgeted
<1>. SUFFICES ASSUME Init PROVE ConnOK /\ Budgeted
  OBVIOUS
<1>1. Live(st) = {} /\ Doomed(st) = {}
  BY DEF Init, Live, Doomed
<1>2. st \in [Streams -> StreamStates]
  BY DEF Init, StreamStates
<1>3. IsFiniteSet(Live(st)) /\ Cardinality(Live(st)) = 0 /\ Cardinality(Doomed(st)) = 0
  BY <1>1, FS_EmptySet
<1>4. StreamsOK(st)
  BY <1>2, <1>3 DEF StreamsOK
<1>5. Weight(st) = 0
  BY <1>3 DEF Weight
<1>6. /\ phase = "new" /\ reconnectCount = 0 /\ debounceTimer = "none" /\ stream = None
      /\ awaitClient = 0 /\ awaitStream = 0 /\ timers = 0 /\ faults = 0 /\ updates = 0
  BY DEF Init
<1>7. heard \in BOOLEAN
  BY DEF Init
<1>8. ConnOK
  BY <1>4, <1>6, <1>7, ListenerAssumption DEF ConnOK
<1>. QED BY <1>5, <1>6, <1>8 DEF Budgeted

LEMMA NextConn == ConnOK /\ Budgeted /\ [Next]_vars => (ConnOK /\ Budgeted)'
<1>. SUFFICES ASSUME ConnOK, Budgeted, [Next]_vars PROVE (ConnOK /\ Budgeted)'
  OBVIOUS
<1>. DEFINE spent == (IF phase = "new" THEN 0 ELSE 1) + faults + updates
<1>1. /\ awaitClient \in Nat /\ awaitStream \in Nat /\ timers \in Nat /\ Weight(st) \in Nat
      /\ faults \in Nat /\ updates \in Nat
      /\ awaitClient + awaitStream + timers + Weight(st) <= spent
  BY WeightTyped, ListenerAssumption DEF ConnOK, Budgeted
<1>. HIDE DEF spent
<1>2. CASE Start
  <2>1. /\ phase = "new" /\ phase' = "starting" /\ Subscribe(awaitClient)
        /\ UNCHANGED <<reconnectCount, timers, awaitStream, heard, debounceTimer, faults, updates>>
    BY <1>2 DEF Start, msgVars, envVars
  <2>2. /\ StreamsOK(st') /\ Weight(st') <= Weight(st) /\ stream' \in Streams \cup {None}
        /\ awaitClient' = awaitClient + 1
    BY <2>1, SubscribeWeight
  <2>3. ConnOK'
    BY <2>1, <2>2 DEF ConnOK
  <2>4. Weight(st') \in Nat
    BY <2>2, WeightTyped
  <2>. QED BY <1>1, <2>1, <2>2, <2>3, <2>4 DEF Budgeted, spent
<1>3. CASE UpdateTargets
  <2>1. /\ phase' = phase /\ updates' = updates + 1 /\ updates < MaxUpdates /\ Subscribe(awaitClient)
        /\ UNCHANGED <<reconnectCount, timers, awaitStream, heard, debounceTimer, faults>>
    BY <1>3 DEF UpdateTargets, msgVars
  <2>2. /\ StreamsOK(st') /\ Weight(st') <= Weight(st) /\ stream' \in Streams \cup {None}
        /\ awaitClient' = awaitClient + 1
    BY <2>1, SubscribeWeight
  <2>3. ConnOK'
    BY <2>1, <2>2, ListenerAssumption DEF ConnOK
  <2>4. Weight(st') \in Nat
    BY <2>2, WeightTyped
  <2>. QED BY <1>1, <2>1, <2>2, <2>3, <2>4 DEF Budgeted, spent
<1>4. CASE TimerFires
  <2>1. /\ timers > 0 /\ timers' = timers - 1 /\ phase' = phase
        /\ UNCHANGED <<reconnectCount, awaitStream, heard, debounceTimer, faults, updates>>
        /\ Subscribe(awaitClient) \/ UNCHANGED <<st, stream, awaitClient>>
    BY <1>4 DEF TimerFires, msgVars, envVars
  <2>2. /\ StreamsOK(st') /\ Weight(st') <= Weight(st) /\ stream' \in Streams \cup {None}
        /\ awaitClient' \in {awaitClient, awaitClient + 1}
    <3>1. CASE Subscribe(awaitClient)
      BY <3>1, SubscribeWeight
    <3>2. CASE UNCHANGED <<st, stream, awaitClient>>
      BY <1>1, <3>2 DEF ConnOK
    <3>. QED BY <2>1, <3>1, <3>2
  <2>3. ConnOK'
    BY <1>1, <2>1, <2>2 DEF ConnOK
  <2>4. Weight(st') \in Nat
    BY <2>2, WeightTyped
  <2>. QED BY <1>1, <2>1, <2>2, <2>3, <2>4 DEF Budgeted, spent
<1>5. CASE ClientReady
  BY <1>1, <1>5 DEF ClientReady, ConnOK, Budgeted, msgVars, envVars
<1>6. CASE SubscribeFails
  <2>1. /\ faults < MaxFaults /\ faults' = faults + 1 /\ Reconnect(st) /\ StartReturns
        /\ \/ awaitClient > 0 /\ awaitClient' = awaitClient - 1 /\ awaitStream' = awaitStream
           \/ awaitStream > 0 /\ awaitStream' = awaitStream - 1 /\ awaitClient' = awaitClient
        /\ UNCHANGED <<heard, debounceTimer, updates>>
    BY <1>6 DEF SubscribeFails, msgVars
  <2>2. /\ StreamsOK(st') /\ Weight(st') <= Weight(st) /\ stream' \in Streams \cup {None}
        /\ timers' \in {timers, timers + 1} /\ reconnectCount' \in 0..MaxBackoff
    BY <2>1, ReconnectWeight DEF ConnOK
  <2>3. phase' \in {"new", "starting", "running", "stopped"} /\ (phase' = "new" <=> phase = "new")
    BY <2>1 DEF StartReturns, ConnOK
  <2>4. ConnOK'
    BY <1>1, <2>1, <2>2, <2>3, ListenerAssumption DEF ConnOK
  <2>5. Weight(st') \in Nat
    BY <2>2, WeightTyped
  <2>. QED BY <1>1, <2>1, <2>2, <2>3, <2>4, <2>5 DEF Budgeted, spent
<1>7. ASSUME NEW s \in Streams, StreamReady(s) PROVE (ConnOK /\ Budgeted)'
  <2>1. /\ awaitStream > 0 /\ awaitStream' = awaitStream - 1 /\ st[s] = "free"
        /\ st' = [st EXCEPT ![s] = "open"] /\ stream' = s /\ StartReturns
        /\ UNCHANGED <<reconnectCount, timers, awaitClient, heard, debounceTimer, faults, updates>>
    BY <1>7 DEF StreamReady, msgVars, envVars
  <2>2. StreamsOK(st') /\ Weight(st') = Weight(st) - WeightOf("free") + WeightOf("open")
    BY <2>1, ChangedWeight DEF ConnOK, StreamStates
  <2>3. Weight(st') = Weight(st) + 1
    BY <1>1, <2>2 DEF WeightOf
  <2>4. phase' \in {"new", "starting", "running", "stopped"} /\ (phase' = "new" <=> phase = "new")
    BY <2>1 DEF StartReturns, ConnOK
  <2>5. ConnOK'
    BY <1>1, <2>1, <2>2, <2>4 DEF ConnOK
  <2>. QED BY <1>1, <2>1, <2>3, <2>4, <2>5 DEF Budgeted, spent
<1>8. ASSUME NEW s \in Streams, ServerDrops(s) PROVE (ConnOK /\ Budgeted)'
  <2>1. /\ faults < MaxFaults /\ faults' = faults + 1 /\ st[s] = "open"
        /\ UNCHANGED <<phase, reconnectCount, stream, timers, awaitClient, awaitStream, heard, debounceTimer, updates>>
    BY <1>8 DEF ServerDrops, msgVars
  <2>2. PICK how \in {"failing", "ended", "closing"} : st' = [st EXCEPT ![s] = how]
    BY <1>8 DEF ServerDrops
  <2>3. StreamsOK(st') /\ Weight(st') = Weight(st) - WeightOf("open") + WeightOf(how)
    BY <2>1, <2>2, ChangedWeight DEF ConnOK, StreamStates
  <2>4. Weight(st') \in {Weight(st), Weight(st) + 1}
    BY <1>1, <2>3 DEF WeightOf
  <2>5. ConnOK'
    BY <1>1, <2>1, <2>3, ListenerAssumption DEF ConnOK
  <2>. QED BY <1>1, <2>1, <2>4, <2>5 DEF Budgeted, spent
<1>9. ASSUME NEW s \in Streams, EmitErrorOrEnd(s) \/ EmitClose(s) PROVE (ConnOK /\ Budgeted)'
  <2>1. PICK state \in StreamStates :
          Reconnect([st EXCEPT ![s] = state]) /\ WeightOf(state) = WeightOf(st[s]) - 1
    <3>1. CASE EmitErrorOrEnd(s)
      BY <3>1 DEF EmitErrorOrEnd, WeightOf, StreamStates
    <3>2. CASE EmitClose(s)
      BY <3>2 DEF EmitClose, WeightOf, StreamStates
    <3>. QED BY <1>9, <3>1, <3>2
  <2>2. UNCHANGED <<phase, awaitClient, awaitStream, heard, debounceTimer, faults, updates>>
    BY <1>9 DEF EmitErrorOrEnd, EmitClose, msgVars, envVars
  <2>. DEFINE t == [st EXCEPT ![s] = state]
  <2>3. StreamsOK(t) /\ Weight(t) = Weight(st) - WeightOf(st[s]) + WeightOf(state)
    BY ChangedWeight DEF ConnOK
  <2>4. WeightOf(st[s]) \in Nat
    BY DEF WeightOf
  <2>. HIDE DEF t
  <2>5. Weight(t) = Weight(st) - 1
    BY <1>1, <2>1, <2>3, <2>4
  <2>6. /\ StreamsOK(st') /\ Weight(st') <= Weight(t) /\ stream' \in Streams \cup {None}
        /\ timers' \in {timers, timers + 1} /\ reconnectCount' \in 0..MaxBackoff
    BY <2>1, <2>3, ReconnectWeight DEF t
  <2>7. ConnOK'
    BY <1>1, <2>2, <2>6 DEF ConnOK
  <2>8. Weight(st') \in Nat
    BY <2>6, WeightTyped
  <2>. QED BY <1>1, <2>2, <2>5, <2>6, <2>7, <2>8 DEF Budgeted, spent
<1>10. ASSUME NEW s \in Streams, NEW k \in Keys, NEW v \in 1..MaxVersion, Message(s, k, v)
       PROVE  (ConnOK /\ Budgeted)'
  BY <1>10, ListenerAssumption DEF Message, ConnOK, Budgeted, envVars
<1>11. CASE Flush
  BY <1>11 DEF Flush, Fired, ConnOK, Budgeted, connVars, envVars
<1>12. CASE Stop
  <2>1. /\ phase' = "stopped" /\ phase # "new" /\ st' = Destroyed(st) /\ stream' = None
        /\ debounceTimer' = IF debounceTimer = "armed" THEN "cleared" ELSE debounceTimer
        /\ UNCHANGED <<reconnectCount, timers, awaitClient, awaitStream, heard, faults, updates>>
    BY <1>12 DEF Stop, running, envVars
  <2>2. StreamsOK(st') /\ Weight(st') <= Weight(st)
    BY <2>1, DestroyedWeight DEF ConnOK
  <2>3. ConnOK'
    BY <2>1, <2>2 DEF ConnOK
  <2>4. Weight(st') \in Nat
    BY <2>2, WeightTyped
  <2>. QED BY <1>1, <2>1, <2>2, <2>3, <2>4 DEF Budgeted, spent
<1>13. CASE UNCHANGED vars
  BY <1>13 DEF vars, connVars, msgVars, envVars, ConnOK, Budgeted
<1>. QED BY <1>2, <1>3, <1>4, <1>5, <1>6, <1>7, <1>8, <1>9, <1>10, <1>11, <1>12, <1>13 DEF Next

-----------------------------------------------------------------------------
(* Theorems.                                                                *)

\* Whatever streams overlap, fail and redeliver, onMessage, coalesce and the
\* debounce emit each version of an account at most once and never after a newer
\* one, while the listener runs.
THEOREM EventsStayInOrder == Spec => []EventsInOrder
<1>1. Inv => EventsInOrder
  <2>1. Ordered /\ MsgTypeOK => EventsInOrder
    <3>. SUFFICES ASSUME Ordered, MsgTypeOK, NEW i \in DOMAIN pendingEvents
                  PROVE  /\ pendingEvents[i].version > emitted[pendingEvents[i].key]
                         /\ \A j \in 1..i - 1 :
                              pendingEvents[j].key = pendingEvents[i].key
                                => pendingEvents[j].version < pendingEvents[i].version
      BY DEF EventsInOrder
    <3>1. pendingEvents[i] \in Event
      BY DEF MsgTypeOK
    <3>2. emitted[pendingEvents[i].key] \in Nat /\ pendingEvents[i].version \in Nat
      BY <3>1, ListenerAssumption DEF MsgTypeOK, Event
    <3>. QED BY <3>2 DEF Ordered
  <2>. QED BY <2>1 DEF Inv, EventsInOrder
<1>2. Spec => []Inv
  BY InitInv, NextInv, PTL DEF Spec
<1>. QED BY <1>1, <1>2, PTL

\* TypeOK: in particular no number of failures, overlapping streams and double
\* reconnections leaves more calls or timers pending than MaxTokens.
THEOREM TypeCorrect == Spec => []TypeOK
<1>1. Inv /\ ConnOK /\ Budgeted => TypeOK
  <2>. SUFFICES ASSUME Inv, ConnOK, Budgeted PROVE TypeOK
    OBVIOUS
  <2>1. /\ awaitClient \in Nat /\ awaitStream \in Nat /\ timers \in Nat /\ Weight(st) \in Nat
        /\ faults \in 0..MaxFaults /\ updates \in 0..MaxUpdates
        /\ MaxFaults \in Nat /\ MaxUpdates \in Nat
        /\ awaitClient + awaitStream + timers + Weight(st) <= 1 + faults + updates
    BY WeightTyped, ListenerAssumption DEF ConnOK, Budgeted
  <2>2. awaitClient \in 0..MaxTokens /\ awaitStream \in 0..MaxTokens /\ timers \in 0..MaxTokens
    BY <2>1 DEF MaxTokens
  <2>. QED BY <2>2 DEF TypeOK, Inv, MsgTypeOK, Event, ConnOK, StreamsOK
<1>2. Spec => []Inv
  BY InitInv, NextInv, PTL DEF Spec
<1>3. Spec => [](ConnOK /\ Budgeted)
  BY InitConn, NextConn, PTL DEF Spec
<1>. QED BY <1>1, <1>2, <1>3, PTL
=============================================================================
