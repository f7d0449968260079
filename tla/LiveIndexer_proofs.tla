-------------------------- MODULE LiveIndexer_proofs --------------------------
(***************************************************************************)
(* LiveIndexer for every set of obligations, every limit and threshold,    *)
(* and any number of slots and subscriptions.                              *)
(***************************************************************************)
EXTENDS LiveIndexer, TLAPS

-----------------------------------------------------------------------------
(* The subscription handle.                                                 *)

\* Whatever happens to a stream that is open somewhere: its handle keeps its
\* type, a settled outcome stays, and only the listeners of a finished stream
\* settle it.
Finished(s) == s.settled # "pending" => s.st \in {"closing", "closed"}
Follows(s, t) ==
  /\ t \in Sub
  /\ (s.st = "none") = (t.st = "none")
  /\ s.settled # "pending" => t.settled = s.settled
  /\ Finished(s) => Finished(t)

LEMMA OnDataFollows ==
  ASSUME NEW s \in Sub, s.st # "none"
  PROVE  Follows(s, OnData(s))
BY DEF Follows, Finished, OnData, Sub, Streams, Outcomes

LEMMA SettledFollows ==
  ASSUME NEW s \in Sub, NEW outcome \in {"resolved", "failed", "invalid"}
  PROVE  /\ Settle(s, outcome) \in Sub /\ Settle(s, outcome).st = s.st
         /\ s.settled # "pending" => Settle(s, outcome).settled = s.settled
BY DEF Settle, Sub, Streams, Outcomes

LEMMA EmitFollows ==
  ASSUME NEW s \in Sub
  PROVE  /\ s.st = "failing" => Follows(s, OnError(s))
         /\ s.st = "ended" => Follows(s, OnEnd(s))
         /\ s.st = "closing" => Follows(s, OnClose(s))
<1>1. s.error \in {"failed", "invalid"}
  BY DEF Sub
<1>2. Settle(s, s.error) \in Sub /\ Settle(s, "resolved") \in Sub
  BY <1>1, SettledFollows
<1>3. s.settled # "pending" => /\ Settle(s, s.error).settled = s.settled
                               /\ Settle(s, "resolved").settled = s.settled
  BY <1>1, SettledFollows
<1>. QED BY <1>2, <1>3 DEF Follows, Finished, OnError, OnEnd, OnClose, Sub, Streams

LEMMA DestroyFollows ==
  ASSUME NEW s \in Sub, NEW err \in {"failed", "invalid"}, s.st # "none"
  PROVE  /\ Follows(s, DestroyWith(s, err)) /\ Follows(s, OnInactive(s))
         /\ Follows(s, Close(s))
         /\ Live(s) => Follows(s, [s EXCEPT !.st = "ended"])
         /\ s.st = "open" => Follows(s, [s EXCEPT !.st = "silent"])
BY DEF Follows, Finished, DestroyWith, OnInactive, Close, CloseQuietly, Destroy, Live, Sub, Streams, Outcomes

-----------------------------------------------------------------------------
(* The invariant.  The subscriptions are opened one after the other, and    *)
(* the loop opens the next when the last has settled; only a stream that is *)
(* already finished settles, and an InvalidArg leaves the loop where it     *)
(* awaited it or ends it.                                                   *)

Counted ==
  /\ attempt > MaxReconnect => loop = "off"
  /\ IF loop = "streaming" THEN reconnectCount < awaited ELSE reconnectCount <= awaited
Ordered ==
  /\ \A i \in StreamIds : subs[i].st # "none" <=> i <= awaited
  /\ \A i \in StreamIds : Finished(subs[i])
  /\ \A i \in StreamIds : i < awaited => subs[i].settled # "pending"
  /\ loop # "streaming" /\ awaited # 0 => subs[awaited].settled # "pending"
  /\ activeSub <= awaited
Booting ==
  /\ loop \in {"idle", "boot"} => awaited = 0 /\ \A k \in pending : cache[k] = Absent
  /\ loop = "idle" => \A k \in Keys : cache[k] = Absent
InvalidKept ==
  \A i \in StreamIds : subs[i].settled = "invalid" => i = awaited /\ loop \in {"streaming", "off"}
Inv == TypeOK /\ Counted /\ Ordered /\ Booting /\ InvalidKept

LEMMA InitInv == Init => Inv
<1>. SUFFICES ASSUME Init PROVE Inv
  OBVIOUS
<1>1. NoSub \in Sub /\ Finished(NoSub) /\ NoSub.settled = "pending" /\ NoSub.st = "none"
  BY DEF NoSub, Sub, Streams, Outcomes, Finished
<1>2. TypeOK
  <2>1. isRunning \in BOOLEAN /\ shouldReconnect \in BOOLEAN /\ client \in BOOLEAN
    BY Zenon DEF Init
  <2>2. /\ attempt \in 0..MaxReconnect + 1 /\ reconnectCount \in 0..MaxStreams
        /\ activeSub \in 0..MaxStreams /\ awaited \in 0..MaxStreams /\ stopSub \in 0..MaxStreams
        /\ failures \in 0..Threshold /\ tries \in 0..MaxRetries
    BY LiveIndexerAssumption DEF Init
  <2>3. cache \in [Keys -> 0..MaxSlot + 1]
    BY LiveIndexerAssumption DEF Init, Absent
  <2>4. subs \in [StreamIds -> Sub]
    BY <1>1 DEF Init
  <2>5. /\ loop \in {"idle", "boot", "connecting", "subscribing", "streaming", "waiting", "off"}
        /\ pending \in SUBSET Keys /\ stopping \in {"idle", "racing", "returned"}
    BY DEF Init
  <2>. QED BY <2>1, <2>2, <2>3, <2>4, <2>5 DEF TypeOK
<1>3. Counted /\ Booting
  BY LiveIndexerAssumption DEF Init, Counted, Booting
<1>4. Ordered /\ InvalidKept
  BY <1>1, LiveIndexerAssumption DEF Init, Ordered, InvalidKept, StreamIds
<1>. QED BY <1>2, <1>3, <1>4 DEF Inv

\* A stream step: the handles it changes follow what they were, and the loop
\* stands where it stood.
LoopStands == UNCHANGED <<attempt, reconnectCount, activeSub, loop, awaited, pending>>
StreamsFollow ==
  /\ subs' \in [StreamIds -> Sub]
  /\ \A i \in StreamIds : subs'[i] = subs[i] \/ Follows(subs[i], subs'[i])

LEMMA StreamsKeep ==
  ASSUME Inv, StreamsFollow, LoopStands
  PROVE  InvalidKept' /\ Ordered' /\ Counted'
<1>1. \A i \in StreamIds : /\ (subs'[i].st = "none") = (subs[i].st = "none")
                           /\ subs[i].settled # "pending" => subs'[i].settled = subs[i].settled
                           /\ Finished(subs[i]) => Finished(subs'[i])
  BY DEF StreamsFollow, Follows
<1>2. awaited \in Nat /\ awaited <= MaxStreams
  BY LiveIndexerAssumption DEF Inv, TypeOK
<1>3. Ordered'
  BY <1>1, <1>2, LiveIndexerAssumption DEF Inv, Ordered, LoopStands, StreamIds
<1>4. ASSUME NEW i \in StreamIds, subs'[i].settled = "invalid", subs[i].settled = "pending"
      PROVE  i = awaited /\ loop = "streaming"
  <2>1. subs'[i].st # "none"
    BY <1>3, <1>4 DEF Ordered, Finished
  <2>2. i <= awaited
    BY <1>1, <2>1 DEF Inv, Ordered
  <2>. QED BY <1>2, <1>4, <2>2 DEF Inv, Ordered, StreamIds
<1>5. InvalidKept'
  BY <1>1, <1>4 DEF Inv, InvalidKept, LoopStands
<1>. QED BY <1>3, <1>5 DEF Inv, Counted, LoopStands

\* A step of the loop that opens no stream and is not the end of a bootstrap.
LEMMA LoopKeep ==
  ASSUME Inv, UNCHANGED subs, UNCHANGED awaited, UNCHANGED pending, UNCHANGED cache,
         loop \notin {"idle", "boot"}, loop' \in {"connecting", "subscribing", "waiting", "off"},
         attempt' > MaxReconnect => loop' = "off", reconnectCount' <= awaited,
         activeSub' \in {0, activeSub},
         loop = "streaming" => subs[awaited].settled # "pending",
         (\E i \in StreamIds : subs[i].settled = "invalid") => loop' = "off"
  PROVE  Counted' /\ Ordered' /\ Booting' /\ InvalidKept'
<1>1. activeSub' <= awaited
  BY LiveIndexerAssumption DEF Inv, Ordered, TypeOK
<1>2. Ordered'
  BY <1>1 DEF Inv, Ordered
<1>. QED BY <1>2 DEF Inv, Counted, Booting, InvalidKept

\* EnterLoop goes on to the next connection or ends the loop.
LEMMA EnterLoopKeep ==
  ASSUME EnterLoop
  PROVE  /\ loop' \in {"connecting", "off"} /\ client' \in BOOLEAN /\ tries' = 0
         /\ ~shouldReconnect => loop' = "off"
<1>1. client' = FALSE
  BY Zenon DEF EnterLoop
<1>. QED BY <1>1 DEF EnterLoop

\* The catch block, entered from an await of the loop.
LEMMA CaughtInv ==
  ASSUME Inv, NEW err \in Errors, Caught(err), loop \in {"connecting", "subscribing", "streaming"},
         loop = "streaming" => subs[awaited].settled = err
  PROVE  Inv' /\ (~shouldReconnect => loop' # "connecting")
<1>1. /\ loop' \in {"connecting", "waiting", "off"}
      /\ attempt' \in 0..MaxReconnect + 1
      /\ attempt' > MaxReconnect => loop' = "off"
      /\ tries' \in 0..MaxRetries
      /\ ~shouldReconnect => loop' # "connecting"
      /\ err = "invalid" => loop' = "off"
  BY EnterLoopKeep, LiveIndexerAssumption DEF Inv, TypeOK, Counted, Caught, Fatal, Exhausted
<1>2. isRunning' \in BOOLEAN /\ shouldReconnect' \in BOOLEAN /\ client' \in BOOLEAN
  BY Zenon, EnterLoopKeep DEF Inv, TypeOK, Caught, flags
<1>3. UNCHANGED <<reconnectCount, awaited, pending, activeSub, cache, failures, subs, stopVars>>
  BY Zenon DEF Caught
<1>4. TypeOK'
  <2>1. loop' \in {"idle", "boot", "connecting", "subscribing", "streaming", "waiting", "off"}
    BY <1>1
  <2>. QED BY <1>1, <1>2, <1>3, <2>1, Zenon DEF Inv, TypeOK, stopVars
<1>5. reconnectCount' <= awaited
  BY <1>3, LiveIndexerAssumption DEF Inv, TypeOK, Counted
<1>6. (\E i \in StreamIds : subs[i].settled = "invalid") => loop' = "off"
  BY <1>1 DEF Inv, InvalidKept, Errors
<1>7. loop = "streaming" => subs[awaited].settled # "pending"
  BY DEF Errors
<1>8. Counted' /\ Ordered' /\ Booting' /\ InvalidKept'
  BY <1>1, <1>3, <1>5, <1>6, <1>7, LoopKeep
<1>. QED BY <1>1, <1>4, <1>8 DEF Inv

LEMMA LoopStepInv ==
  ASSUME Inv, LoopStep
  PROVE  Inv' /\ (~shouldReconnect /\ loop # "connecting" => loop' # "connecting")
<1>1. ASSUME NEW k \in Keys, Bootstrap(k) PROVE Inv' /\ loop' # "connecting"
  <2>1. cache' \in [Keys -> 0..MaxSlot + 1]
    BY <1>1, LiveIndexerAssumption DEF Bootstrap, Inv, TypeOK
  <2>2. TypeOK'
    BY <1>1, <2>1, Zenon DEF Bootstrap, Inv, TypeOK, flags, stopVars
  <2>3. Booting'
    BY <1>1 DEF Bootstrap, Inv, TypeOK, Booting
  <2>4. Counted' /\ Ordered' /\ InvalidKept'
    BY <1>1 DEF Bootstrap, Inv, Counted, Ordered, InvalidKept
  <2>5. loop' # "connecting"
    BY <1>1 DEF Bootstrap
  <2>. QED BY <2>2, <2>3, <2>4, <2>5 DEF Inv
<1>2. CASE Bootstrapped
  <2>1. loop' \in {"connecting", "off"} /\ client' \in BOOLEAN /\ tries' = 0
        /\ (~shouldReconnect => loop' = "off")
    BY <1>2, EnterLoopKeep DEF Bootstrapped
  <2>2. tries' \in 0..MaxRetries /\ loop' \in {"idle", "boot", "connecting", "subscribing", "streaming", "waiting", "off"}
    BY <2>1, LiveIndexerAssumption
  <2>3. TypeOK'
    BY <1>2, <2>1, <2>2, Zenon DEF Bootstrapped, Inv, TypeOK, flags, stopVars
  <2>4. awaited = 0
    BY <1>2 DEF Bootstrapped, Inv, Booting
  <2>5. Counted' /\ Ordered' /\ Booting' /\ InvalidKept'
    BY <1>2, <2>1, <2>4 DEF Bootstrapped, Inv, Counted, Ordered, Booting, InvalidKept, StreamIds, Finished
  <2>. QED BY <2>1, <2>3, <2>5 DEF Inv
<1>3. CASE ConnectRetry
  <2>1. tries' \in 0..MaxRetries
    BY <1>3, LiveIndexerAssumption DEF ConnectRetry, Inv, TypeOK
  <2>2. TypeOK'
    BY <1>3, <2>1, Zenon DEF ConnectRetry, Inv, TypeOK, flags, stopVars
  <2>. QED BY <1>3, <2>2 DEF ConnectRetry, Inv, Counted, Ordered, Booting, InvalidKept
<1>4. CASE Connected
  <2>1. attempt' \in 0..MaxReconnect + 1 /\ ~(attempt' > MaxReconnect)
    BY <1>4, LiveIndexerAssumption DEF Connected
  <2>2. client' \in BOOLEAN
    BY <1>4, Zenon DEF Connected
  <2>3. loop' = "subscribing"
    BY <1>4 DEF Connected
  <2>4. loop' \in {"idle", "boot", "connecting", "subscribing", "streaming", "waiting", "off"}
    BY <2>3
  <2>5. TypeOK'
    BY <1>4, <2>1, <2>2, <2>4, Zenon DEF Connected, Inv, TypeOK, flags, stopVars
  <2>6. \A i \in StreamIds : subs[i].settled # "invalid"
    BY <1>4 DEF Connected, Inv, InvalidKept
  <2>7. reconnectCount' <= awaited
    BY <1>4 DEF Connected, Inv, Counted
  <2>8. Counted' /\ Ordered' /\ Booting' /\ InvalidKept'
    BY <1>4, <2>1, <2>3, <2>6, <2>7, LoopKeep DEF Connected
  <2>. QED BY <2>3, <2>5, <2>8 DEF Inv
<1>5. CASE Subscribed
  <2>1. awaited' \in 1..MaxStreams /\ awaited' = awaited + 1 /\ activeSub' = awaited'
    BY <1>5, LiveIndexerAssumption DEF Subscribed, Inv, TypeOK
  <2>2. Opened \in Sub /\ Opened.st = "open" /\ Opened.settled = "pending"
    BY DEF Opened, NoSub, Sub, Streams, Outcomes
  <2>3. subs' = [subs EXCEPT ![awaited'] = Opened] /\ subs' \in [StreamIds -> Sub]
    BY <1>5, <2>1, <2>2 DEF Subscribed, Inv, TypeOK
  <2>4. loop' = "streaming" /\ loop' \in {"idle", "boot", "connecting", "subscribing", "streaming", "waiting", "off"}
    BY <1>5 DEF Subscribed
  <2>5. activeSub' \in 0..MaxStreams /\ awaited' \in 0..MaxStreams
    BY <2>1, LiveIndexerAssumption
  <2>6. TypeOK'
    BY <1>5, <2>3, <2>4, <2>5, Zenon DEF Subscribed, Inv, TypeOK, flags, stopVars
  <2>7. awaited \in Nat /\ reconnectCount \in Nat /\ reconnectCount <= awaited
    BY <1>5 DEF Subscribed, Inv, TypeOK, Counted
  <2>8. Counted'
    BY <1>5, <2>1, <2>4, <2>7 DEF Subscribed, Inv, Counted
  <2>9. \A i \in StreamIds : subs'[i] = IF i = awaited' THEN Opened ELSE subs[i]
    BY <2>3 DEF Inv, TypeOK
  <2>10. \A i \in StreamIds : i < awaited' => i < awaited \/ (i = awaited /\ awaited # 0)
    BY <2>1, <2>7 DEF StreamIds
  <2>11. \A i \in StreamIds : i <= awaited' <=> (i <= awaited \/ i = awaited')
    BY <2>1, <2>7 DEF StreamIds
  <2>12. Ordered'
    BY <1>5, <2>1, <2>2, <2>4, <2>9, <2>10, <2>11 DEF Subscribed, Inv, Ordered, Finished
  <2>13. Booting' /\ InvalidKept'
    BY <1>5, <2>2, <2>4, <2>9 DEF Subscribed, Inv, Booting, InvalidKept
  <2>. QED BY <2>4, <2>6, <2>8, <2>12, <2>13 DEF Inv
<1>6. CASE StreamResolved
  <2>1. loop = "streaming" /\ subs[awaited].settled = "resolved" /\ reconnectCount < awaited
        /\ UNCHANGED <<attempt, activeSub, cache, failures, subs, awaited, pending>>
    BY <1>6 DEF StreamResolved, Inv, Counted
  <2>2. reconnectCount' \in 0..MaxStreams /\ reconnectCount' <= awaited
    BY <1>6, <2>1, LiveIndexerAssumption DEF StreamResolved, Inv, TypeOK
  <2>3. /\ loop' \in {"connecting", "waiting", "off"} /\ tries' \in 0..MaxRetries
        /\ ~shouldReconnect => loop' # "connecting"
    BY <1>6, EnterLoopKeep, LiveIndexerAssumption DEF StreamResolved, Inv, TypeOK
  <2>4. client' \in BOOLEAN
    BY <1>6, EnterLoopKeep, Zenon DEF StreamResolved, Inv, TypeOK
  <2>5. loop' \in {"idle", "boot", "connecting", "subscribing", "streaming", "waiting", "off"}
    BY <2>3
  <2>6. TypeOK'
    BY <1>6, <2>2, <2>3, <2>4, <2>5, Zenon DEF StreamResolved, Inv, TypeOK, flags, stopVars
  <2>7. \A i \in StreamIds : subs[i].settled # "invalid"
    BY <2>1 DEF Inv, InvalidKept
  <2>8. ~(attempt' > MaxReconnect)
    BY <2>1 DEF Inv, Counted
  <2>9. Counted' /\ Ordered' /\ Booting' /\ InvalidKept'
    BY <2>1, <2>2, <2>3, <2>7, <2>8, LoopKeep
  <2>. QED BY <2>3, <2>6, <2>9 DEF Inv
<1>7. CASE StreamRejected
  BY <1>7, CaughtInv DEF StreamRejected
<1>8. CASE Wake
  <2>1. loop = "waiting" /\ UNCHANGED <<attempt, reconnectCount, activeSub, cache, failures, subs, awaited, pending>>
    BY <1>8 DEF Wake
  <2>2. /\ loop' \in {"connecting", "off"} /\ client' \in BOOLEAN /\ tries' = 0
        /\ ~shouldReconnect => loop' = "off"
    BY <1>8, EnterLoopKeep DEF Wake
  <2>3. tries' \in 0..MaxRetries /\ loop' \in {"idle", "boot", "connecting", "subscribing", "streaming", "waiting", "off"}
    BY <2>2, LiveIndexerAssumption
  <2>4. TypeOK'
    BY <1>8, <2>2, <2>3, Zenon DEF Wake, Inv, TypeOK, flags, stopVars
  <2>5. /\ \A i \in StreamIds : subs[i].settled # "invalid"
        /\ ~(attempt' > MaxReconnect) /\ reconnectCount' <= awaited
    BY <2>1 DEF Inv, InvalidKept, Counted
  <2>6. Counted' /\ Ordered' /\ Booting' /\ InvalidKept'
    BY <2>1, <2>2, <2>5, LoopKeep
  <2>. QED BY <2>2, <2>4, <2>6 DEF Inv
<1>9. ASSUME NEW err \in Errors, ConnectFails(err) \/ SubscribeFails(err)
      PROVE  Inv' /\ (~shouldReconnect => loop' # "connecting")
  BY <1>9, CaughtInv DEF ConnectFails, SubscribeFails
<1>. QED BY <1>1, <1>2, <1>3, <1>4, <1>5, <1>6, <1>7, <1>8, <1>9 DEF LoopStep

\* A step of one handle, as the type of the handles has it.
LEMMA OnStreamInv ==
  ASSUME Inv, NEW i \in StreamIds, NEW s, Follows(subs[i], s), OnStream(i, s)
  PROVE  Inv'
<1>1. s \in Sub
  BY DEF Follows
<1>2. StreamsFollow
  BY <1>1 DEF OnStream, StreamsFollow, Inv, TypeOK
<1>3. UNCHANGED loopVars /\ UNCHANGED flags /\ UNCHANGED activeSub /\ UNCHANGED cache
      /\ UNCHANGED failures /\ UNCHANGED stopVars
  BY Zenon DEF OnStream
<1>4. LoopStands
  BY <1>3 DEF LoopStands, loopVars
<1>5. TypeOK'
  BY <1>2, <1>3, Zenon DEF Inv, TypeOK, StreamsFollow, loopVars, flags, stopVars
<1>6. Booting'
  BY <1>3 DEF Inv, Booting, loopVars
<1>. QED BY <1>2, <1>4, <1>5, <1>6, StreamsKeep DEF Inv

\* What is delivered comes from an open stream, so the bootstrap is over.
LEMMA DeliveryInv ==
  ASSUME Inv, NEW i \in StreamIds, Delivery(i)
  PROVE  Inv' /\ loop' = loop
<1>1. subs[i] \in Sub /\ subs[i].st = "open"
  BY DEF Delivery, Ping, AccountUpdate, DecodeFailure, Inv, TypeOK
<1>2. Follows(subs[i], OnData(subs[i])) /\ OnData(subs[i]) \in Sub
  BY <1>1, OnDataFollows DEF Follows
<1>3. loop \notin {"idle", "boot"}
  BY <1>1, LiveIndexerAssumption DEF Inv, TypeOK, Booting, Ordered, StreamIds
<1>4. CASE Ping(i)
  BY <1>2, <1>4, OnStreamInv DEF Ping, OnStream, loopVars
<1>5. ASSUME NEW k \in Keys, NEW slot \in 1..MaxSlot, AccountUpdate(i, k, slot) PROVE Inv' /\ loop' = loop
  <2>1. StreamsFollow
    BY <1>2, <1>5 DEF AccountUpdate, StreamsFollow, Inv, TypeOK
  <2>2. cache' \in [Keys -> 0..MaxSlot + 1]
    BY <1>5, LiveIndexerAssumption DEF AccountUpdate, Store, Inv, TypeOK
  <2>3. LoopStands
    BY <1>5 DEF AccountUpdate, LoopStands
  <2>4. TypeOK'
    BY <1>5, <2>1, <2>2, Zenon DEF AccountUpdate, StreamsFollow, Inv, TypeOK, flags, stopVars
  <2>5. Booting'
    BY <1>3, <2>3 DEF Booting, LoopStands
  <2>. QED BY <2>1, <2>3, <2>4, <2>5, StreamsKeep DEF Inv, LoopStands
<1>6. ASSUME NEW recent \in 0..failures, DecodeFailure(i, recent) PROVE Inv' /\ loop' = loop
  <2>. DEFINE streams == [subs EXCEPT ![i] = OnData(@)]
  <2>1. streams \in [StreamIds -> Sub]
    BY <1>2 DEF Inv, TypeOK
  <2>2. \A j \in StreamIds : streams[j] = subs[j] \/ Follows(subs[j], streams[j])
    BY <1>2 DEF Inv, TypeOK
  <2>3. StreamsFollow
    <3>1. CASE subs' = streams
      BY <3>1, <2>1, <2>2 DEF StreamsFollow
    <3>2. CASE activeSub # 0 /\ subs' = [streams EXCEPT ![activeSub] = Close(@)]
      <4>1. activeSub \in StreamIds /\ subs[activeSub].st # "none"
        BY <3>2, LiveIndexerAssumption DEF Inv, TypeOK, Ordered, StreamIds
      <4>2. streams[activeSub].st # "none" /\ streams[activeSub] \in Sub
        BY <4>1, <2>1, <2>2 DEF Follows
      <4>3. Follows(streams[activeSub], Close(streams[activeSub]))
        BY <4>2, DestroyFollows
      <4>4. Follows(subs[activeSub], Close(streams[activeSub])) /\ Close(streams[activeSub]) \in Sub
        BY <4>1, <4>3, <2>2 DEF Follows
      <4>. QED BY <3>2, <4>1, <4>4, <2>1, <2>2 DEF StreamsFollow
    <3>. QED BY <1>6, <3>1, <3>2 DEF DecodeFailure, Trip
  <2>4. failures' \in 0..Threshold
    BY <1>6, LiveIndexerAssumption DEF DecodeFailure, Inv, TypeOK
  <2>5. isRunning' \in BOOLEAN /\ shouldReconnect' \in BOOLEAN
    BY <1>6, Zenon DEF DecodeFailure, Trip, Inv, TypeOK, flags
  <2>6. LoopStands
    BY <1>6 DEF DecodeFailure, LoopStands
  <2>7. TypeOK'
    BY <1>6, <2>3, <2>4, <2>5, Zenon DEF DecodeFailure, StreamsFollow, Inv, TypeOK, stopVars
  <2>8. Booting'
    BY <1>3, <2>6 DEF Booting, LoopStands
  <2>. QED BY <2>3, <2>6, <2>7, <2>8, StreamsKeep DEF Inv, LoopStands
<1>. QED BY <1>4, <1>5, <1>6 DEF Delivery

LEMMA StreamStepsInv ==
  ASSUME Inv, NEW i \in StreamIds, Server(i) \/ Inactive(i) \/ Emit(i)
  PROVE  Inv' /\ loop' = loop
<1>1. subs[i] \in Sub
  BY DEF Inv, TypeOK
<1>2. NoSub.armed = FALSE
  BY DEF NoSub
<1>3. CASE Server(i)
  <2>1. subs[i].st # "none"
    BY <1>3 DEF Server, ServerEnds, ServerSilent, ServerFails, Live
  <2>2. CASE ServerEnds(i)
    BY <1>1, <2>1, <2>2, DestroyFollows, OnStreamInv DEF ServerEnds, OnStream, loopVars
  <2>3. CASE ServerSilent(i)
    BY <1>1, <2>1, <2>3, DestroyFollows, OnStreamInv DEF ServerSilent, OnStream, loopVars
  <2>4. CASE \E err \in Errors : ServerFails(i, err)
    BY <1>1, <2>1, <2>4, DestroyFollows, OnStreamInv DEF ServerFails, OnStream, loopVars, Errors
  <2>. QED BY <1>3, <2>2, <2>3, <2>4 DEF Server
<1>4. CASE Emit(i)
  BY <1>1, <1>4, EmitFollows, OnStreamInv
     DEF Emit, EmitError, EmitEnd, EmitClose, OnStream, loopVars
<1>5. CASE Inactive(i)
  <2>1. subs[i].st # "none" \/ OnInactive(subs[i]).st = "none"
    BY <1>1 DEF OnInactive, DestroyWith, Live, Sub
  <2>2. Follows(subs[i], OnInactive(subs[i]))
    BY <1>1 DEF Follows, Finished, OnInactive, DestroyWith, Live, Sub, Streams, Outcomes
  <2>. QED BY <1>5, <2>2, OnStreamInv DEF Inactive, OnStream, loopVars
<1>. QED BY <1>3, <1>4, <1>5

LEMMA StopInv ==
  ASSUME Inv, Stop \/ StopWaited
  PROVE  Inv' /\ loop' = loop
<1>1. CASE Stop
  <2>1. StreamsFollow /\ stopSub' \in 0..MaxStreams
    <3>1. CASE UNCHANGED <<subs, stopSub>>
      BY <3>1 DEF StreamsFollow, Inv, TypeOK
    <3>2. CASE activeSub # 0 /\ subs' = [subs EXCEPT ![activeSub] = Close(@)] /\ stopSub' = activeSub
      <4>1. activeSub \in StreamIds /\ subs[activeSub] \in Sub /\ subs[activeSub].st # "none"
        BY <3>2, LiveIndexerAssumption DEF Inv, TypeOK, Ordered, StreamIds
      <4>2. Follows(subs[activeSub], Close(subs[activeSub])) /\ Close(subs[activeSub]) \in Sub
        BY <4>1, DestroyFollows DEF Follows, Errors
      <4>. QED BY <3>2, <4>1, <4>2 DEF StreamsFollow, Inv, TypeOK
    <3>. QED BY <1>1, <3>1, <3>2 DEF Stop
  <2>2. isRunning' \in BOOLEAN /\ shouldReconnect' \in BOOLEAN /\ client' \in BOOLEAN
    BY <1>1, Zenon DEF Stop, Inv, TypeOK, flags
  <2>3. stopping' \in {"idle", "racing", "returned"}
    BY <1>1 DEF Stop
  <2>4. LoopStands /\ UNCHANGED cache
    BY <1>1 DEF Stop, LoopStands
  <2>5. TypeOK'
    BY <1>1, <2>1, <2>2, <2>3, Zenon DEF Stop, StreamsFollow, Inv, TypeOK
  <2>6. Booting'
    BY <2>4 DEF Inv, Booting, LoopStands
  <2>. QED BY <2>1, <2>4, <2>5, <2>6, StreamsKeep DEF Inv, LoopStands
<1>2. CASE StopWaited
  <2>1. activeSub' = 0 /\ activeSub' \in 0..MaxStreams
    BY <1>2, LiveIndexerAssumption DEF StopWaited
  <2>2. client' \in BOOLEAN
    BY <1>2, Zenon DEF StopWaited
  <2>3. stopping' \in {"idle", "racing", "returned"}
    BY <1>2 DEF StopWaited
  <2>4. TypeOK'
    BY <1>2, <2>1, <2>2, <2>3, Zenon DEF StopWaited, Inv, TypeOK, flags
  <2>5. awaited >= 0
    BY LiveIndexerAssumption DEF Inv, TypeOK
  <2>. QED BY <1>2, <2>1, <2>4, <2>5 DEF StopWaited, Inv, Counted, Ordered, Booting, InvalidKept
<1>. QED BY <1>1, <1>2

LEMMA NextInv == Inv /\ [Next]_vars => Inv'
<1>. SUFFICES ASSUME Inv, [Next]_vars PROVE Inv'
  OBVIOUS
<1>1. CASE Start
  <2>1. /\ loop' = "boot" /\ pending' \in SUBSET Keys
        /\ loop' \in {"idle", "boot", "connecting", "subscribing", "streaming", "waiting", "off"}
    BY <1>1 DEF Start
  <2>2. isRunning' \in BOOLEAN /\ shouldReconnect' \in BOOLEAN
    BY <1>1, Zenon DEF Start
  <2>3. TypeOK'
    BY <1>1, <2>1, <2>2, Zenon DEF Start, Inv, TypeOK, stopVars
  <2>. QED BY <1>1, <2>1, <2>3 DEF Start, Inv, Counted, Ordered, Booting, InvalidKept
<1>2. CASE LoopStep
  BY <1>2, LoopStepInv
<1>3. CASE Stop \/ StopWaited
  BY <1>3, StopInv
<1>4. CASE \E i \in StreamIds : Delivery(i) \/ Server(i) \/ Inactive(i) \/ Emit(i)
  BY <1>4, DeliveryInv, StreamStepsInv
<1>5. CASE UNCHANGED vars
  <2>1. TypeOK'
    BY <1>5, Zenon DEF vars, Inv, TypeOK
  <2>. QED BY <1>5, <2>1 DEF vars, Inv, Counted, Ordered, Booting, InvalidKept
<1>. QED BY <1>1, <1>2, <1>3, <1>4, <1>5 DEF Next

LEMMA InvHolds == Spec => []Inv
BY InitInv, NextInv, PTL DEF Spec

-----------------------------------------------------------------------------
(* Theorems.                                                                *)

\* The indexer's state keeps its types: the attempt counter stays within the
\* limit and reconnectCount within the streams that were opened.
THEOREM TypeCorrect == Spec => []TypeOK
<1>1. Inv => TypeOK
  BY DEF Inv
<1>. QED BY <1>1, InvHolds, PTL

\* startSubscription opens a stream only after the one before has settled, and a
\* stream settles only when it is finished: at most one feeds the cache.
THEOREM OneStreamAtATime == Spec => []OneLiveStream
<1>1. Inv => OneLiveStream
  <2>. SUFFICES ASSUME Inv, NEW i \in StreamIds, NEW j \in StreamIds, Live(subs[i]), Live(subs[j])
                PROVE  i = j
    BY DEF OneLiveStream
  <2>1. \A n \in StreamIds : Live(subs[n]) => n = awaited
    BY LiveIndexerAssumption DEF Inv, TypeOK, Ordered, Finished, Live, StreamIds
  <2>. QED BY <2>1
<1>. QED BY <1>1, InvHolds, PTL

\* After an InvalidArg rejection no stream is opened.
THEOREM InvalidArgEnds == Spec => []InvalidArgIsFinal
<1>1. Inv => InvalidArgIsFinal
  BY LiveIndexerAssumption DEF Inv, TypeOK, Ordered, InvalidKept, InvalidArgIsFinal, StreamIds
<1>. QED BY <1>1, InvHolds, PTL

\* The slot of a cached obligation only rises, whichever stream or bootstrap an
\* update comes from.
THEOREM SlotsRise == Spec => SlotsNeverRegress
<1>1. Inv /\ [Next]_vars =>
        (\A k \in Keys : cache[k] # Absent => cache'[k] # Absent /\ cache'[k] >= cache[k])
  <2>. SUFFICES ASSUME Inv, [Next]_vars, NEW k \in Keys, cache[k] # Absent
                PROVE  cache'[k] # Absent /\ cache'[k] >= cache[k]
    OBVIOUS
  <2>1. cache \in [Keys -> 0..MaxSlot + 1]
    BY DEF Inv, TypeOK
  <2>2. ASSUME cache' = cache PROVE cache'[k] # Absent /\ cache'[k] >= cache[k]
    BY <2>1, <2>2, LiveIndexerAssumption
  <2>3. ASSUME NEW o \in Keys, Bootstrap(o) PROVE cache'[k] # Absent /\ cache'[k] >= cache[k]
    BY <2>1, <2>3, LiveIndexerAssumption DEF Bootstrap, Inv, Booting
  <2>4. ASSUME NEW i \in StreamIds, NEW o \in Keys, NEW slot \in 1..MaxSlot, AccountUpdate(i, o, slot)
        PROVE  cache'[k] # Absent /\ cache'[k] >= cache[k]
    BY <2>1, <2>4, LiveIndexerAssumption DEF AccountUpdate, Store, Absent
  <2>5. CASE Start \/ Stop \/ StopWaited \/ UNCHANGED vars
    BY <2>2, <2>5 DEF Start, Stop, StopWaited, vars
  <2>6. CASE LoopStep
    BY <2>2, <2>3, <2>6
       DEF LoopStep, Bootstrapped, ConnectRetry, Connected, Subscribed, StreamResolved, StreamRejected, Wake,
           ConnectFails, SubscribeFails, Caught
  <2>7. CASE \E i \in StreamIds : Delivery(i) \/ Server(i) \/ Inactive(i) \/ Emit(i)
    BY <2>2, <2>4, <2>7
       DEF Delivery, Ping, DecodeFailure, Server, ServerEnds, ServerSilent, ServerFails, Inactive,
           Emit, EmitError, EmitEnd, EmitClose, OnStream
  <2>. QED BY <2>5, <2>6, <2>7 DEF Next
<1>. QED BY <1>1, InvHolds, PTL DEF Spec, SlotsNeverRegress

\* Whoever takes shouldReconnect down, from whatever await, the loop begins no
\* further connection.
THEOREM HaltedStaysHalted == Spec => NoReconnectOnceHalted
<1>1. Inv /\ [Next]_vars => (~shouldReconnect /\ loop # "connecting" => loop' # "connecting")
  <2>. SUFFICES ASSUME Inv, [Next]_vars, ~shouldReconnect, loop # "connecting"
                PROVE  loop' # "connecting"
    OBVIOUS
  <2>1. CASE Start \/ UNCHANGED vars
    BY <2>1 DEF Start, vars
  <2>2. CASE LoopStep
    BY <2>2, LoopStepInv
  <2>3. CASE Stop \/ StopWaited
    BY <2>3, StopInv
  <2>4. CASE \E i \in StreamIds : Delivery(i) \/ Server(i) \/ Inactive(i) \/ Emit(i)
    BY <2>4, DeliveryInv, StreamStepsInv
  <2>. QED BY <2>1, <2>2, <2>3, <2>4 DEF Next
<1>. QED BY <1>1, InvHolds, PTL DEF Spec, NoReconnectOnceHalted
=============================================================================
