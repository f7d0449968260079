-------------------------- MODULE BotScheduler_proofs --------------------------
(***************************************************************************)
(* BotScheduler with RealtimeUpdater, for every set of obligations, every  *)
(* number of promotions in flight and every number of updates.             *)
(***************************************************************************)
EXTENDS BotScheduler, TLAPS

-----------------------------------------------------------------------------
(* The steps of a promotion.                                                *)

\* A turn leaves a promotion what it admitted, what it read and what was
\* watched when it began, and takes its next candidate from the rest.
LEMMA NextTurnKeeps ==
  ASSUME NEW q \in Promo, NEW t \in NextTurn(q)
  PROVE  /\ t.admitted = q.admitted /\ t.numbers = q.numbers
         /\ t.watched = q.watched /\ t.crossed = q.crossed
         /\ t.at # None => t.at \in q.rest \ cooldown'
         /\ t.rest \subseteq q.rest
         /\ t.late = q.late \/ (t.at # None /\ t.late = q.late \union ({t.at} \intersect refused'))
<1>1. CASE \E k \in q.rest \ cooldown', skipped \in SUBSET (q.rest \intersect cooldown') : t = Turn(q, k, skipped)
  <2>1. PICK k \in q.rest \ cooldown', skipped \in SUBSET (q.rest \intersect cooldown') : t = Turn(q, k, skipped)
    BY <1>1
  <2>2. k # None
    BY NoneAssumption DEF Promo
  <2>. QED BY <2>1, <2>2 DEF Turn, Promo
<1>2. CASE t = Done(q)
  BY <1>2 DEF Done, Promo
<1>. QED BY <1>1, <1>2 DEF NextTurn

LEMMA NextTurnTyped ==
  ASSUME NEW q \in Promo, NEW t \in NextTurn(q)
  PROVE  t \in Promo
<1>1. CASE \E k \in q.rest \ cooldown', skipped \in SUBSET (q.rest \intersect cooldown') : t = Turn(q, k, skipped)
  <2>1. PICK k \in q.rest \ cooldown', skipped \in SUBSET (q.rest \intersect cooldown') : t = Turn(q, k, skipped)
    BY <1>1
  <2>2. k \in Keys
    BY DEF Promo
  <2>. QED BY <2>1, <2>2 DEF Turn, Promo
<1>2. CASE t = Done(q)
  BY <1>2 DEF Done, Promo
<1>. QED BY <1>1, <1>2 DEF NextTurn

\* A promotion that begins, with what it has in hand.
LEMMA BeganTyped ==
  ASSUME UpdaterTypeOK, NEW ks \in SUBSET Keys
  PROVE  Began(ks) \in Promo
<1>1. \A k \in Keys : cand[k].numbers \in Stamp \union {None}
  BY DEF UpdaterTypeOK, Cand
<1>2. [k \in Keys |-> IF k \in ks THEN cand[k].numbers ELSE None] \in [Keys -> Stamp \union {None}]
  BY <1>1
<1>3. IdlePromo \in Promo
  BY DEF IdlePromo, Promo
<1>. QED BY <1>2, <1>3 DEF Began, IdlePromo, Promo, UpdaterTypeOK

\* What a flush may start: nothing, or one promotion, of considered candidates
\* the queue does not hold, crossed with those in flight.
Starts(new, q, picked) ==
  /\ new \in Promos /\ ~InFlight(new)
  /\ picked \subseteq Considered(WatchOnly(pending))
  /\ q \in NextTurn(Began(picked)) /\ q.at # None
  /\ promos' = [p \in Promos |->
       IF p = new THEN [q EXCEPT !.crossed = picked \intersect UNION {KeysOf(r) : r \in Promos}]
       ELSE [promos[p] EXCEPT !.crossed = @ \union (picked \intersect KeysOf(p))]]

LEMMA BeginStarts ==
  ASSUME BeginPromotion(WatchOnly(pending))
  PROVE  promos' = promos \/ \E new \in Promos : \E picked \in SUBSET Considered(WatchOnly(pending)) :
                               \E q \in NextTurn(Began(picked)) : Starts(new, q, picked)
<1>1. PICK picked \in SUBSET Considered(WatchOnly(pending)) :
        \E q \in NextTurn(Began(picked)) :
          IF q.at = None THEN UNCHANGED promos
          ELSE /\ \E p \in Promos : ~InFlight(p)
               /\ LET new == CHOOSE p \in Promos : ~InFlight(p) IN
                  promos' = [p \in Promos |->
                    IF p = new
                    THEN [q EXCEPT !.crossed = picked \intersect UNION {KeysOf(r) : r \in Promos}]
                    ELSE [promos[p] EXCEPT !.crossed = @ \union (picked \intersect KeysOf(p))]]
  BY Zenon DEF BeginPromotion
<1>2. PICK q \in NextTurn(Began(picked)) :
          IF q.at = None THEN UNCHANGED promos
          ELSE /\ \E p \in Promos : ~InFlight(p)
               /\ LET new == CHOOSE p \in Promos : ~InFlight(p) IN
                  promos' = [p \in Promos |->
                    IF p = new
                    THEN [q EXCEPT !.crossed = picked \intersect UNION {KeysOf(r) : r \in Promos}]
                    ELSE [promos[p] EXCEPT !.crossed = @ \union (picked \intersect KeysOf(p))]]
  BY <1>1
<1>3. CASE q.at = None
  BY <1>2, <1>3
<1>4. CASE q.at # None
  <2>. DEFINE new == CHOOSE p \in Promos : ~InFlight(p)
  <2>1. \E p \in Promos : ~InFlight(p)
    BY <1>2, <1>4
  <2>2. new \in Promos /\ ~InFlight(new)
    BY <2>1, Zenon
  <2>3. promos' = [p \in Promos |->
                    IF p = new
                    THEN [q EXCEPT !.crossed = picked \intersect UNION {KeysOf(r) : r \in Promos}]
                    ELSE [promos[p] EXCEPT !.crossed = @ \union (picked \intersect KeysOf(p))]]
    BY <1>2, <1>4
  <2>4. Starts(new, q, picked)
    BY <1>4, <2>2, <2>3, Zenon DEF Starts
  <2>. QED BY <2>2, <2>4, Zenon
<1>. QED BY <1>3, <1>4

-----------------------------------------------------------------------------
(* Type correctness.                                                        *)

LEMMA AccountUpdateType ==
  ASSUME UpdaterTypeOK, NEW k \in Keys, AccountUpdate(k)
  PROVE  UpdaterTypeOK'
<1>1. account' \in [Keys -> 0..MaxUpdates] /\ price' \in 0..MaxUpdates
  BY LimitAssumption DEF AccountUpdate, UpdaterTypeOK
<1>2. decoded' \in [Keys -> 0..MaxUpdates \union {None}] /\ cand' \in [Keys -> Cand]
  <2>1. CASE UNCHANGED <<candVars, throttled, flushVars>>
    BY <2>1 DEF UpdaterTypeOK, candVars
  <2>2. CASE /\ decoded' = [decoded EXCEPT ![k] = account'[k]]
             /\ \E c \in Recomputed(cand[k], account'[k], price) : cand' = [cand EXCEPT ![k] = c]
    <3>1. account'[k] \in 0..MaxUpdates
      BY <1>1
    <3>2. \A c \in Recomputed(cand[k], account'[k], price) : c \in Cand
      BY <3>1 DEF Recomputed, Cand, Stamp, UpdaterTypeOK
    <3>. QED BY <2>2, <3>1, <3>2 DEF UpdaterTypeOK
  <2>. QED BY <2>1, <2>2 DEF AccountUpdate
<1>3. throttled' \subseteq Keys /\ pending' \subseteq Keys /\ flushTimer' \in {"none", "armed"}
  BY DEF AccountUpdate, EnqueueRefresh, UpdaterTypeOK, flushVars
<1>. QED BY <1>1, <1>2, <1>3 DEF AccountUpdate, UpdaterTypeOK, coolVars

LEMMA OracleUpdateType ==
  ASSUME UpdaterTypeOK, OracleUpdate
  PROVE  UpdaterTypeOK'
<1>. PICK refreshable \in SUBSET (targets \ throttled) :
       /\ throttled' = throttled \union refreshable
       /\ LET ks == {k \in refreshable : decoded[k] # None} IN
          /\ \E scored \in SUBSET ks :
               cand' = [k \in Keys |->
                          IF k \in scored
                          THEN [cand[k] EXCEPT !.numbers = [account |-> decoded[k], price |-> price']]
                          ELSE cand[k]]
          /\ IF ks = {} THEN UNCHANGED flushVars ELSE EnqueueRefresh(ks)
  BY DEF OracleUpdate
<1>. DEFINE ks == {k \in refreshable : decoded[k] # None}
<1>1. price' \in 0..MaxUpdates
  BY LimitAssumption DEF OracleUpdate, UpdaterTypeOK
<1>2. cand' \in [Keys -> Cand]
  <2>1. PICK scored \in SUBSET ks :
          cand' = [k \in Keys |->
                     IF k \in scored
                     THEN [cand[k] EXCEPT !.numbers = [account |-> decoded[k], price |-> price']]
                     ELSE cand[k]]
    OBVIOUS
  <2>2. \A k \in Keys : cand[k] \in Cand
    BY DEF UpdaterTypeOK
  <2>3. \A k \in scored : [account |-> decoded[k], price |-> price'] \in Stamp
    BY <1>1 DEF Stamp, UpdaterTypeOK
  <2>. QED BY <2>1, <2>2, <2>3 DEF Cand
<1>3. throttled' \subseteq Keys /\ pending' \subseteq Keys /\ flushTimer' \in {"none", "armed"}
  BY DEF EnqueueRefresh, UpdaterTypeOK, flushVars
<1>. QED BY <1>1, <1>2, <1>3 DEF OracleUpdate, UpdaterTypeOK, coolVars

LEMMA RetargetType ==
  ASSUME UpdaterTypeOK, NEW ks \in SUBSET Keys, NEW numbers \in [Keys -> Stamp \union {None}],
         Retarget(ks, numbers)
  PROVE  /\ targets' \subseteq Keys /\ cand' \in [Keys -> Cand]
         /\ decoded' \in [Keys -> 0..MaxUpdates \union {None}]
<1>1. NoCand \in Cand
  BY DEF NoCand, Cand
<1>2. \A k \in Keys : cand[k].numbers \in Stamp \union {None}
  BY DEF UpdaterTypeOK, Cand
<1>3. cand' \in [Keys -> Cand]
  BY <1>1, <1>2 DEF Retarget, Kept, Cand
<1>. QED BY <1>3 DEF Retarget, UpdaterTypeOK

LEMMA BootApplyType ==
  ASSUME UpdaterTypeOK, BootApply
  PROVE  UpdaterTypeOK'
<1>. PICK answer \in {a \in [Keys -> 0..MaxUpdates] : \A k \in Keys : a[k] <= account[k]},
          good \in SUBSET targets : \E scored \in SUBSET good :
        /\ decoded' = [k \in Keys |-> IF k \in good THEN answer[k] ELSE decoded[k]]
        /\ cand' = [k \in Keys |->
            IF k \in scored
            THEN [cand[k] EXCEPT !.numbers = [account |-> answer[k], price |-> price]]
            ELSE cand[k]]
  BY Zenon DEF BootApply
<1>1. PICK scored \in SUBSET good :
        /\ decoded' = [k \in Keys |-> IF k \in good THEN answer[k] ELSE decoded[k]]
        /\ cand' = [k \in Keys |->
            IF k \in scored
            THEN [cand[k] EXCEPT !.numbers = [account |-> answer[k], price |-> price]]
            ELSE cand[k]]
  OBVIOUS
<1>2. decoded' \in [Keys -> 0..MaxUpdates \union {None}]
  BY <1>1 DEF UpdaterTypeOK
<1>3. cand' \in [Keys -> Cand]
  <2>1. \A k \in Keys : cand[k] \in Cand /\ [account |-> answer[k], price |-> price] \in Stamp
    BY <1>1 DEF UpdaterTypeOK, Stamp
  <2>. QED BY <1>1, <2>1 DEF Cand
<1>. QED BY <1>2, <1>3 DEF BootApply, UpdaterTypeOK, marketVars, flushVars, coolVars

LEMMA FlushType ==
  ASSUME UpdaterTypeOK, Flush
  PROVE  UpdaterTypeOK'
<1>1. queue' \in [Keys -> Stamp \union {None}] /\ promos' \in [Promos -> Promo]
  <2>1. CASE UNCHANGED <<queue, promos>>
    BY <2>1 DEF UpdaterTypeOK
  <2>2. CASE queue' = Refreshed(pending) /\ BeginPromotion(WatchOnly(pending))
    <3>1. queue' \in [Keys -> Stamp \union {None}]
      BY <2>2 DEF Refreshed, UpdaterTypeOK, Cand
    <3>2. ASSUME NEW new \in Promos, NEW picked \in SUBSET Considered(WatchOnly(pending)),
                 NEW q \in NextTurn(Began(picked)), Starts(new, q, picked)
          PROVE  promos' \in [Promos -> Promo]
      <4>1. picked \in SUBSET Keys
        BY DEF Considered, WatchOnly, UpdaterTypeOK
      <4>2. q \in Promo
        BY <4>1, BeganTyped, NextTurnTyped
      <4>3. \A p \in Promos : promos[p] \in Promo
        BY DEF UpdaterTypeOK
      <4>4. [q EXCEPT !.crossed = picked \intersect UNION {KeysOf(r) : r \in Promos}] \in Promo
        BY <4>1, <4>2 DEF Promo
      <4>5. \A p \in Promos : [promos[p] EXCEPT !.crossed = @ \union (picked \intersect KeysOf(p))] \in Promo
        BY <4>1, <4>3 DEF Promo
      <4>. QED BY <3>2, <4>4, <4>5 DEF Starts
    <3>. QED BY <2>2, <3>1, <3>2, BeginStarts DEF UpdaterTypeOK
  <2>. QED BY <2>1, <2>2 DEF Flush
<1>. QED BY <1>1 DEF Flush, Fired, UpdaterTypeOK, marketVars, candVars, coolVars

\* What a verdict makes of the promotion that asked for it.
Heard(p, answer) ==
  IF answer = "liquidatable" THEN [promos[p] EXCEPT !.admitted = @ \union {promos[p].at}] ELSE promos[p]

LEMMA HeardTyped ==
  ASSUME UpdaterTypeOK, NEW p \in Promos, InFlight(p), NEW answer
  PROVE  /\ Heard(p, answer) \in Promo
         /\ Heard(p, answer).rest = promos[p].rest
         /\ Heard(p, answer).admitted \subseteq promos[p].admitted \union {promos[p].at}
         /\ Heard(p, answer).numbers = promos[p].numbers
         /\ Heard(p, answer).watched = promos[p].watched
         /\ Heard(p, answer).crossed = promos[p].crossed
         /\ Heard(p, answer).late = promos[p].late
<1>1. promos[p] \in Promo /\ promos[p].at \in Keys
  BY DEF UpdaterTypeOK, Promo, InFlight
<1>. QED BY <1>1 DEF Heard, Promo

\* The promotion goes on, or it ends and some of what it admitted is enqueued.
GoesOn(p, q) == q.at # None /\ promos' = [promos EXCEPT ![p] = q] /\ UNCHANGED queue
EndsWith(p, q) ==
  /\ promos' = [promos EXCEPT ![p] = IdlePromo]
  /\ \E ks \in SUBSET q.admitted : Enqueue(q, ks)

LEMMA VerdictEffect ==
  ASSUME UpdaterTypeOK, NEW p \in Promos, Verdict(p)
  PROVE  \E answer \in {"error", "healthy", "liquidatable"} :
           \E q \in NextTurn(Heard(p, answer)) :
             /\ GoesOn(p, q) \/ EndsWith(p, q)
             /\ cooldown' = IF answer = "healthy" THEN cooldown \union {promos[p].at} ELSE cooldown
             /\ refused' = IF answer = "healthy" THEN refused \union {promos[p].at} ELSE refused
BY Zenon DEF Verdict, Heard, GoesOn, EndsWith, SetCooldown

LEMMA VerdictType ==
  ASSUME UpdaterTypeOK, NEW p \in Promos, Verdict(p)
  PROVE  UpdaterTypeOK'
<1>. PICK answer \in {"error", "healthy", "liquidatable"} : \E q \in NextTurn(Heard(p, answer)) :
             /\ GoesOn(p, q) \/ EndsWith(p, q)
             /\ cooldown' = IF answer = "healthy" THEN cooldown \union {promos[p].at} ELSE cooldown
             /\ refused' = IF answer = "healthy" THEN refused \union {promos[p].at} ELSE refused
  BY VerdictEffect
<1>1. PICK q \in NextTurn(Heard(p, answer)) :
             /\ GoesOn(p, q) \/ EndsWith(p, q)
             /\ cooldown' = IF answer = "healthy" THEN cooldown \union {promos[p].at} ELSE cooldown
             /\ refused' = IF answer = "healthy" THEN refused \union {promos[p].at} ELSE refused
  OBVIOUS
<1>2. InFlight(p)
  BY DEF Verdict
<1>3. q \in Promo /\ promos[p].at \in Keys
  BY <1>2, HeardTyped, NextTurnTyped DEF InFlight, UpdaterTypeOK, Promo
<1>4. IdlePromo \in Promo
  BY DEF IdlePromo, Promo
<1>5. promos' \in [Promos -> Promo]
  BY <1>1, <1>3, <1>4 DEF GoesOn, EndsWith, UpdaterTypeOK
<1>6. queue' \in [Keys -> Stamp \union {None}]
  <2>1. \A k \in Keys : q.numbers[k] \in Stamp \union {None}
    BY <1>3 DEF Promo
  <2>. QED BY <1>1, <2>1 DEF GoesOn, EndsWith, Enqueue, UpdaterTypeOK
<1>7. cooldown' \subseteq Keys /\ refused' \subseteq Keys
  BY <1>1, <1>3 DEF UpdaterTypeOK
<1>. QED BY <1>5, <1>6, <1>7 DEF Verdict, UpdaterTypeOK, marketVars, candVars, flushVars

LEMMA RunCycleType ==
  ASSUME cycleInProgress \in BOOLEAN, unseen \in BOOLEAN, cycles = IF cycleInProgress THEN 1 ELSE 0,
         RunCycleGuarded
  PROVE  /\ cycleInProgress' \in BOOLEAN /\ unseen' \in BOOLEAN /\ cycles' \in 0..1
         /\ cycles' = IF cycleInProgress' THEN 1 ELSE 0
<1>1. CASE cycleInProgress = TRUE
  BY <1>1 DEF RunCycleGuarded
<1>2. CASE cycleInProgress = FALSE
  <2>1. cycleInProgress' = TRUE /\ unseen' = FALSE /\ cycles' = cycles + 1
    BY <1>2, Zenon DEF RunCycleGuarded
  <2>2. cycles = 0
    BY <1>2
  <2>3. cycles' = 1 /\ cycles' \in 0..1
    BY <2>1, <2>2
  <2>. QED BY <2>1, <2>3, Zenon
<1>. QED BY <1>1, <1>2

\* The targets a load of the files gives.
LEMMA WatchTargetsTyped ==
  ASSUME NEW w \in WatchTargets
  PROVE  w \in [keys : SUBSET Keys, numbers : [Keys -> Stamp \union {None}]]
<1>1. PICK shadowOnly \in SUBSET (Keys \ PlanKeys) : \E read \in Readable : w = TargetsWith(shadowOnly, read)
  BY DEF WatchTargets
<1>2. PICK read \in Readable : w = TargetsWith(shadowOnly, read)
  BY <1>1
<1>3. read \in [Keys -> Stamp]
  BY DEF Readable
<1>. QED BY <1>2, <1>3 DEF PlanKeys, TargetsWith

-----------------------------------------------------------------------------
(* The invariant.  Beyond the types: the mutex is the cycle; whoever has    *)
(* the legs of a plan is watched; the cooldown is what KLend refused; and   *)
(* of a promotion's candidates, those that another one has too, or that     *)
(* entered the queue meanwhile, are marked crossed.                         *)

CoolIsRefused == refused = cooldown
Watch == listened = targets /\ targets = {k \in Keys : cand[k].legs}
InHand(p) == /\ promos[p].late = {}
             /\ KeysOf(p) \subseteq promos[p].watched
             /\ \A k \in KeysOf(p) : queue[k] # None => k \in promos[p].crossed
Crossed(p, r) == KeysOf(p) \intersect KeysOf(r) \subseteq promos[p].crossed
PromosOK == /\ \A p \in Promos : InHand(p)
            /\ \A p, r \in Promos : p # r => Crossed(p, r)
Inv == TypeOK /\ MutexIsTheCycle /\ CoolIsRefused /\ Watch /\ PromosOK

LEMMA InitInv == Init => Inv
<1>. SUFFICES ASSUME Init PROVE Inv
  OBVIOUS
<1>1. UpdaterTypeOK
  <2>1. [account |-> 0, price |-> 0] \in Stamp /\ NoCand \in Cand /\ IdlePromo \in Promo
    BY LimitAssumption DEF Stamp, NoCand, Cand, IdlePromo, Promo
  <2>. QED BY <2>1, LimitAssumption DEF Init, UpdaterInit, UpdaterTypeOK
<1>2. initTargets \in [keys : SUBSET Keys, numbers : [Keys -> Stamp \union {None}]]
  BY WatchTargetsTyped DEF Init
<1>3. Watch
  BY DEF Init, UpdaterInit, Watch, NoCand
<1>4. PromosOK
  BY DEF Init, UpdaterInit, PromosOK, InHand, Crossed, KeysOf, InFlight, IdlePromo
<1>5. TypeOK
  <2>1. /\ alive \in BOOLEAN /\ wired \in BOOLEAN /\ cycleInProgress \in BOOLEAN /\ unseen \in BOOLEAN
        /\ listened \subseteq Keys /\ strays \subseteq Keys
    BY Zenon DEF Init
  <2>2. cycles \in 0..1 /\ phase \in Phases /\ refresh \in {"idle", "reload", "bootstrapping"}
        /\ tickDebounceTimer \in {"none", "armed"}
    BY DEF Init, Phases
  <2>. QED BY <1>1, <1>2, <2>1, <2>2, Zenon DEF TypeOK
<1>6. MutexIsTheCycle
  BY DEF Init, MutexIsTheCycle
<1>. QED BY <1>3, <1>4, <1>5, <1>6 DEF Init, UpdaterInit, Inv, CoolIsRefused

-----------------------------------------------------------------------------
(* What preserves each part.                                                *)

\* Nothing enters the queue and no promotion moves.
LEMMA PromosKept ==
  ASSUME PromosOK, UNCHANGED promos, \A k \in Keys : queue'[k] # None => queue[k] # None,
         promos \in [Promos -> Promo]
  PROVE  PromosOK'
<1>1. \A p \in Promos : KeysOf(p)' = KeysOf(p) /\ KeysOf(p) \subseteq Keys
  BY DEF KeysOf, InFlight, Promo
<1>2. \A p \in Promos : InHand(p)'
  BY <1>1 DEF PromosOK, InHand
<1>3. \A p, r \in Promos : p # r => Crossed(p, r)'
  BY <1>1 DEF PromosOK, Crossed
<1>. QED BY <1>2, <1>3 DEF PromosOK

\* The updates and the bootstrap give candidates numbers, never legs.
LegsKept == targets' = targets /\ \A k \in Keys : cand'[k].legs = cand[k].legs

LEMMA AccountUpdateLegs ==
  ASSUME UpdaterTypeOK, NEW k \in Keys, AccountUpdate(k)
  PROVE  LegsKept
<1>1. CASE UNCHANGED <<candVars, throttled, flushVars>>
  BY <1>1 DEF AccountUpdate, LegsKept, candVars
<1>2. CASE \E c \in Recomputed(cand[k], account'[k], price) : cand' = [cand EXCEPT ![k] = c]
  BY <1>2 DEF AccountUpdate, LegsKept, Recomputed, UpdaterTypeOK, Cand
<1>. QED BY <1>1, <1>2 DEF AccountUpdate

LEMMA OracleUpdateLegs ==
  ASSUME UpdaterTypeOK, OracleUpdate
  PROVE  LegsKept
<1>1. PICK scored \in SUBSET Keys :
        cand' = [k \in Keys |->
                   IF k \in scored
                   THEN [cand[k] EXCEPT !.numbers = [account |-> decoded[k], price |-> price']]
                   ELSE cand[k]]
  BY DEF OracleUpdate, UpdaterTypeOK
<1>2. \A k \in Keys : cand[k] \in Cand
  BY DEF UpdaterTypeOK
<1>. QED BY <1>1, <1>2 DEF OracleUpdate, LegsKept, Cand

LEMMA BootApplyLegs ==
  ASSUME UpdaterTypeOK, BootApply
  PROVE  LegsKept
<1>. PICK answer \in {a \in [Keys -> 0..MaxUpdates] : \A k \in Keys : a[k] <= account[k]},
          good \in SUBSET targets : \E scored \in SUBSET good :
        cand' = [k \in Keys |->
            IF k \in scored
            THEN [cand[k] EXCEPT !.numbers = [account |-> answer[k], price |-> price]]
            ELSE cand[k]]
  BY Zenon DEF BootApply
<1>1. PICK scored \in SUBSET good :
        cand' = [k \in Keys |->
            IF k \in scored
            THEN [cand[k] EXCEPT !.numbers = [account |-> answer[k], price |-> price]]
            ELSE cand[k]]
  OBVIOUS
<1>2. \A k \in Keys : cand[k] \in Cand
  BY DEF UpdaterTypeOK
<1>. QED BY <1>1, <1>2 DEF BootApply, LegsKept, Cand

LEMMA WatchKept ==
  ASSUME Watch, LegsKept, listened' = listened
  PROVE  Watch'
<1>1. {k \in Keys : cand[k].legs}' = {k \in Keys : cand[k].legs}
  BY DEF LegsKept
<1>. QED BY <1>1 DEF Watch, LegsKept

\* After a retarget the candidates with legs are the new targets.
LEMMA RetargetWatch ==
  ASSUME NEW ks \in SUBSET Keys, NEW numbers, Retarget(ks, numbers), listened' = ks
  PROVE  Watch'
<1>1. \A k \in Keys : (k \in ks => cand'[k].legs) /\ (k \notin ks => ~cand'[k].legs)
  BY DEF Retarget, Kept, NoCand
<1>2. {k \in Keys : cand'[k].legs} = ks
  BY <1>1
<1>. QED BY <1>2 DEF Retarget, Watch

\* A flush starts a promotion of what the queue does not hold.
LEMMA FlushPromos ==
  ASSUME UpdaterTypeOK, CoolIsRefused, PromosOK, Watch, Flush
  PROVE  PromosOK'
<1>1. CASE UNCHANGED <<queue, promos>>
  BY <1>1, PromosKept DEF UpdaterTypeOK
<1>2. ASSUME queue' = Refreshed(pending) PROVE \A k \in Keys : queue'[k] # None => queue[k] # None
  BY <1>2 DEF Refreshed, PlanKeys
<1>3. CASE queue' = Refreshed(pending) /\ promos' = promos
  BY <1>2, <1>3, PromosKept DEF UpdaterTypeOK
<1>4. ASSUME queue' = Refreshed(pending), NEW new \in Promos,
             NEW picked \in SUBSET Considered(WatchOnly(pending)),
             NEW q \in NextTurn(Began(picked)), Starts(new, q, picked)
      PROVE  PromosOK'
  <2>. DEFINE others == UNION {KeysOf(r) : r \in Promos}
              begun == [q EXCEPT !.crossed = picked \intersect others]
  <2>1. picked \in SUBSET Keys /\ picked \subseteq targets
    BY DEF Considered, WatchOnly, UpdaterTypeOK, Watch
  <2>2. Began(picked) \in Promo /\ q \in Promo
    BY <2>1, BeganTyped, NextTurnTyped
  <2>3. /\ Began(picked).rest = picked /\ Began(picked).watched = targets
        /\ Began(picked).admitted = {} /\ Began(picked).late = {}
    BY DEF Began, IdlePromo
  <2>4. /\ q.at \in picked /\ q.rest \subseteq picked /\ q.admitted = {}
        /\ q.watched = targets /\ q.late = {}
    <3>1. q.at \in picked \ cooldown'
      BY <2>2, <2>3, NextTurnKeeps, <1>4 DEF Starts
    <3>2. cooldown' = refused'
      BY DEF Flush, CoolIsRefused, coolVars
    <3>. QED BY <2>2, <2>3, <3>1, <3>2, NextTurnKeeps
  <2>5. \A k \in picked : queue'[k] = None
    BY <2>1, <1>4 DEF Considered, WatchOnly, Refreshed, PlanKeys
  <2>6. /\ promos'[new] = begun
        /\ \A p \in Promos \ {new} :
             promos'[p] = [promos[p] EXCEPT !.crossed = @ \union (picked \intersect KeysOf(p))]
    BY <1>4 DEF Starts
  <2>7. /\ begun.at = q.at /\ begun.rest = q.rest /\ begun.admitted = q.admitted /\ begun.late = q.late
        /\ begun.watched = q.watched /\ begun.crossed = picked \intersect others
    BY <2>2 DEF Promo
  <2>8. ASSUME NEW p \in Promos \ {new}
        PROVE  /\ promos'[p].at = promos[p].at /\ promos'[p].rest = promos[p].rest
               /\ promos'[p].admitted = promos[p].admitted /\ promos'[p].watched = promos[p].watched
               /\ promos'[p].late = promos[p].late
               /\ promos'[p].crossed = promos[p].crossed \union (picked \intersect KeysOf(p))
    <3>1. promos[p] \in Promo
      BY DEF UpdaterTypeOK
    <3>. QED BY <3>1, <2>6 DEF Promo
  <2>9. KeysOf(new)' \subseteq picked
    BY <2>4, <2>6, <2>7 DEF KeysOf, InFlight
  <2>10. \A p \in Promos \ {new} : KeysOf(p)' = KeysOf(p) /\ KeysOf(p) \subseteq Keys
    <3>1. \A p \in Promos : promos[p] \in Promo
      BY DEF UpdaterTypeOK
    <3>. QED BY <2>8, <3>1 DEF KeysOf, InFlight, Promo
  <2>11. InHand(new)'
    BY <2>1, <2>4, <2>5, <2>6, <2>7, <2>9 DEF InHand
  <2>12. \A p \in Promos \ {new} : InHand(p)'
    BY <1>2, <1>4, <2>8, <2>10 DEF InHand, PromosOK
  <2>13. \A p, r \in Promos : p # r => Crossed(p, r)'
    <3>1. ASSUME NEW p \in Promos \ {new}, NEW r \in Promos \ {new}, p # r PROVE Crossed(p, r)'
      BY <3>1, <2>8, <2>10 DEF Crossed, PromosOK
    <3>2. ASSUME NEW p \in Promos \ {new} PROVE Crossed(p, new)'
      BY <2>8, <2>9, <2>10 DEF Crossed
    <3>3. ASSUME NEW r \in Promos \ {new} PROVE Crossed(new, r)'
      BY <2>6, <2>7, <2>9, <2>10 DEF Crossed
    <3>. QED BY <3>1, <3>2, <3>3
  <2>. QED BY <2>11, <2>12, <2>13 DEF PromosOK
<1>. QED BY <1>1, <1>3, <1>4, BeginStarts DEF Flush

\* A verdict leaves the promotion a part of what it had in hand; what it enqueues
\* was in its hands, so whoever shares it is crossed.
LEMMA VerdictPromos ==
  ASSUME UpdaterTypeOK, CoolIsRefused, PromosOK, NEW p \in Promos, Verdict(p)
  PROVE  PromosOK' /\ CoolIsRefused'
<1>. PICK answer \in {"error", "healthy", "liquidatable"} : \E q \in NextTurn(Heard(p, answer)) :
             /\ GoesOn(p, q) \/ EndsWith(p, q)
             /\ cooldown' = IF answer = "healthy" THEN cooldown \union {promos[p].at} ELSE cooldown
             /\ refused' = IF answer = "healthy" THEN refused \union {promos[p].at} ELSE refused
  BY VerdictEffect
<1>1. PICK q \in NextTurn(Heard(p, answer)) :
             /\ GoesOn(p, q) \/ EndsWith(p, q)
             /\ cooldown' = IF answer = "healthy" THEN cooldown \union {promos[p].at} ELSE cooldown
             /\ refused' = IF answer = "healthy" THEN refused \union {promos[p].at} ELSE refused
  OBVIOUS
<1>2. cooldown' = refused'
  BY <1>1 DEF CoolIsRefused
<1>3. InFlight(p)
  BY DEF Verdict
<1>4. /\ q.late = {} /\ q.watched = promos[p].watched /\ q.crossed = promos[p].crossed
      /\ q.at # None => q.at \in promos[p].rest
      /\ q.rest \subseteq promos[p].rest
      /\ q.admitted \subseteq promos[p].admitted \union {promos[p].at}
  <2>1. Heard(p, answer) \in Promo
    BY <1>3, HeardTyped
  <2>2. promos[p].late = {}
    BY DEF PromosOK, InHand
  <2>. QED BY <1>2, <1>3, <2>1, <2>2, HeardTyped, NextTurnKeeps
<1>5. q.admitted \subseteq KeysOf(p)
  BY <1>3, <1>4 DEF KeysOf
<1>6. /\ promos'[p] \in {q, IdlePromo}
      /\ promos'[p] = q => q.at # None \/ promos'[p] = IdlePromo
      /\ \A r \in Promos \ {p} : promos'[r] = promos[r]
  BY <1>1 DEF GoesOn, EndsWith, UpdaterTypeOK
<1>7. \A k \in Keys : queue'[k] # None => queue[k] # None \/ (k \in KeysOf(p) /\ promos'[p] = IdlePromo)
  BY <1>1, <1>5 DEF GoesOn, EndsWith, Enqueue, UpdaterTypeOK
<1>8. IdlePromo.at = None /\ IdlePromo.late = {}
  BY DEF IdlePromo
<1>9. KeysOf(p)' \subseteq KeysOf(p) /\ (promos'[p] = IdlePromo => KeysOf(p)' = {})
  BY <1>3, <1>4, <1>6, <1>8 DEF KeysOf, InFlight
<1>10. \A r \in Promos \ {p} : KeysOf(r)' = KeysOf(r)
  BY <1>6 DEF KeysOf, InFlight
<1>11. \A r \in Promos : KeysOf(r) \subseteq Keys
  BY DEF KeysOf, InFlight, UpdaterTypeOK, Promo
<1>12. InHand(p)'
  <2>1. CASE promos'[p] = IdlePromo
    BY <2>1, <1>8, <1>9 DEF InHand
  <2>2. CASE promos'[p] # IdlePromo
    BY <2>2, <1>4, <1>6, <1>7, <1>9, <1>11 DEF InHand, PromosOK
  <2>. QED BY <2>1, <2>2
<1>13. \A r \in Promos \ {p} : InHand(r)'
  BY <1>6, <1>7, <1>10, <1>11 DEF InHand, PromosOK, Crossed
<1>14. \A r, s \in Promos : r # s => Crossed(r, s)'
  <2>1. ASSUME NEW r \in Promos \ {p}, NEW s \in Promos, r # s PROVE Crossed(r, s)'
    BY <2>1, <1>6, <1>9, <1>10 DEF Crossed, PromosOK
  <2>2. ASSUME NEW s \in Promos \ {p} PROVE Crossed(p, s)'
    BY <1>4, <1>6, <1>9, <1>10 DEF Crossed, PromosOK
  <2>. QED BY <2>1, <2>2
<1>. QED BY <1>2, <1>12, <1>13, <1>14 DEF PromosOK, CoolIsRefused

\* The queue is rebuilt: every promotion that has one of its plans is crossed.
LEMMA PipelinePromos ==
  ASSUME UpdaterTypeOK, PromosOK, PipelineEnds
  PROVE  PromosOK' /\ queue' \in [Keys -> Stamp \union {None}] /\ promos' \in [Promos -> Promo]
<1>1. PICK queued \in SUBSET Keys : \E read \in Readable :
       /\ queue' = [k \in Keys |-> IF k \in queued THEN read[k] ELSE None]
       /\ promos' = [p \in Promos |->
                       [promos[p] EXCEPT !.crossed = @ \union (queued \intersect KeysOf(p))]]
  BY Zenon DEF PipelineEnds
<1>2. PICK read \in Readable :
       /\ queue' = [k \in Keys |-> IF k \in queued THEN read[k] ELSE None]
       /\ promos' = [p \in Promos |->
                       [promos[p] EXCEPT !.crossed = @ \union (queued \intersect KeysOf(p))]]
  BY <1>1
<1>3. queue' \in [Keys -> Stamp \union {None}]
  BY <1>2 DEF Readable
<1>4. \A p \in Promos : promos[p] \in Promo
  BY DEF UpdaterTypeOK
<1>5. promos' \in [Promos -> Promo]
  BY <1>2, <1>4 DEF Promo
<1>6. ASSUME NEW p \in Promos
      PROVE  /\ promos'[p].at = promos[p].at /\ promos'[p].rest = promos[p].rest
             /\ promos'[p].admitted = promos[p].admitted /\ promos'[p].watched = promos[p].watched
             /\ promos'[p].late = promos[p].late
             /\ promos'[p].crossed = promos[p].crossed \union (queued \intersect KeysOf(p))
  BY <1>2, <1>4 DEF Promo
<1>7. \A p \in Promos : KeysOf(p)' = KeysOf(p) /\ KeysOf(p) \subseteq Keys
  BY <1>4, <1>6 DEF KeysOf, InFlight, Promo
<1>8. \A p \in Promos : InHand(p)'
  BY <1>2, <1>6, <1>7 DEF InHand, PromosOK
<1>9. \A p, r \in Promos : p # r => Crossed(p, r)'
  BY <1>6, <1>7 DEF Crossed, PromosOK
<1>. QED BY <1>3, <1>5, <1>8, <1>9 DEF PromosOK

-----------------------------------------------------------------------------
(* The invariant is inductive: the steps that leave promotions and targets  *)
(* alone first, by what they do change.                                     *)

LEMMA InitStepsInv ==
  ASSUME Inv, Derived \/ Bootstrapped \/ ListenersStarted \/ InitFails
  PROVE  Inv'
<1>1. CASE Derived
  <2>1. initTargets.keys \in SUBSET Keys /\ initTargets.numbers \in [Keys -> Stamp \union {None}]
    BY DEF Inv, TypeOK
  <2>2. NoTargets \in [keys : SUBSET Keys, numbers : [Keys -> Stamp \union {None}]]
    BY DEF NoTargets
  <2>3. Watch'
    BY <1>1, <2>1, RetargetWatch DEF Derived
  <2>4. UpdaterTypeOK'
    BY <1>1, <2>1, RetargetType DEF Derived, Inv, TypeOK, UpdaterTypeOK, marketVars, flushVars, coolVars
  <2>5. phase' \in Phases /\ listened' \subseteq Keys
    BY <1>1, <2>1 DEF Derived, Phases
  <2>6. TypeOK'
    BY <1>1, <2>2, <2>4, <2>5, Zenon DEF Derived, Inv, TypeOK, tickVars
  <2>7. PromosOK'
    BY <1>1, PromosKept DEF Derived, Inv, TypeOK, UpdaterTypeOK
  <2>. QED BY <1>1, <2>3, <2>6, <2>7, Zenon DEF Inv, Derived, MutexIsTheCycle, CoolIsRefused, coolVars, tickVars
<1>2. CASE Bootstrapped
  <2>1. UpdaterTypeOK' /\ LegsKept
    BY <1>2, BootApplyType, BootApplyLegs DEF Bootstrapped, Inv, TypeOK
  <2>2. phase' \in Phases
    BY <1>2 DEF Bootstrapped, Phases
  <2>3. TypeOK'
    BY <1>2, <2>1, <2>2, Zenon DEF Bootstrapped, Inv, TypeOK, tickVars, watchVars
  <2>4. Watch'
    BY <1>2, <2>1, WatchKept DEF Bootstrapped, Inv, watchVars
  <2>5. PromosOK'
    BY <1>2, PromosKept DEF Bootstrapped, BootApply, Inv, TypeOK, UpdaterTypeOK
  <2>. QED BY <1>2, <2>3, <2>4, <2>5, Zenon
          DEF Inv, Bootstrapped, BootApply, MutexIsTheCycle, CoolIsRefused, coolVars, tickVars
<1>3. CASE ListenersStarted \/ InitFails
  <2>1. UNCHANGED updaterVars /\ UNCHANGED watchVars /\ UNCHANGED initTargets
        /\ UNCHANGED tickDebounceTimer /\ UNCHANGED alive /\ RunCycleGuarded
        /\ phase' = "first" /\ (wired' = TRUE \/ wired' = wired)
    BY <1>3, Zenon DEF ListenersStarted, InitFails, updaterVars
  <2>2. /\ cycleInProgress' \in BOOLEAN /\ unseen' \in BOOLEAN /\ cycles' \in 0..1
        /\ cycles' = IF cycleInProgress' THEN 1 ELSE 0
    BY <2>1, RunCycleType DEF Inv, TypeOK, MutexIsTheCycle
  <2>3. UpdaterTypeOK'
    BY <2>1 DEF Inv, TypeOK, UpdaterTypeOK, updaterVars, marketVars, candVars, flushVars, coolVars
  <2>4. phase' \in Phases
    BY <2>1 DEF Phases
  <2>5. wired' \in BOOLEAN
    BY <2>1, Zenon DEF Inv, TypeOK
  <2>6. TypeOK'
    BY <2>1, <2>2, <2>3, <2>4, <2>5, Zenon DEF Inv, TypeOK, watchVars
  <2>7. PromosOK'
    BY <2>1, PromosKept DEF Inv, TypeOK, UpdaterTypeOK, updaterVars
  <2>8. Watch'
    BY <2>1, WatchKept DEF Inv, LegsKept, updaterVars, candVars, watchVars
  <2>. QED BY <2>1, <2>2, <2>6, <2>7, <2>8, Zenon DEF Inv, MutexIsTheCycle, CoolIsRefused, updaterVars, coolVars
<1>. QED BY <1>1, <1>2, <1>3

LEMMA CycleStepsInv ==
  ASSUME Inv,
         \/ TickFires \/ Heartbeat \/ \E thrown \in BOOLEAN : CycleEnds(thrown)
         \/ \E k \in Keys : ExecutorDrops(k)
  PROVE  Inv'
<1>1. CASE TickFires \/ Heartbeat \/ \E thrown \in BOOLEAN : CycleEnds(thrown)
  <2>1. UNCHANGED updaterVars /\ UNCHANGED watchVars /\ UNCHANGED initTargets /\ UNCHANGED wired
    BY <1>1, Zenon DEF TickFires, Heartbeat, CycleEnds, startVars
  <2>2. UpdaterTypeOK'
    BY <2>1 DEF Inv, TypeOK, UpdaterTypeOK, updaterVars, marketVars, candVars, flushVars, coolVars
  <2>3. PromosOK' /\ Watch' /\ CoolIsRefused'
    BY <2>1, PromosKept, WatchKept
       DEF Inv, TypeOK, UpdaterTypeOK, LegsKept, CoolIsRefused, updaterVars, candVars, coolVars, watchVars
  <2>4. CASE TickFires
    <3>1. /\ cycleInProgress' \in BOOLEAN /\ unseen' \in BOOLEAN /\ cycles' \in 0..1
          /\ cycles' = IF cycleInProgress' THEN 1 ELSE 0
      BY <2>4, RunCycleType DEF TickFires, Inv, TypeOK, MutexIsTheCycle
    <3>2. tickDebounceTimer' \in {"none", "armed"}
      BY <2>4 DEF TickFires
    <3>3. TypeOK'
      BY <2>1, <2>2, <2>4, <3>1, <3>2, Zenon DEF TickFires, Inv, TypeOK, watchVars, startVars
    <3>. QED BY <2>3, <3>1, <3>3, Zenon DEF Inv, MutexIsTheCycle
  <2>5. CASE Heartbeat
    <3>1. tickDebounceTimer' \in {"none", "armed"}
      BY <2>5 DEF Heartbeat, ScheduleTick
    <3>2. TypeOK'
      BY <2>1, <2>2, <2>5, <3>1, Zenon DEF Heartbeat, Inv, TypeOK, watchVars, startVars
    <3>. QED BY <2>3, <2>5, <3>2, Zenon DEF Heartbeat, Inv, MutexIsTheCycle
  <2>6. CASE \E thrown \in BOOLEAN : CycleEnds(thrown)
    <3>1. PICK thrown \in BOOLEAN : CycleEnds(thrown)
      BY <2>6
    <3>2. cycles = 1
      BY <3>1 DEF CycleEnds, Inv, MutexIsTheCycle
    <3>3. cycles' = 0 /\ cycles' \in 0..1
      BY <3>1, <3>2 DEF CycleEnds
    <3>4. cycleInProgress' = FALSE
      BY <3>1, Zenon DEF CycleEnds, Free
    <3>5. alive' \in BOOLEAN
      BY <3>1, Zenon DEF CycleEnds
    <3>6. phase' \in Phases
      BY <3>1 DEF CycleEnds, Inv, TypeOK, Phases
    <3>7. TypeOK'
      BY <2>1, <2>2, <3>1, <3>3, <3>4, <3>5, <3>6, Zenon DEF CycleEnds, Inv, TypeOK, watchVars
    <3>. QED BY <2>3, <3>3, <3>4, <3>7, Zenon DEF Inv, MutexIsTheCycle
  <2>. QED BY <1>1, <2>4, <2>5, <2>6
<1>2. CASE \E k \in Keys : ExecutorDrops(k)
  <2>1. PICK k \in Keys : ExecutorDrops(k)
    BY <1>2
  <2>2. UpdaterTypeOK'
    BY <2>1 DEF ExecutorDrops, Inv, TypeOK, UpdaterTypeOK, marketVars, candVars, flushVars, coolVars
  <2>3. \A j \in Keys : queue'[j] # None => queue[j] # None
    BY <2>1 DEF ExecutorDrops, Inv, TypeOK, UpdaterTypeOK
  <2>4. PromosOK' /\ Watch' /\ CoolIsRefused'
    BY <2>1, <2>3, PromosKept, WatchKept
       DEF ExecutorDrops, Inv, TypeOK, UpdaterTypeOK, LegsKept, CoolIsRefused, candVars, coolVars, watchVars
  <2>5. TypeOK'
    BY <2>1, <2>2, Zenon DEF ExecutorDrops, Inv, TypeOK, startVars, tickVars, watchVars
  <2>. QED BY <2>1, <2>4, <2>5, Zenon DEF ExecutorDrops, Inv, MutexIsTheCycle, tickVars
<1>. QED BY <1>1, <1>2

LEMMA RefreshStepsInv ==
  ASSUME Inv, PipelineEnds \/ Reload \/ Reloaded \/ RefreshFails
  PROVE  Inv'
<1>1. CASE PipelineEnds
  <2>1. PromosOK' /\ queue' \in [Keys -> Stamp \union {None}] /\ promos' \in [Promos -> Promo]
    BY <1>1, PipelinePromos DEF Inv, TypeOK
  <2>2. UpdaterTypeOK'
    BY <1>1, <2>1 DEF PipelineEnds, Inv, TypeOK, UpdaterTypeOK, marketVars, candVars, flushVars, coolVars
  <2>3. refresh' \in {"idle", "reload", "bootstrapping"}
    BY <1>1 DEF PipelineEnds
  <2>4. TypeOK'
    BY <1>1, <2>2, <2>3, Zenon DEF PipelineEnds, Inv, TypeOK, startVars, tickVars
  <2>5. Watch'
    BY <1>1, WatchKept DEF PipelineEnds, Inv, LegsKept, candVars
  <2>. QED BY <1>1, <2>1, <2>4, <2>5, Zenon
          DEF PipelineEnds, Inv, MutexIsTheCycle, CoolIsRefused, tickVars, coolVars
<1>2. CASE Reload
  <2>. PICK new \in WatchTargets :
       IF ~wired
       THEN refresh' = "idle" /\ UNCHANGED <<targets, candVars, listened, strays>>
       ELSE /\ listened' = new.keys
            /\ \E s \in SUBSET ((listened \union strays) \ new.keys) : strays' = s
            /\ Retarget(new.keys, new.numbers)
            /\ refresh' = IF new.keys = {} THEN "idle" ELSE "bootstrapping"
    BY <1>2, Zenon DEF Reload
  <2>1. new.keys \in SUBSET Keys /\ new.numbers \in [Keys -> Stamp \union {None}]
    BY WatchTargetsTyped
  <2>2. Watch'
    <3>1. CASE wired
      BY <3>1, <2>1, RetargetWatch
    <3>2. CASE ~wired
      BY <3>2, WatchKept DEF Inv, LegsKept, candVars
    <3>. QED BY <3>1, <3>2
  <2>3. targets' \subseteq Keys /\ cand' \in [Keys -> Cand] /\ decoded' \in [Keys -> 0..MaxUpdates \union {None}]
    <3>1. CASE wired
      BY <3>1, <2>1, RetargetType DEF Inv, TypeOK
    <3>2. CASE ~wired
      BY <3>2 DEF Inv, TypeOK, UpdaterTypeOK, candVars
    <3>. QED BY <3>1, <3>2
  <2>4. UpdaterTypeOK'
    BY <1>2, <2>3 DEF Reload, Inv, TypeOK, UpdaterTypeOK, marketVars, flushVars, coolVars
  <2>5. refresh' \in {"idle", "reload", "bootstrapping"} /\ listened' \subseteq Keys /\ strays' \subseteq Keys
    BY <2>1 DEF Inv, TypeOK
  <2>6. TypeOK'
    BY <1>2, <2>4, <2>5, Zenon DEF Reload, Inv, TypeOK, startVars, tickVars
  <2>7. PromosOK'
    BY <1>2, PromosKept DEF Reload, Inv, TypeOK, UpdaterTypeOK
  <2>. QED BY <1>2, <2>2, <2>6, <2>7, Zenon DEF Reload, Inv, MutexIsTheCycle, CoolIsRefused, tickVars, coolVars
<1>3. CASE Reloaded
  <2>1. UpdaterTypeOK' /\ LegsKept
    BY <1>3, BootApplyType, BootApplyLegs DEF Reloaded, Inv, TypeOK
  <2>2. refresh' \in {"idle", "reload", "bootstrapping"}
    BY <1>3 DEF Reloaded
  <2>3. TypeOK'
    BY <1>3, <2>1, <2>2, Zenon DEF Reloaded, Inv, TypeOK, startVars, tickVars
  <2>4. Watch'
    BY <1>3, <2>1, WatchKept DEF Reloaded, Inv
  <2>5. PromosOK'
    BY <1>3, PromosKept DEF Reloaded, BootApply, Inv, TypeOK, UpdaterTypeOK
  <2>. QED BY <1>3, <2>3, <2>4, <2>5, Zenon
          DEF Inv, Reloaded, BootApply, MutexIsTheCycle, CoolIsRefused, coolVars, tickVars
<1>4. CASE RefreshFails
  <2>1. UpdaterTypeOK'
    BY <1>4 DEF RefreshFails, Inv, TypeOK, UpdaterTypeOK, marketVars, candVars, flushVars, coolVars
  <2>2. refresh' \in {"idle", "reload", "bootstrapping"}
    BY <1>4 DEF RefreshFails
  <2>3. TypeOK'
    BY <1>4, <2>1, <2>2, Zenon DEF RefreshFails, Inv, TypeOK, startVars, tickVars
  <2>4. PromosOK' /\ Watch'
    BY <1>4, PromosKept, WatchKept DEF RefreshFails, Inv, TypeOK, UpdaterTypeOK, LegsKept, candVars
  <2>. QED BY <1>4, <2>3, <2>4, Zenon
          DEF RefreshFails, Inv, MutexIsTheCycle, CoolIsRefused, tickVars, coolVars
<1>. QED BY <1>1, <1>2, <1>3, <1>4

LEMMA EventStepsInv ==
  ASSUME Inv, PriceEvent \/ StraysGone \/ \E k \in Keys : AccountEvent(k)
  PROVE  Inv'
<1>1. ASSUME PriceEvent \/ \E k \in Keys : AccountEvent(k) PROVE Inv'
  <2>1. UpdaterTypeOK' /\ LegsKept /\ UNCHANGED <<queue, promos, coolVars>>
    BY <1>1, AccountUpdateType, AccountUpdateLegs, OracleUpdateType, OracleUpdateLegs
       DEF AccountEvent, PriceEvent, AccountUpdate, OracleUpdate, Inv, TypeOK
  <2>2. /\ UNCHANGED startVars /\ UNCHANGED listened /\ UNCHANGED refresh /\ UNCHANGED cycleInProgress
        /\ UNCHANGED cycles /\ UNCHANGED alive /\ UNCHANGED unseen
    BY <1>1, Zenon DEF AccountEvent, PriceEvent, watchVars
  <2>3. strays' \subseteq Keys
    BY <1>1 DEF AccountEvent, PriceEvent, watchVars, Inv, TypeOK
  <2>4. tickDebounceTimer' \in {"none", "armed"}
    BY <1>1 DEF AccountEvent, PriceEvent, Tick, ScheduleTick, Inv, TypeOK
  <2>5. TypeOK'
    BY <2>1, <2>2, <2>3, <2>4, Zenon DEF Inv, TypeOK, startVars
  <2>6. PromosOK' /\ Watch'
    BY <2>1, <2>2, PromosKept, WatchKept DEF Inv, TypeOK, UpdaterTypeOK
  <2>. QED BY <2>1, <2>2, <2>5, <2>6, Zenon DEF Inv, MutexIsTheCycle, CoolIsRefused, coolVars
<1>2. CASE StraysGone
  <2>1. UpdaterTypeOK' /\ strays' \subseteq Keys
    BY <1>2 DEF StraysGone, Inv, TypeOK, UpdaterTypeOK, updaterVars, marketVars, candVars, flushVars, coolVars
  <2>2. TypeOK'
    BY <1>2, <2>1, Zenon DEF StraysGone, Inv, TypeOK, startVars, tickVars
  <2>3. PromosOK' /\ Watch'
    BY <1>2, PromosKept, WatchKept
       DEF StraysGone, Inv, TypeOK, UpdaterTypeOK, LegsKept, updaterVars, candVars
  <2>. QED BY <1>2, <2>2, <2>3, Zenon
          DEF StraysGone, Inv, MutexIsTheCycle, CoolIsRefused, updaterVars, coolVars, tickVars
<1>. QED BY <1>1, <1>2

\* A step of the updater alone leaves the scheduler's state as it is.
LEMMA UpdaterStepKeeps ==
  ASSUME Inv, NEW ACTION A, UpdaterStep(A), UpdaterTypeOK', PromosOK', CoolIsRefused', LegsKept
  PROVE  Inv'
<1>1. /\ UNCHANGED startVars /\ UNCHANGED watchVars /\ UNCHANGED tickVars /\ UNCHANGED alive
      /\ unseen' = (unseen \/ queue' # queue)
  BY Zenon DEF UpdaterStep
<1>2. unseen' \in BOOLEAN
  BY <1>1, Zenon
<1>3. TypeOK'
  BY <1>1, <1>2, Zenon DEF Inv, TypeOK, startVars, watchVars, tickVars
<1>4. Watch'
  BY <1>1, WatchKept DEF Inv, watchVars
<1>. QED BY <1>1, <1>3, <1>4, Zenon DEF Inv, MutexIsTheCycle, tickVars

LEMMA UpdaterStepsInv ==
  ASSUME Inv,
         \/ \E k \in Keys : UpdaterStep(ThrottleElapses(k)) \/ UpdaterStep(CooldownElapses(k))
         \/ FlushStep \/ \E p \in Promos : VerdictStep(p)
  PROVE  Inv'
<1>1. ASSUME NEW k \in Keys, UpdaterStep(ThrottleElapses(k)) PROVE Inv'
  <2>1. ThrottleElapses(k)
    BY <1>1, Zenon DEF UpdaterStep
  <2>2. UpdaterTypeOK' /\ LegsKept /\ CoolIsRefused'
    BY <2>1 DEF ThrottleElapses, Inv, TypeOK, UpdaterTypeOK, LegsKept, CoolIsRefused,
                marketVars, candVars, flushVars, coolVars
  <2>3. PromosOK'
    BY <2>1, PromosKept DEF ThrottleElapses, Inv, TypeOK, UpdaterTypeOK
  <2>. QED BY <1>1, <2>2, <2>3, UpdaterStepKeeps
<1>2. ASSUME NEW k \in Keys, UpdaterStep(CooldownElapses(k)) PROVE Inv'
  <2>1. CooldownElapses(k)
    BY <1>2, Zenon DEF UpdaterStep
  <2>2. UpdaterTypeOK' /\ LegsKept /\ CoolIsRefused'
    BY <2>1 DEF CooldownElapses, Inv, TypeOK, UpdaterTypeOK, LegsKept, CoolIsRefused,
                marketVars, candVars, flushVars
  <2>3. PromosOK'
    BY <2>1, PromosKept DEF CooldownElapses, Inv, TypeOK, UpdaterTypeOK
  <2>. QED BY <1>2, <2>2, <2>3, UpdaterStepKeeps
<1>3. CASE FlushStep
  <2>1. Flush
    BY <1>3, Zenon DEF FlushStep, UpdaterStep
  <2>2. LegsKept /\ CoolIsRefused'
    BY <2>1 DEF Flush, Inv, LegsKept, CoolIsRefused, candVars, coolVars
  <2>3. UpdaterTypeOK' /\ PromosOK'
    BY <2>1, FlushType, FlushPromos DEF Inv, TypeOK
  <2>. QED BY <1>3, <2>2, <2>3, UpdaterStepKeeps DEF FlushStep
<1>4. ASSUME NEW p \in Promos, VerdictStep(p) PROVE Inv'
  <2>1. Verdict(p)
    BY <1>4, Zenon DEF VerdictStep, UpdaterStep
  <2>2. LegsKept
    BY <2>1 DEF Verdict, LegsKept, candVars
  <2>3. UpdaterTypeOK' /\ PromosOK' /\ CoolIsRefused'
    BY <2>1, VerdictType, VerdictPromos DEF Inv, TypeOK
  <2>. QED BY <1>4, <2>2, <2>3, UpdaterStepKeeps DEF VerdictStep
<1>. QED BY <1>1, <1>2, <1>3, <1>4

LEMMA NextInv == Inv /\ [Next]_vars => Inv'
<1>. SUFFICES ASSUME Inv, [Next]_vars PROVE Inv'
  OBVIOUS
<1>1. CASE InitStep \/ InitFails
  BY <1>1, InitStepsInv DEF InitStep
<1>2. CASE \/ TickFires \/ Heartbeat \/ \E thrown \in BOOLEAN : CycleEnds(thrown)
           \/ \E k \in Keys : ExecutorDrops(k)
  BY <1>2, CycleStepsInv
<1>3. CASE PipelineEnds \/ Reload \/ Reloaded \/ RefreshFails
  BY <1>3, RefreshStepsInv
<1>4. CASE PriceEvent \/ StraysGone \/ \E k \in Keys : AccountEvent(k)
  BY <1>4, EventStepsInv
<1>5. CASE \/ \E k \in Keys : UpdaterStep(ThrottleElapses(k)) \/ UpdaterStep(CooldownElapses(k))
           \/ FlushStep \/ \E p \in Promos : VerdictStep(p)
  BY <1>5, UpdaterStepsInv
<1>6. CASE UNCHANGED vars
  <2>1. TypeOK' /\ MutexIsTheCycle'
    BY <1>6, Zenon
       DEF vars, Inv, TypeOK, UpdaterTypeOK, MutexIsTheCycle, updaterVars, marketVars, candVars, flushVars,
           coolVars, startVars, tickVars, watchVars
  <2>2. PromosOK' /\ Watch' /\ CoolIsRefused'
    BY <1>6, PromosKept, WatchKept
       DEF vars, Inv, TypeOK, UpdaterTypeOK, LegsKept, CoolIsRefused, updaterVars, candVars, coolVars, watchVars
  <2>. QED BY <2>1, <2>2 DEF Inv
<1>. QED BY <1>1, <1>2, <1>3, <1>4, <1>5, <1>6, Zenon DEF Next

LEMMA InvHolds == Spec => []Inv
BY InitInv, NextInv, PTL DEF Spec

-----------------------------------------------------------------------------
(* Theorems.                                                                *)

\* The state of the bot keeps its types, whatever the streams, the node, KLend
\* and the executor answer.
THEOREM TypeCorrect == Spec => []TypeOK
<1>1. Inv => TypeOK
  BY DEF Inv
<1>. QED BY <1>1, InvHolds, PTL

\* cycleInProgress of botStartupScheduler.ts is set exactly while one cycle runs,
\* whatever ends the cycles before.
THEOREM MutexIsCorrect == Spec => []MutexIsTheCycle
<1>1. Inv => MutexIsTheCycle
  BY DEF Inv
<1>. QED BY <1>1, InvHolds, PTL

\* Listener, mint mapping and candidates of the updater agree on the obligations
\* that are watched.
THEOREM WatchersAlwaysAgree == Spec => []WatchersAgree
<1>1. Inv => WatchersAgree
  BY Zenon DEF Inv, Watch, WatchersAgree
<1>. QED BY <1>1, InvHolds, PTL

\* Promotion plans only what was watched when it began.
THEOREM PromotionsWereWatched == Spec => OnlyWatchedIsPromoted
<1>1. Inv => (\A p \in Promos, k \in Keys : queue[k] = None /\ Enqueues(p, k) => k \in promos[p].watched)
  BY DEF Inv, PromosOK, InHand, Enqueues, KeysOf
<1>. QED BY <1>1, InvHolds, PTL DEF OnlyWatchedIsPromoted

\* A plan that entered the queue while a promotion had its obligation in hand
\* came from another promotion or from a rebuild, and marked it crossed.
THEOREM OlderPlansWereCrossed == Spec => NoOlderPlanUnlessCrossed
<1>1. Inv => (\A p \in Promos, k \in Keys :
       queue[k] # None /\ Enqueues(p, k) /\ Older(queue'[k], queue[k]) => k \in promos[p].crossed)
  BY DEF Inv, PromosOK, InHand, Enqueues, KeysOf
<1>. QED BY <1>1, InvHolds, PTL DEF NoOlderPlanUnlessCrossed

\* A turn never comes to an obligation in its cooldown, and the cooldown lasts
\* as long as the verdict it stands for.
THEOREM HealthyStaysOut == Spec => HealthyIsNotPromoted
<1>1. Inv => (\A p \in Promos, k \in Keys : Enqueues(p, k) => k \notin promos[p].late)
  BY DEF Inv, PromosOK, InHand
<1>. QED BY <1>1, InvHolds, PTL DEF HealthyIsNotPromoted
=============================================================================
