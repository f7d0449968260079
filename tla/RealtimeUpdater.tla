--------------------------- MODULE RealtimeUpdater ---------------------------
(***************************************************************************)
(* The realtime path from an account or oracle update to the queue:        *)
(* monitoring/realtimeForecastUpdater.ts with its per-obligation throttle  *)
(* (eventRefreshOrchestrator.ts), its 75 ms flush, its bootstrap from an   *)
(* RPC node and its retargeting, and the promotion of watched obligations  *)
(* (shadowWatchPromotion.ts, shadowPromotionHealthyCooldown.ts), which the *)
(* flush starts without awaiting it.                                       *)
(*                                                                         *)
(* Numbers (health, value, EV, TTL) are abstracted to their age: the       *)
(* version of the account and of the prices they were computed from.  One  *)
(* oracle prices a mint that every watched obligation holds.  What the     *)
(* selector and the filters drop, and what KLend answers, is any choice.   *)
(***************************************************************************)
EXTENDS Naturals, FiniteSets

CONSTANTS Keys,         \* obligations
          Promos,       \* bound: promotions in flight at once
          MaxUpdates,   \* bound: updates of one account and of the prices, together
          BatchLimit,   \* EVENT_REFRESH_BATCH_LIMIT
          None          \* no stamp, no key, nothing in flight

ASSUME NoneAssumption == None \notin Keys
ASSUME LimitAssumption == BatchLimit \in Nat \ {0} /\ MaxUpdates \in Nat

VARIABLES account,     \* version of each account, as the stream has delivered it
          price,       \* version of the prices in the oracle cache
          queue,       \* the queue file: the age of each plan's numbers, or None
          targets,     \* obligations in the mint mapping
          decoded,     \* decodedByKey: version of the decoded account, or None
          cand,        \* candidatesByKey
          throttled,   \* keys refreshed less than minRefreshIntervalMs ago
          pending,     \* pendingKeys
          flushTimer,  \* the field flushTimer: "none", "armed", or "stale" after it fired
          cooldown,    \* keys in shadowPromotionHealthyCooldown
          promos,      \* promotions between two awaits
          refused      \* history: KLend called it healthy, and its cooldown has not elapsed

marketVars == <<account, price>>
candVars   == <<decoded, cand>>
flushVars  == <<pending, flushTimer>>
coolVars   == <<cooldown, refused>>

Stamp == [account : 0..MaxUpdates, price : 0..MaxUpdates]
Older(s, t) == s.account < t.account \/ s.price < t.price

\* A candidate has its reserves and mints when it came from a watch target, and
\* numbers once it was scored or came with some.
NoCand == [legs |-> FALSE, numbers |-> None]
Cand == [legs : BOOLEAN, numbers : Stamp \union {None}]

PlanKeys == {k \in Keys : queue[k] # None}

IdlePromo == [at |-> None, rest |-> {}, admitted |-> {}, numbers |-> [k \in Keys |-> None],
              watched |-> {}, late |-> {}, crossed |-> {}]
Promo == [at : Keys \union {None}, rest : SUBSET Keys, admitted : SUBSET Keys,
          numbers : [Keys -> Stamp \union {None}],
          watched : SUBSET Keys, late : SUBSET Keys, crossed : SUBSET Keys]

UpdaterTypeOK ==
  /\ account \in [Keys -> 0..MaxUpdates] /\ price \in 0..MaxUpdates
  /\ queue \in [Keys -> Stamp \union {None}]
  /\ targets \subseteq Keys
  /\ decoded \in [Keys -> 0..MaxUpdates \union {None}] /\ cand \in [Keys -> Cand]
  /\ throttled \subseteq Keys /\ pending \subseteq Keys
  /\ flushTimer \in {"none", "armed"}
  /\ cooldown \subseteq Keys /\ refused \subseteq Keys
  /\ promos \in [Promos -> Promo]

UpdaterInit ==
  /\ account = [k \in Keys |-> 0] /\ price = 0
  /\ queue \in [Keys -> {[account |-> 0, price |-> 0], None}]
  /\ targets = {}
  /\ decoded = [k \in Keys |-> None] /\ cand = [k \in Keys |-> NoCand]
  /\ throttled = {} /\ pending = {} /\ flushTimer = "none"
  /\ cooldown = {} /\ refused = {}
  /\ promos = [p \in Promos |-> IdlePromo]

-----------------------------------------------------------------------------
(* Updates.                                                                 *)

\* recomputeCandidateLike with the account version a and the price version p:
\* an obligation that cannot be scored keeps the numbers it had.
Recomputed(c, a, p) ==
  {c, [c EXCEPT !.numbers = [account |-> a, price |-> p]]}

\* enqueueRefresh: the keys join the pending ones; a timer that is set stays.
EnqueueRefresh(ks) ==
  /\ pending' = pending \union ks
  /\ flushTimer' = IF flushTimer = "none" THEN "armed" ELSE flushTimer

\* handleObligationAccountUpdate: an update that does not decode, or is another
\* program's or market's, is dropped; a usable one is decoded and scored at
\* once and, outside its throttle interval, asks for a refresh.
AccountUpdate(k) ==
  /\ account[k] + price < MaxUpdates
  /\ account' = [account EXCEPT ![k] = @ + 1]
  /\ \/ UNCHANGED <<candVars, throttled, flushVars>>
     \/ /\ decoded' = [decoded EXCEPT ![k] = account'[k]]
        /\ \E c \in Recomputed(cand[k], account'[k], price) : cand' = [cand EXCEPT ![k] = c]
        /\ IF k \in throttled THEN UNCHANGED <<throttled, flushVars>>
           ELSE throttled' = throttled \union {k} /\ EnqueueRefresh({k})
  /\ UNCHANGED <<price, queue, targets, coolVars, promos>>

\* handleOracleAccountUpdate: the price is replaced for everyone, the scores
\* only for mapped keys outside their throttle interval, at most BatchLimit of
\* them; a key counts as refreshed even if nothing was decoded for it.
OracleUpdate ==
  /\ price < MaxUpdates /\ \A k \in Keys : account[k] + price < MaxUpdates
  /\ price' = price + 1
  /\ \E refreshable \in SUBSET (targets \ throttled) :
       /\ Cardinality(refreshable) <= BatchLimit
       /\ Cardinality(refreshable) < BatchLimit => refreshable = targets \ throttled
       /\ throttled' = throttled \union refreshable
       /\ LET ks == {k \in refreshable : decoded[k] # None} IN
          /\ \E scored \in SUBSET ks :
               cand' = [k \in Keys |->
                          IF k \in scored
                          THEN [cand[k] EXCEPT !.numbers =
                                  [account |-> decoded[k], price |-> price']]
                          ELSE cand[k]]
          /\ IF ks = {} THEN UNCHANGED flushVars ELSE EnqueueRefresh(ks)
  /\ UNCHANGED <<account, queue, targets, decoded, coolVars, promos>>

ThrottleElapses(k) ==
  /\ k \in throttled
  /\ throttled' = throttled \ {k}
  /\ UNCHANGED <<marketVars, queue, targets, candVars, flushVars, coolVars, promos>>

-----------------------------------------------------------------------------
(* Promotion.  The steps between two awaits: the cooldown is looked at when *)
(* a candidate's turn comes, the plans are built from what was read when    *)
(* the promotion began.                                                     *)

InFlight(p) == promos[p].at # None
KeysOf(p) == IF InFlight(p) THEN promos[p].rest \union promos[p].admitted \union {promos[p].at} ELSE {}

\* What a promotion does next: a candidate's check begins, or there is none left.
Turn(q, k, skipped) ==
  [q EXCEPT !.at = k, !.rest = (@ \ {k}) \ skipped, !.late = @ \union ({k} \intersect refused')]
Done(q) == [q EXCEPT !.at = None, !.rest = {}]

\* The candidates are taken in their ranked order, which is any order; those in
\* their cooldown when their turn comes are skipped.
NextTurn(q) ==
  {Turn(q, k, skipped) : k \in q.rest \ cooldown', skipped \in SUBSET (q.rest \intersect cooldown')}
    \union (IF q.rest \subseteq cooldown' THEN {Done(q)} ELSE {})

\* setShadowPromotionHealthyCooldown.  Mutant: a verdict that nobody remembers.
SetCooldownNever(k, answer) == cooldown' = cooldown
SetCooldown(k, answer) ==
  cooldown' = IF answer = "healthy" THEN cooldown \union {k} ELSE cooldown

\* The end of a promotion: of the admitted candidates, those that pass the
\* filters again become plans, merged over the queue by enqueuePlans.
\* A save that throws is one that enqueues nothing.
Enqueue(q, ks) ==
  queue' = [k \in Keys |-> IF k \in ks THEN q.numbers[k] ELSE queue[k]]

\* What the flush leaves to the promotion.  Mutant: all of it.
WatchOnlyAll(batch) == batch
WatchOnly(batch) == batch \ PlanKeys

\* A candidate without numbers or reserves is not considered.  Mutant: its
\* reserves are not asked for.
ConsideredAnyway(ks) == {k \in ks : cand[k].numbers # None}
Considered(ks) == {k \in ks : cand[k].legs /\ cand[k].numbers # None}

Began(ks) == [IdlePromo EXCEPT !.rest = ks, !.watched = targets,
                               !.numbers = [k \in Keys |-> IF k \in ks THEN cand[k].numbers ELSE None]]

\* promoteWatchedCandidatesToQueue up to its first await, started by the flush.
\* The selector and the filters may drop any of the candidates.
BeginPromotion(ks) ==
  \E picked \in SUBSET Considered(ks) :
    \E q \in NextTurn(Began(picked)) :
      IF q.at = None THEN UNCHANGED promos
      ELSE /\ \E p \in Promos : ~InFlight(p)
           /\ LET new == CHOOSE p \in Promos : ~InFlight(p) IN
              promos' = [p \in Promos |->
                IF p = new
                THEN [q EXCEPT !.crossed = picked \intersect UNION {KeysOf(r) : r \in Promos}]
                ELSE [promos[p] EXCEPT !.crossed = @ \union (picked \intersect KeysOf(p))]]

\* KLend's answer for the candidate whose turn it is, and the steps up to the
\* next await or to the end of the promotion.
Verdict(p) ==
  /\ InFlight(p)
  /\ \E answer \in {"error", "healthy", "liquidatable"} :
       LET k == promos[p].at
           heard == IF answer = "liquidatable"
                    THEN [promos[p] EXCEPT !.admitted = @ \union {k}] ELSE promos[p]
       IN /\ SetCooldown(k, answer)
          /\ refused' = IF answer = "healthy" THEN refused \union {k} ELSE refused
          /\ \E q \in NextTurn(heard) :
               IF q.at # None
               THEN promos' = [promos EXCEPT ![p] = q] /\ UNCHANGED queue
               ELSE /\ promos' = [promos EXCEPT ![p] = IdlePromo]
                    /\ \E ks \in SUBSET q.admitted : Enqueue(q, ks)
  /\ UNCHANGED <<marketVars, targets, candVars, throttled, flushVars>>

CooldownElapses(k) ==
  /\ k \in cooldown \union refused
  /\ cooldown' = cooldown \ {k}
  /\ refused' = refused \ {k}
  /\ UNCHANGED <<marketVars, queue, targets, candVars, throttled, flushVars, promos>>

-----------------------------------------------------------------------------
(* The flush.                                                               *)

Fired == flushTimer' = "none"

\* refreshSubset over the queued part of the batch: a candidate with numbers
\* gives the plan its own.
Refreshed(batch) ==
  [k \in Keys |-> IF k \in batch \intersect PlanKeys /\ cand[k].numbers # None
                  THEN cand[k].numbers ELSE queue[k]]

\* The 75 ms timer.  The batch is emptied first; a save that throws ends the
\* callback before the promotion of the rest is started.
Flush ==
  /\ flushTimer = "armed"
  /\ Fired
  /\ pending' = {}
  /\ UNCHANGED <<marketVars, targets, candVars, throttled, coolVars>>
  /\ \/ queue' = Refreshed(pending) /\ BeginPromotion(WatchOnly(pending))
     \/ pending \intersect PlanKeys # {} /\ UNCHANGED <<queue, promos>>

-----------------------------------------------------------------------------
(* Retargeting and bootstrap.                                               *)

\* What a retarget keeps of a candidate.  Mutant: what is no longer watched is
\* not dropped.
KeptAnyway(ks, k) == cand[k]
Kept(ks, k) == NoCand

\* refreshMappingFromWatchTargets: numbers[k] is what the target of k brings
\* with it, None for a plan of the queue, which carries no health ratio.
Retarget(ks, numbers) ==
  /\ targets' = ks
  /\ cand' = [k \in Keys |->
       IF k \notin ks THEN Kept(ks, k)
       ELSE [legs |-> TRUE,
             numbers |-> IF numbers[k] # None THEN numbers[k] ELSE cand[k].numbers]]
  /\ decoded' = [k \in Keys |-> IF k \in ks THEN decoded[k] ELSE None]

\* bootstrapWatchObligations after its call: what the node answered, which may
\* be older than what the stream has brought since, is stored for the targets;
\* an account that is missing or does not decode is skipped.
BootApply ==
  /\ \E answer \in {a \in [Keys -> 0..MaxUpdates] : \A k \in Keys : a[k] <= account[k]},
        good \in SUBSET targets : \E scored \in SUBSET good :
       /\ decoded' = [k \in Keys |-> IF k \in good THEN answer[k] ELSE decoded[k]]
       /\ cand' = [k \in Keys |->
            IF k \in scored
            THEN [cand[k] EXCEPT !.numbers = [account |-> answer[k], price |-> price]]
            ELSE cand[k]]
  /\ UNCHANGED <<marketVars, queue, targets, throttled, flushVars, coolVars, promos>>

=============================================================================
