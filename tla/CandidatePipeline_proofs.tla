----------------------- MODULE CandidatePipeline_proofs -----------------------
(***************************************************************************)
(* For every market, every set of obligations and any number of rounds and *)
(* prices: the realtime updater's prices beside the pipeline's rounds, and *)
(* what the ranking and the queue a round leaves are made of.  The sort,   *)
(* the cut and the queue filter are reasoned about as lists without        *)
(* repeated keys (Ranking), and the invariant IInv carries each round's    *)
(* facts from the moment it prices a candidate to the file it writes.      *)
(***************************************************************************)
EXTENDS CandidatePipeline, FiniteSetTheorems, SequenceTheorems, WellFoundedInduction, TLAPS

-----------------------------------------------------------------------------
(* What one account gives a mint.                                           *)

\* A stablecoin's price is drawn to its peg and stays a number.
LEMMA ClampIsInt ==
  ASSUME NEW m, NEW price \in Int
  PROVE  Clamp(m, price) \in Int
BY StableAssumption DEF Clamp

\* What is read of an account's price is a number.
LEMMA MantissaIsInt ==
  ASSUME NEW m, NEW price \in Int
  PROVE  Mantissa(m, price) \in Int
<1>1. Dollar \in Nat \ {0} /\ PythUnit \in Nat
  BY UnitsAssumption
<1>2. price \div Dollar \in Int
  BY <1>1
<1>. DEFINE q == price \div Dollar
<1>. HIDE DEF q
<1>3. q * PythUnit \in Int
  BY <1>1, <1>2 DEF q
<1>. QED BY <1>3 DEF Mantissa, q

\* An account's price has the type and the time of the account.
LEMMA PriceOfTyped ==
  ASSUME NEW m, NEW a \in Account
  PROVE  PriceOf(m, a) \in Price /\ PriceOf(m, a) # NoPrice /\ PriceOf(m, a).ts = a.ts
<1>1. a.ts \in Int /\ a.price \in Int /\ a.wide \in BOOLEAN
  BY DEF Account
<1>2. Clamp(m, Mantissa(m, a.price)) \in Int
  BY <1>1, MantissaIsInt, ClampIsInt
<1>3. PriceOf(m, a) \in Price /\ PriceOf(m, a).ts = a.ts
  BY <1>1, <1>2 DEF PriceOf, Price
<1>. QED BY <1>3, NoPriceAssumption

\* A load assigns a mint the price of its account, or none.
LEMMA AssignedTyped ==
  ASSUME NEW m, NEW a \in Account, NEW map, NEW t
  PROVE  Assigned(m, a, map, t) \in {NoPrice, PriceOf(m, a)}
BY DEF Assigned, ScopePrice, FeedPrice

-----------------------------------------------------------------------------
(* The invariant.  Every clearing of the map of the Scope chains is         *)
(* followed by a filling before the loader goes on, so that a chain both    *)
(* loads found is there whenever neither of them is at its reserves.        *)

PricesTyped ==
  /\ now \in Int
  /\ acct \in [Mints -> Account]
  /\ wire \subseteq [mint : Mints, account : Account]
  /\ live \in [Mints -> Price \union {NoPrice}]

ChainsFilled ==
  /\ pc = "reserves" => rc = NoReserves
  /\ pc # "reserves" /\ livePc \in {"oracles", "on"}
       => ChainsOf(rc) \intersect ChainsOf(liveRc) \subseteq chains

\* The start has typed prices.
LEMMA StartTyped == Init => PricesTyped
<1>. SUFFICES ASSUME Init PROVE PricesTyped
  OBVIOUS
<1>1. PICK p \in StartPrices : acct = [m \in Mints |-> [p[m] EXCEPT !.ts = 1]]
  BY DEF Init
<1>2. p \in [Mints -> Account]
  BY PublishedAssumption
<1>3. \A m \in Mints : [p[m] EXCEPT !.ts = 1] \in Account
  BY <1>2 DEF Account
<1>. QED BY <1>1, <1>3 DEF Init, PricesTyped, NoPrices

\* What the stream delivers: the cache is as it was, or its mint has the price
\* of the account, newer than the one before.
LEMMA Applied ==
  ASSUME PricesTyped, NEW u \in [mint : Mints, account : Account]
  PROVE  LET after == ApplyOracleAccountUpdate(live, liveRc, chains, u.mint, u.account, now)
             p == PriceOf(u.mint, u.account)
             old == live[u.mint]
         IN \/ after = live
            \/ after = [live EXCEPT ![u.mint] = p] /\ (old = NoPrice \/ p.ts > old.ts)
<1>. DEFINE a == Assigned(u.mint, u.account, chains, now)
<1>1. a \in {NoPrice, PriceOf(u.mint, u.account)}
  BY AssignedTyped
<1>2. [live EXCEPT ![u.mint] = live[u.mint]] = live
  BY DEF PricesTyped
<1>. QED BY <1>1, <1>2 DEF ApplyOracleAccountUpdate, MaybeSetMintPrice

\* Every step keeps them typed.
LEMMA StepTyped == PricesTyped /\ [Next]_vars => PricesTyped'
<1>. SUFFICES ASSUME PricesTyped, [Next]_vars PROVE PricesTyped'
  OBVIOUS
<1>1. CASE LiveOracles
  <2>1. \A m \in Mints : live'[m] \in Price \union {NoPrice}
    <3>. TAKE m \in Mints
    <3>1. acct[m] \in Account
      BY DEF PricesTyped
    <3>2. Assigned(m, acct[m], chains, now) \in Price \union {NoPrice}
      BY <3>1, AssignedTyped, PriceOfTyped
    <3>3. live'[m] \in {Assigned(m, acct[m], chains, now), NoPrice}
      BY <1>1 DEF LiveOracles, LoadOracles
    <3>. QED BY <3>2, <3>3
  <2>. QED BY <1>1, <2>1 DEF LiveOracles, LoadOracles, PricesTyped, worldVars
<1>2. ASSUME NEW u \in wire, Delivered(u) PROVE PricesTyped'
  <2>1. u \in [mint : Mints, account : Account]
    BY DEF PricesTyped
  <2>2. PriceOf(u.mint, u.account) \in Price
    BY <2>1, PriceOfTyped
  <2>3. live' = live \/ live' = [live EXCEPT ![u.mint] = PriceOf(u.mint, u.account)]
    <3>1. live' = ApplyOracleAccountUpdate(live, liveRc, chains, u.mint, u.account, now)
      BY <1>2, Zenon DEF Delivered
    <3>. QED BY <2>1, <3>1, Applied, Zenon
  <2>4. live \in [Mints -> Price \union {NoPrice}]
    BY DEF PricesTyped
  <2>5. live' \in [Mints -> Price \union {NoPrice}]
    BY <2>2, <2>3, <2>4
  <2>. QED BY <1>2, <2>5 DEF Delivered, PricesTyped
<1>3. ASSUME NEW m \in Mints, Publishes(m) PROVE PricesTyped'
  <2>1. PICK a \in NewPrices[m] : acct' = [acct EXCEPT ![m] = [a EXCEPT !.ts = now]]
    BY <1>3 DEF Publishes
  <2>2. a \in Account
    BY PublishedAssumption
  <2>3. acct' \in [Mints -> Account]
    BY <2>1, <2>2 DEF PricesTyped, Account
  <2>4. wire' \subseteq [mint : Mints, account : Account]
    BY <1>3, <2>3 DEF Publishes, PricesTyped
  <2>. QED BY <1>3, <2>3, <2>4 DEF Publishes, PricesTyped, liveVars
<1>4. CASE Tick
  BY <1>4 DEF Tick, PricesTyped, liveVars
<1>5. CASE Restart
  BY <1>5 DEF Restart, PricesTyped, NoPrices
<1>6. CASE LiveBegins \/ LiveReserves
  BY <1>6 DEF LiveBegins, LiveReserves, PricesTyped, worldVars
<1>7. CASE BuildQueue
  BY <1>7 DEF BuildQueue, PricesTyped, worldVars
<1>8. CASE RoundBegins \/ RoundReserves \/ RoundOracles \/ VerifyAndWrite \/ Fails
  BY <1>8 DEF RoundBegins, RoundReserves, RoundOracles, VerifyAndWrite, Fails, PricesTyped, worldVars, liveVars
<1>9. ASSUME NEW answered \in SUBSET DOMAIN Obs, Bootstrap(answered) PROVE PricesTyped'
  BY <1>9 DEF Bootstrap, PricesTyped, worldVars, liveVars
<1>10. CASE UNCHANGED vars
  BY <1>10 DEF vars, PricesTyped, worldVars, liveVars
<1>. QED BY <1>1, <1>2, <1>3, <1>4, <1>5, <1>6, <1>7, <1>8, <1>9, <1>10 DEF Next

\* No reserves name no Scope chains.
LEMMA NoChainsWithout == ChainsOf(NoReserves) = {}
BY DEF ChainsOf, Known, NoReserves

\* Who clears the map of chains is the one who fills it again.
LEMMA StepFilled == ChainsFilled /\ [Next]_vars => ChainsFilled'
<1>. SUFFICES ASSUME ChainsFilled, [Next]_vars PROVE ChainsFilled'
  OBVIOUS
<1>1. CASE RoundBegins
  BY <1>1 DEF RoundBegins, ChainsFilled
<1>2. CASE RoundReserves
  BY <1>2 DEF RoundReserves, ChainsFilled
<1>3. CASE LiveBegins
  BY <1>3 DEF LiveBegins, ChainsFilled, roundVars
<1>4. CASE LiveReserves
  BY <1>4 DEF LiveReserves, ChainsFilled, roundVars
<1>5. CASE LiveOracles
  BY <1>5 DEF LiveOracles, ChainsFilled, roundVars
<1>6. CASE Fails
  BY <1>6, NoChainsWithout DEF Fails, ChainsFilled, liveVars
<1>7. CASE Restart
  BY <1>7 DEF Restart, ChainsFilled
<1>8. CASE RoundOracles \/ VerifyAndWrite
  BY <1>8 DEF RoundOracles, VerifyAndWrite, ChainsFilled, liveVars
<1>9. CASE BuildQueue
  BY <1>9 DEF BuildQueue, ChainsFilled
<1>10. ASSUME NEW answered \in SUBSET DOMAIN Obs, Bootstrap(answered) PROVE ChainsFilled'
  BY <1>10 DEF Bootstrap, ChainsFilled, liveVars
<1>11. ASSUME NEW u \in wire, Delivered(u) PROVE ChainsFilled'
  BY <1>11 DEF Delivered, ChainsFilled, roundVars
<1>12. ASSUME NEW m \in Mints, Publishes(m) PROVE ChainsFilled'
  BY <1>12 DEF Publishes, ChainsFilled, roundVars, liveVars
<1>13. CASE Tick \/ UNCHANGED vars
  BY <1>13 DEF Tick, vars, ChainsFilled, roundVars, liveVars
<1>. QED BY <1>1, <1>2, <1>3, <1>4, <1>5, <1>6, <1>7, <1>8, <1>9, <1>10, <1>11, <1>12, <1>13 DEF Next

\* The types of the prices, and the fillings of the map.
THEOREM ChainsAreThere == Spec => [](PricesTyped /\ ChainsFilled)
<1>1. Init => PricesTyped /\ ChainsFilled
  BY StartTyped DEF Init, ChainsFilled
<1>2. PricesTyped /\ ChainsFilled /\ [Next]_vars => (PricesTyped /\ ChainsFilled)'
  BY StepTyped, StepFilled
<1>. QED BY <1>1, <1>2, PTL DEF Spec

-----------------------------------------------------------------------------
(* The updater never replaces a price by an older one.                      *)

\* One step never takes a price back.
LEMMA NoStepBack ==
  ASSUME PricesTyped, [Next]_vars, NEW m \in Mints,
         livePc = "on", livePc' = "on", live[m] # NoPrice
  PROVE  live'[m] # NoPrice /\ live'[m].ts >= live[m].ts
<1>1. live[m].ts \in Int
  BY DEF PricesTyped, Price
<1>2. CASE live' = live
  BY <1>1, <1>2
<1>3. ASSUME NEW u \in wire, Delivered(u)
      PROVE  live'[m] # NoPrice /\ live'[m].ts >= live[m].ts
  <2>. DEFINE p == PriceOf(u.mint, u.account)
  <2>1. u \in [mint : Mints, account : Account]
    BY DEF PricesTyped
  <2>2. p # NoPrice /\ p.ts \in Int
    BY <2>1, PriceOfTyped DEF Price
  <2>3. \/ live' = live
        \/ live' = [live EXCEPT ![u.mint] = p] /\ (live[u.mint] = NoPrice \/ p.ts > live[u.mint].ts)
    BY <1>3, <2>1, Applied DEF Delivered
  <2>. HIDE DEF p
  <2>4. live'[m] = live[m] \/ (live'[m] = p /\ p.ts > live[m].ts)
    BY <2>3 DEF PricesTyped
  <2>. QED BY <1>1, <2>2, <2>4
<1>4. live' = live \/ \E u \in wire : Delivered(u)
  BY DEF Next, RoundBegins, RoundReserves, RoundOracles, Bootstrap, VerifyAndWrite, BuildQueue, Fails,
         LiveBegins, LiveReserves, LiveOracles, Publishes, Tick, Restart, vars, liveVars
<1>. QED BY <1>2, <1>3, <1>4

\* LivePriceNeverRegresses, for every order of deliveries.
THEOREM PricesOnlyGetNewer == Spec => LivePriceNeverRegresses
<1>1. PricesTyped /\ [Next]_vars
        => [\A m \in Mints : livePc = "on" /\ livePc' = "on" /\ live[m] # NoPrice
              => live'[m] # NoPrice /\ live'[m].ts >= live[m].ts]_vars
  BY NoStepBack
<1>. QED BY <1>1, ChainsAreThere, PTL DEF Spec, LivePriceNeverRegresses

-----------------------------------------------------------------------------
(* A newer price that decodes and is fresh is applied.                      *)

Due(u) ==
  /\ livePc = "on" /\ livePc' = "on" /\ wire' = wire \ {u}
  /\ u.mint \in Known(liveRc) /\ pc # "reserves"
  /\ Kind[u.mint] = "scope" => u.mint \in Known(rc)
  /\ Decodes(u.mint, u.account) /\ Fresh(u.mint, u.account, now)
  /\ live[u.mint] # NoPrice => live[u.mint].ts < u.account.ts

\* Only a delivery takes an update off the wire.
LEMMA TakenByDelivery ==
  ASSUME [Next]_vars, NEW u \in wire, livePc' = "on", wire' = wire \ {u}
  PROVE  Delivered(u)
<1>1. ~(wire \subseteq wire')
  OBVIOUS
<1>2. ~Restart
  BY DEF Restart
<1>3. \A m \in Mints : ~Publishes(m)
  BY <1>1 DEF Publishes
<1>4. \E v \in wire : Delivered(v)
  BY <1>1, <1>2, <1>3 DEF Next, RoundBegins, RoundReserves, RoundOracles, Bootstrap, VerifyAndWrite, BuildQueue,
     Fails, LiveBegins, LiveReserves, LiveOracles, Tick, vars, worldVars
<1>. QED BY <1>4 DEF Delivered

\* A delivered update that is due reaches the cache.
LEMMA DueIsApplied ==
  ASSUME PricesTyped, ChainsFilled, [Next]_vars, NEW u \in wire, Due(u)
  PROVE  live'[u.mint] # NoPrice /\ live'[u.mint].ts = u.account.ts
<1>. DEFINE p == PriceOf(u.mint, u.account)
<1>1. u \in [mint : Mints, account : Account]
  BY DEF PricesTyped
<1>2. p # NoPrice /\ p.ts = u.account.ts /\ p.ts \in Int
  BY <1>1, PriceOfTyped DEF Account
<1>3. Delivered(u)
  BY TakenByDelivery DEF Due
<1>4. Kind[u.mint] = "scope" => u.mint \in chains
  BY <1>1 DEF Due, ChainsFilled, ChainsOf, Known
<1>5. Assigned(u.mint, u.account, chains, now) = p
  BY <1>4 DEF Due, Decodes, Assigned, ScopePrice, FeedPrice
<1>6. live[u.mint] # NoPrice => p.ts > live[u.mint].ts
  BY <1>1, <1>2 DEF Due, PricesTyped, Price
<1>7. live' = [live EXCEPT ![u.mint] = p]
  BY <1>2, <1>3, <1>5, <1>6 DEF Delivered, ApplyOracleAccountUpdate, MaybeSetMintPrice, Due
<1>. QED BY <1>1, <1>2, <1>7 DEF PricesTyped

\* LiveUpdateApplied: whatever rounds of the pipeline clear and fill the map
\* the two processes share.
THEOREM UpdatesAreApplied == Spec => LiveUpdateApplied
<1>1. PricesTyped /\ ChainsFilled /\ [Next]_vars
        => [\A u \in wire : Due(u) => live'[u.mint] # NoPrice /\ live'[u.mint].ts = u.account.ts]_vars
  BY DueIsApplied
<1>. QED BY <1>1, ChainsAreThere, PTL DEF Spec, LiveUpdateApplied, Due

-----------------------------------------------------------------------------
(* What the operators of a round give.                                      *)

\* computeHealthRatio scores all legs or nothing.
LEMMA AllPriced ==
  ASSUME NEW ob, NEW r, NEW p, Recomputed(ob, r, p) # None
  PROVE  /\ \A l \in Range(ob.deposits) : DepositPriced(l, r, p)
         /\ \A l \in Range(ob.borrows) : BorrowPriced(l, r, p)
BY DEF Recomputed

\* A candidate is known by its key.
Keyed(S) == \A c, d \in S : c.key = d.key => c = d

\* What a candidate, ranked or not, owes to the round with the caches r and p
\* and the source s that scored the obligations of known.
Sound(c, r, p, s, known) ==
  /\ c.key \in known
  /\ Recomputed(Obs[c.key], r, p) # None
  /\ c.eligible = IsLiquidatable(c.hr)
  /\ s = "recomputed" /\ c.verified # None => c.eligible = IsLiquidatable(c.verified)

\* What buildCandidates makes of scored obligations.
LEMMA CandidatesAre ==
  ASSUME NEW obs, NEW r, NEW p, NEW s
  PROVE  /\ Keyed(Candidates(obs, r, p, s))
         /\ \A c \in Candidates(obs, r, p, s) :
              /\ c.key \in DOMAIN obs /\ Scored(obs[c.key], r, p, s) # None
              /\ c.ctx = Contexts(obs[c.key], r, p)
              /\ c.eligible = IsLiquidatable(c.hr) /\ c.verified = None
<1>1. ASSUME NEW c \in Candidates(obs, r, p, s)
      PROVE  /\ c.key \in DOMAIN obs /\ Scored(obs[c.key], r, p, s) # None
             /\ c.ctx = Contexts(obs[c.key], r, p)
             /\ c.eligible = IsLiquidatable(c.hr) /\ c.verified = None
  BY DEF Candidates
<1>2. ASSUME NEW c \in Candidates(obs, r, p, s), NEW d \in Candidates(obs, r, p, s), c.key = d.key
      PROVE  c = d
  BY <1>2 DEF Candidates
<1>. QED BY <1>1, <1>2 DEF Keyed

\* The candidates of a bootstrap.
LEMMA BootstrapSound ==
  ASSUME NEW answered \in SUBSET DOMAIN Obs, NEW r, NEW p, NEW s
  PROVE  LET obs == [o \in answered |-> Obs[o]]
             cands == FilterCandidatesBySelectedLegUsd(Candidates(obs, r, p, s))
         IN /\ Keyed(cands)
            /\ \A c \in cands : Sound(c, r, p, s, {o \in answered : Scored(Obs[o], r, p, s) # None})
<1>. DEFINE obs == [o \in answered |-> Obs[o]]
            all == Candidates(obs, r, p, s)
            cands == FilterCandidatesBySelectedLegUsd(all)
<1>1. \A c \in all : /\ c.key \in answered /\ Scored(Obs[c.key], r, p, s) # None
                     /\ c.ctx = Contexts(Obs[c.key], r, p)
                     /\ c.eligible = IsLiquidatable(c.hr) /\ c.verified = None
  <2>1. DOMAIN obs = answered /\ \A o \in answered : obs[o] = Obs[o]
    OBVIOUS
  <2>. HIDE DEF obs
  <2>. QED BY <2>1, CandidatesAre
<1>2. Keyed(all)
  BY CandidatesAre
<1>. HIDE DEF all
<1>3. cands \subseteq all /\ \A c \in cands : c.ctx # None
  BY DEF FilterCandidatesBySelectedLegUsd
<1>. HIDE DEF cands
<1>4. \A o : Contexts(Obs[o], r, p) # None => Recomputed(Obs[o], r, p) # None
  BY DEF Contexts
<1>5. Keyed(cands)
  BY <1>2, <1>3 DEF Keyed
<1>6. ASSUME NEW c \in cands PROVE Sound(c, r, p, s, {o \in answered : Scored(Obs[o], r, p, s) # None})
  BY <1>1, <1>3, <1>4 DEF Sound
<1>. QED BY <1>5, <1>6 DEF cands, all

\* A candidate that was ranked is a record.
IsRecord(c) ==
  c = [key |-> c.key, hr |-> c.hr, raw |-> c.raw, debt |-> c.debt, eligible |-> c.eligible, repay |-> c.repay,
       coll |-> c.coll, ctx |-> c.ctx, verified |-> c.verified, forecast |-> c.forecast]

\* KLend's verdict replaces the numbers of a candidate or only stands beside
\* them: either way it is as sound as before.
LEMMA VerifiedSound ==
  ASSUME NEW c, NEW answer, NEW r, NEW p, NEW s, NEW known, Sound(c, r, p, s, known), IsRecord(c)
  PROVE  Sound(Verified(c, answer, s), r, p, s, known) /\ Verified(c, answer, s).key = c.key
<1>. DEFINE v == Verified(c, answer, s)
            hr == Clamped(answer.raw)
<1>. HIDE DEF hr
<1>1. CASE answer = None
  BY <1>1 DEF Verified
<1>2. CASE answer # None /\ s # "recomputed"
  <2>1. v = [c EXCEPT !.verified = hr]
    BY <1>2 DEF Verified, hr
  <2>2. v.key = c.key /\ v.eligible = c.eligible /\ v.hr = c.hr
    BY <2>1 DEF IsRecord
  <2>. QED BY <1>2, <2>2 DEF Sound
<1>3. CASE answer # None /\ s = "recomputed"
  <2>1. v = [c EXCEPT !.verified = hr, !.hr = hr, !.raw = answer.raw, !.debt = answer.debt,
                      !.eligible = IsLiquidatable(hr)]
    BY <1>3 DEF Verified, hr
  <2>2. v.key = c.key /\ v.eligible = IsLiquidatable(hr) /\ v.hr = hr /\ v.verified = hr
    BY <2>1 DEF IsRecord
  <2>. QED BY <2>2 DEF Sound
<1>. QED BY <1>1, <1>2, <1>3

-----------------------------------------------------------------------------
(* The ranking.                                                             *)

\* A ranked list: no candidate twice, and with USE_EV_RANKING none right before
\* one that goes before it.
Ranking(list) ==
  /\ list \in Seq(Range(list))
  /\ \A i, j \in DOMAIN list : list[i].key = list[j].key => i = j
Ordered(list) == \A i \in 1..(Len(list) - 1) : ~Before(list[i + 1], list[i])

\* Candidates known by keys of the market's obligations are finitely many.
LEMMA KeyedFinite ==
  ASSUME NEW S, Keyed(S), \A c \in S : c.key \in DOMAIN Obs
  PROVE  IsFiniteSet(S) /\ Cardinality(S) \in Nat
<1>. DEFINE f == [c \in S |-> c.key]
<1>1. f \in Injection(S, DOMAIN Obs)
  BY DEF Keyed, Injection, IsInjective
<1>2. IsFiniteSet(S)
  BY <1>1, FS_Injection, ObsAssumption
<1>. QED BY <1>2, FS_CardinalityType

\* Any list selectCandidates can return is a ranking of its candidates, each
\* without a forecast or with the one the cache has for it afterwards.
LEMMA RankingOfSelected ==
  ASSUME NEW mode, NEW forecasts0, NEW cands, NEW t, Keyed(cands), \A c \in cands : c.key \in DOMAIN Obs,
         NEW list \in SelectCandidates(mode, forecasts0, cands, t)
  PROVE  /\ Ranking(list) /\ (mode = "ev" => Ordered(list))
         /\ \A i \in DOMAIN list :
              /\ IsRecord(list[i])
              /\ list[i].forecast # None
                   => mode = "ev" /\ list[i].forecast = ForecastsAfter(mode, forecasts0, cands, t)[list[i].key]
              /\ \E c \in cands : /\ list[i].key = c.key /\ list[i].hr = c.hr
                                  /\ list[i].eligible = c.eligible /\ list[i].verified = c.verified
<1>. DEFINE after == ForecastsAfter(mode, forecasts0, cands, t)
            with(c) == [key |-> c.key, hr |-> c.hr, raw |-> c.raw, debt |-> c.debt, eligible |-> c.eligible,
                        repay |-> c.repay, coll |-> c.coll, ctx |-> c.ctx, verified |-> c.verified,
                        forecast |-> IF mode = "ev" THEN after[c.key] ELSE None]
            S == {with(c) : c \in {x \in cands : mode = "ev" => x.eligible \/ x.debt >= MinBorrow}}
<1>. HIDE DEF after
<1>1. list \in Rankings(mode, S)
  BY DEF SelectCandidates, after
<1>2. \A x \in S : /\ IsRecord(x) /\ (x.forecast # None => mode = "ev" /\ x.forecast = after[x.key])
                   /\ \E c \in cands : x.key = c.key /\ x.hr = c.hr /\ x.eligible = c.eligible /\ x.verified = c.verified
  BY DEF IsRecord
<1>3. \A x \in S : x.key \in DOMAIN Obs
  BY <1>2
<1>4. Keyed(S)
  BY DEF Keyed
<1>. HIDE DEF S
<1>5. Cardinality(S) \in Nat
  BY <1>3, <1>4, KeyedFinite
<1>6. /\ list \in [1..Cardinality(S) -> S]
      /\ \A i, j \in 1..Cardinality(S) : list[i] = list[j] => i = j
      /\ mode = "ev" => \A i \in 1..(Cardinality(S) - 1) : ~Before(list[i + 1], list[i])
  BY <1>1 DEF Rankings, Bijection, Injection, IsInjective
<1>7. list \in Seq(Range(list)) /\ Len(list) = Cardinality(S) /\ DOMAIN list = 1..Cardinality(S)
  <2>1. list \in [1..Cardinality(S) -> Range(list)]
    BY <1>6 DEF Range
  <2>. QED BY <1>5, <1>6, <2>1
<1>8. Ranking(list) /\ (mode = "ev" => Ordered(list))
  <2>1. Ranking(list)
    BY <1>4, <1>6, <1>7 DEF Ranking, Keyed
  <2>2. mode = "ev" => Ordered(list)
    BY <1>6, <1>7 DEF Ordered
  <2>. QED BY <2>1, <2>2
<1>9. \A i \in DOMAIN list : list[i] \in S
  BY <1>6
<1>. QED BY <1>2, <1>8, <1>9 DEF after

\* RankBucket is a number.
LEMMA BucketIsNat ==
  ASSUME NEW c
  PROVE  RankBucket(c) \in 0..4
BY DEF RankBucket

\* Two neighbours of a ranking are in the order of their buckets.
LEMMA NeighboursAscend ==
  ASSUME NEW a, NEW b, ~Before(b, a)
  PROVE  RankBucket(a) <= RankBucket(b)
<1>1. RankBucket(a) \in 0..4 /\ RankBucket(b) \in 0..4
  BY BucketIsNat
<1>2. RankBucket(b) < RankBucket(a) => Before(b, a)
  BY DEF Before, FirstDiffers
<1>. QED BY <1>1, <1>2

\* Whatever else is compared, the buckets of a ranking only go up: those taken
\* for liquidatable come first.  (The first place where they did not would have
\* a predecessor that does.)
LEMMA BucketsAscend ==
  ASSUME NEW list, Ranking(list), Ordered(list)
  PROVE  \A j \in DOMAIN list : \A i \in 1..j : RankBucket(list[i]) <= RankBucket(list[j])
<1>. DEFINE bad == {j \in DOMAIN list : \E i \in 1..j : ~(RankBucket(list[i]) <= RankBucket(list[j]))}
            R == OpToRel(<, Nat)
<1>1. Len(list) \in Nat /\ DOMAIN list = 1..Len(list)
  BY DEF Ranking
<1>2. SUFFICES ASSUME bad # {} PROVE FALSE
  OBVIOUS
<1>3. PICK j \in bad : \A k \in bad : ~(<<k, j>> \in R)
  <2>1. bad \in SUBSET Nat
    BY <1>1
  <2>2. IsWellFoundedOn(R, Nat)
    BY NatLessThanWellFounded
  <2>. HIDE DEF bad, R
  <2>. QED BY <1>2, <2>1, <2>2, WFMin
<1>4. PICK i \in 1..j : ~(RankBucket(list[i]) <= RankBucket(list[j]))
  OBVIOUS
<1>5. j \in 1..Len(list) /\ i \in 1..j
  BY <1>1
<1>6. i # j
  BY <1>4, BucketIsNat
<1>7. j - 1 \in 1..Len(list) /\ i \in 1..(j - 1) /\ j - 1 \in 1..(Len(list) - 1) /\ (j - 1) + 1 = j
  BY <1>1, <1>5, <1>6
<1>8. j - 1 \notin bad
  <2>1. j - 1 \in Nat /\ j \in Nat /\ j - 1 < j
    BY <1>1, <1>7
  <2>2. <<j - 1, j>> \in R
    BY <2>1 DEF OpToRel
  <2>. HIDE DEF bad, R
  <2>. QED BY <1>3, <2>2
<1>9. RankBucket(list[i]) <= RankBucket(list[j - 1])
  BY <1>1, <1>7, <1>8
<1>10. RankBucket(list[j - 1]) <= RankBucket(list[j])
  <2>1. ~Before(list[(j - 1) + 1], list[j - 1])
    BY <1>7 DEF Ordered
  <2>. QED BY <1>7, <2>1, NeighboursAscend
<1>11. /\ RankBucket(list[i]) \in 0..4 /\ RankBucket(list[j]) \in 0..4
       /\ RankBucket(list[j - 1]) \in 0..4
  BY BucketIsNat
<1>. QED BY <1>4, <1>9, <1>10, <1>11

\* The first bucket is that of the candidates taken for liquidatable.
LEMMA FirstBucket ==
  ASSUME NEW c, c.eligible = IsLiquidatable(c.hr)
  PROVE  RankBucket(c) = 0 <=> c.eligible
<1>1. (c.eligible \/ IsLiquidatable(c.hr)) <=> c.eligible
  BY Zenon
<1>2. c.eligible \/ IsLiquidatable(c.hr) => RankBucket(c) = 0
  BY DEF RankBucket
<1>3. ~(c.eligible \/ IsLiquidatable(c.hr)) => RankBucket(c) # 0
  BY DEF RankBucket
<1>. QED BY <1>1, <1>2, <1>3, Zenon

-----------------------------------------------------------------------------
(* The forecast cache.                                                      *)

Stamped(entry) == entry # None => entry.since = entry.at

\* A forecast that is used is recent, however it came into the cache, and an
\* entry is stamped with the time of its estimate.
LEMMA ForecastRecent ==
  ASSUME NEW entry, NEW c, NEW t \in Int, Stamped(entry)
  PROVE  LET after == Forecast(entry, c, t)
         IN Stamped(after) /\ t - after.since <= ForecastTtl
<1>. DEFINE after == Forecast(entry, c, t)
<1>1. ASSUME Hit(entry, EstimatePlanEv(c), t) PROVE Stamped(after) /\ t - after.since <= ForecastTtl
  BY <1>1 DEF Forecast, Hit, Stamped
<1>2. ASSUME ~Hit(entry, EstimatePlanEv(c), t) PROVE Stamped(after) /\ t - after.since <= ForecastTtl
  <2>1. after.at = t /\ after.since = t
    BY <1>2 DEF Forecast
  <2>2. t - t <= ForecastTtl
    BY LimitsAssumption
  <2>. HIDE DEF after
  <2>. QED BY <2>1, <2>2 DEF Stamped
<1>. QED BY <1>1, <1>2

\* So does every entry that a ranking leaves in the cache.
LEMMA ForecastsRecent ==
  ASSUME NEW mode, NEW forecasts0, DOMAIN forecasts0 = DOMAIN Obs, \A o \in DOMAIN Obs : Stamped(forecasts0[o]),
         NEW cands, \A c \in cands : c.key \in DOMAIN Obs, NEW t \in Int
  PROVE  LET after == ForecastsAfter(mode, forecasts0, cands, t)
         IN /\ DOMAIN after = DOMAIN Obs /\ \A o \in DOMAIN Obs : Stamped(after[o])
            /\ mode = "ev" => \A c \in cands : t - after[c.key].since <= ForecastTtl
<1>. DEFINE after == ForecastsAfter(mode, forecasts0, cands, t)
            chosen(o) == CHOOSE c \in cands : c.key = o
<1>1. DOMAIN after = DOMAIN Obs
  BY DEF ForecastsAfter
<1>2. ASSUME mode = "ev", NEW o \in DOMAIN Obs, NEW c \in cands, c.key = o
      PROVE  Stamped(after[o]) /\ t - after[o].since <= ForecastTtl
  <2>1. after[o] = Forecast(forecasts0[o], chosen(o), t)
    BY <1>2 DEF ForecastsAfter
  <2>. HIDE DEF after, chosen
  <2>. QED BY <2>1, ForecastRecent
<1>3. ASSUME NEW o \in DOMAIN Obs, ~(mode = "ev" /\ \E c \in cands : c.key = o) PROVE Stamped(after[o])
  BY <1>3 DEF ForecastsAfter
<1>. HIDE DEF after
<1>4. \A o \in DOMAIN Obs : Stamped(after[o])
  BY <1>2, <1>3
<1>. QED BY <1>1, <1>2, <1>4 DEF after

-----------------------------------------------------------------------------
(* The invariant of the rounds.                                             *)

WorldOK ==
  /\ now \in 1..MaxTime /\ published \in 0..MaxPublished
  /\ IsFiniteSet(wire) /\ Cardinality(wire) <= MaxInFlight
  /\ \A m \in Mints : acct[m].ts \in 0..now
  /\ \A u \in wire : u.account.ts \in 0..now

\* Prices were published, and are held to the peg of their mint.
Past(cache, t) ==
  \A m \in Mints :
    cache[m] # NoPrice => /\ cache[m].ts \in 0..t
                          /\ m \in Stable => cache[m].price \in StableLow..StableHigh
CachesOK == Past(oc, now) /\ Past(live, now)

LoadsOK ==
  /\ rc \in [Mints -> Outcome] /\ liveRc \in [Mints -> Outcome]
  /\ chains \subseteq {m \in Mints : Kind[m] = "scope"}
  /\ pc \in {"idle", "reserves", "oracles", "bootstrap", "verify", "queue"}
  /\ livePc \in {"off", "starting", "reserves", "oracles", "on"}
  /\ round \in 0..MaxRounds

\* A price with a timestamp was no older than its reserve allows when the round
\* loaded it.
Recent(cache, t) ==
  \A m \in Mints : cache[m] # NoPrice => cache[m].ts <= 0 \/ t - cache[m].ts <= MaxAge[m]
OraclesOK == pc \in {"bootstrap", "verify", "queue"} => Recent(oc, loadedAt)

RoundOK ==
  /\ scored \subseteq DOMAIN Obs
  /\ Ranking(ranked) /\ (ranking = "ev" => Ordered(ranked))
  /\ \A i \in DOMAIN ranked : IsRecord(ranked[i]) /\ Sound(ranked[i], rc, oc, source, scored)
  /\ pc \notin {"verify", "queue"} => ranked = <<>>

ForecastsOK == DOMAIN forecasts = DOMAIN Obs /\ \A o \in DOMAIN Obs : Stamped(forecasts[o])

\* A file of this round holds the first of the ranking.
Top(list) == SubSeq(list, 1, Least(TopN, Len(list)))
FileOK ==
  /\ pc = "queue" /\ scored # {} => file.round = round
  /\ file # None =>
       /\ file.round \in 0..round /\ (pc \in {"reserves", "oracles", "bootstrap", "verify"} => file.round < round)
       /\ pc = "queue" /\ file.round = round => file.top = Top(ranked)
       /\ \A i \in DOMAIN file.top :
            file.top[i].forecast # None => file.at - file.top[i].forecast.since <= ForecastTtl
       /\ \A i, j \in DOMAIN file.top : file.top[i].key = file.top[j].key => i = j

QueueOK == \A p, q \in queue : p.key = q.key => p = q

IInv == /\ PricesTyped /\ WorldOK /\ CachesOK /\ LoadsOK /\ OraclesOK
        /\ RoundOK /\ ForecastsOK /\ FileOK /\ QueueOK

-----------------------------------------------------------------------------
(* Prices.                                                                  *)

\* A price an account gives a mint is the account's, on the peg, and fresh.
LEMMA AssignedIs ==
  ASSUME NEW m, NEW a \in Account, NEW map, NEW t, Assigned(m, a, map, t) # NoPrice
  PROVE  LET p == Assigned(m, a, map, t)
         IN /\ p = PriceOf(m, a) /\ p.ts = a.ts /\ Fresh(m, a, t)
            /\ m \in Stable => p.price \in StableLow..StableHigh
<1>1. Assigned(m, a, map, t) = PriceOf(m, a) /\ Fresh(m, a, t)
  BY DEF Assigned, ScopePrice, FeedPrice
<1>2. PriceOf(m, a).ts = a.ts
  BY PriceOfTyped
<1>3. m \in Stable => PriceOf(m, a).price \in StableLow..StableHigh
  <2>. DEFINE price == Mantissa(m, a.price)
  <2>1. price \in Int /\ StableLow \in Int /\ StableHigh \in Int /\ StableLow <= StableHigh
    BY StableAssumption, MantissaIsInt DEF Account
  <2>2. PriceOf(m, a).price = Clamp(m, price)
    BY DEF PriceOf
  <2>. HIDE DEF price
  <2>. QED BY <2>1, <2>2 DEF Clamp
<1>. QED BY <1>1, <1>2, <1>3

\* So a load finds only recent prices.
LEMMA LoadedIs ==
  ASSUME NEW r, NEW map, PricesTyped, WorldOK
  PROVE  Past(LoadOracles(r, acct, map, now), now) /\ Recent(LoadOracles(r, acct, map, now), now)
<1>. DEFINE cache == LoadOracles(r, acct, map, now)
<1>1. ASSUME NEW m \in Mints, cache[m] # NoPrice
      PROVE  /\ cache[m].ts \in 0..now /\ (m \in Stable => cache[m].price \in StableLow..StableHigh)
             /\ cache[m].ts <= 0 \/ now - cache[m].ts <= MaxAge[m]
  <2>1. cache[m] = Assigned(m, acct[m], map, now)
    BY <1>1 DEF LoadOracles
  <2>2. acct[m] \in Account /\ acct[m].ts \in 0..now
    BY DEF PricesTyped, WorldOK
  <2>. HIDE DEF cache
  <2>3. /\ cache[m].ts = acct[m].ts /\ Fresh(m, acct[m], now)
        /\ m \in Stable => cache[m].price \in StableLow..StableHigh
    BY <1>1, <2>1, <2>2, AssignedIs
  <2>. QED BY <2>2, <2>3 DEF Fresh, Age
<1>. HIDE DEF cache
<1>. QED BY <1>1 DEF Past, Recent, cache

\* A process starts without prices,
LEMMA EmptyCache == \A t : Past(NoPrices, t)
BY DEF Past, NoPrices

\* No step breaks the world,
LEMMA WorldStays ==
  ASSUME PricesTyped, WorldOK, [Next]_vars
  PROVE  WorldOK'
<1>1. ASSUME NEW u \in wire, Delivered(u) PROVE WorldOK'
  <2>1. /\ wire' = wire \ {u} /\ UNCHANGED <<now, acct, published>>
    BY <1>1 DEF Delivered
  <2>2. IsFiniteSet(wire') /\ Cardinality(wire') <= MaxInFlight
    <3>1. wire' \in SUBSET wire
      BY <2>1
    <3>2. IsFiniteSet(wire') /\ Cardinality(wire') <= Cardinality(wire)
      BY <3>1, FS_Subset DEF WorldOK
    <3>3. Cardinality(wire') \in Nat /\ Cardinality(wire) \in Nat
      BY <3>2, FS_CardinalityType DEF WorldOK
    <3>. QED BY <3>2, <3>3, BoundsAssumption DEF WorldOK
  <2>. QED BY <2>1, <2>2 DEF WorldOK
<1>2. ASSUME NEW m \in Mints, Publishes(m) PROVE WorldOK'
  <2>1. PICK a \in NewPrices[m] :
          /\ acct' = [acct EXCEPT ![m] = [a EXCEPT !.ts = now]]
          /\ wire' = IF livePc = "off" \/ Cardinality(wire) = MaxInFlight THEN wire
                     ELSE wire \union {[mint |-> m, account |-> acct'[m]]}
    BY <1>2 DEF Publishes
  <2>2. published < MaxPublished /\ published' = published + 1 /\ now' = now
    BY <1>2 DEF Publishes
  <2>3. a \in Account
    BY PublishedAssumption
  <2>4. acct'[m].ts = now /\ \A n \in Mints : n # m => acct'[n] = acct[n]
    BY <2>1, <2>3 DEF PricesTyped, Account
  <2>5. now \in 0..now
    BY DEF WorldOK
  <2>6. \A n \in Mints : acct'[n].ts \in 0..now
    BY <2>4, <2>5 DEF WorldOK
  <2>7. ASSUME NEW u \in wire' PROVE u.account.ts \in 0..now
    <3>1. u \in wire \/ u = [mint |-> m, account |-> acct'[m]]
      BY <2>1
    <3>2. u = [mint |-> m, account |-> acct'[m]] => u.account = acct'[m]
      OBVIOUS
    <3>. QED BY <2>4, <2>5, <3>1, <3>2 DEF WorldOK
  <2>8. IsFiniteSet(wire') /\ Cardinality(wire') <= MaxInFlight
    <3>. DEFINE more == wire \union {[mint |-> m, account |-> acct'[m]]}
    <3>1. /\ IsFiniteSet(more)
          /\ Cardinality(more) \in {Cardinality(wire), Cardinality(wire) + 1}
      BY FS_AddElement DEF WorldOK
    <3>2. Cardinality(wire) \in Nat
      BY FS_CardinalityType DEF WorldOK
    <3>3. wire' = wire \/ (wire' = more /\ Cardinality(wire) # MaxInFlight)
      BY <2>1
    <3>. HIDE DEF more
    <3>. QED BY <3>1, <3>2, <3>3, BoundsAssumption DEF WorldOK
  <2>. QED BY <2>2, <2>6, <2>7, <2>8, BoundsAssumption DEF WorldOK
<1>3. CASE Tick
  <2>1. now < MaxTime /\ now' = now + 1 /\ UNCHANGED <<acct, published, wire>>
    BY <1>3 DEF Tick
  <2>. QED BY <2>1, BoundsAssumption DEF WorldOK
<1>4. CASE Restart
  <2>1. wire' = {} /\ UNCHANGED <<now, acct, published>>
    BY <1>4 DEF Restart
  <2>2. IsFiniteSet(wire') /\ Cardinality(wire') = 0
    BY <2>1, FS_EmptySet
  <2>. QED BY <2>1, <2>2, BoundsAssumption DEF WorldOK
<1>5. ASSUME UNCHANGED worldVars PROVE WorldOK'
  BY <1>5 DEF worldVars, WorldOK
<1>6. \/ UNCHANGED worldVars
      \/ Tick \/ Restart \/ (\E u \in wire : Delivered(u)) \/ (\E m \in Mints : Publishes(m))
  BY DEF Next, vars, RoundBegins, RoundReserves, RoundOracles, Bootstrap, VerifyAndWrite, BuildQueue, Fails,
         LiveBegins, LiveReserves, LiveOracles
<1>. QED BY <1>1, <1>2, <1>3, <1>4, <1>5, <1>6

\* the caches,
LEMMA CachesStay ==
  ASSUME PricesTyped, WorldOK, CachesOK, [Next]_vars
  PROVE  CachesOK'
<1>1. now \in Nat /\ now' \in Nat /\ now <= now'
  <2>1. now' = now \/ now' = now + 1
    BY DEF Next, vars, worldVars, RoundBegins, RoundReserves, RoundOracles, Bootstrap, VerifyAndWrite, BuildQueue,
           Fails, LiveBegins, LiveReserves, LiveOracles, Delivered, Publishes, Tick, Restart
  <2>. QED BY <2>1, BoundsAssumption DEF WorldOK
<1>2. \A cache : Past(cache, now) => Past(cache, now')
  <2>1. \A t \in 0..now : t \in 0..now'
    BY <1>1
  <2>. QED BY <2>1 DEF Past
<1>3. ASSUME oc' \in {oc, NoPrices}, live' \in {live, NoPrices} PROVE CachesOK'
  <2>1. Past(oc', now') /\ Past(live', now')
    BY <1>2, <1>3, EmptyCache DEF CachesOK
  <2>. QED BY <2>1 DEF CachesOK
<1>4. CASE RoundOracles
  <2>1. oc' = LoadOracles(rc, acct, chains, now) /\ live' = live
    BY <1>4 DEF RoundOracles, liveVars
  <2>2. Past(oc', now)
    BY <2>1, LoadedIs
  <2>3. Past(oc', now') /\ Past(live', now')
    BY <1>2, <2>1, <2>2 DEF CachesOK
  <2>. QED BY <2>3 DEF CachesOK
<1>5. CASE LiveOracles
  <2>1. live' = LoadOracles(liveRc, acct, chains, now) /\ oc' = oc
    BY <1>5 DEF LiveOracles, roundVars
  <2>2. Past(live', now)
    BY <2>1, LoadedIs
  <2>3. Past(oc', now') /\ Past(live', now')
    BY <1>2, <2>1, <2>2 DEF CachesOK
  <2>. QED BY <2>3 DEF CachesOK
<1>6. ASSUME NEW u \in wire, Delivered(u) PROVE CachesOK'
  <2>. DEFINE p == Assigned(u.mint, u.account, chains, now)
  <2>1. u.mint \in Mints /\ u.account \in Account /\ u.account.ts \in 0..now
    BY DEF PricesTyped, WorldOK
  <2>2. /\ live' = ApplyOracleAccountUpdate(live, liveRc, chains, u.mint, u.account, now)
        /\ oc' = oc
    BY <1>6 DEF Delivered, roundVars
  <2>3. live' = live \/ (p # NoPrice /\ live' = [live EXCEPT ![u.mint] = MaybeSetMintPrice(@, p)])
    BY <2>2 DEF ApplyOracleAccountUpdate
  <2>. HIDE DEF p
  <2>4. live' = live \/ (p # NoPrice /\ \A m \in Mints : live'[m] = live[m] \/ (m = u.mint /\ live'[m] = p))
    BY <2>1, <2>3 DEF PricesTyped, MaybeSetMintPrice
  <2>5. p # NoPrice => /\ p.ts \in 0..now
                       /\ u.mint \in Stable => p.price \in StableLow..StableHigh
    BY <2>1, AssignedIs DEF p
  <2>6. Past(live', now)
    <3>1. CASE live' = live
      BY <3>1 DEF CachesOK
    <3>2. CASE p # NoPrice /\ \A m \in Mints : live'[m] = live[m] \/ (m = u.mint /\ live'[m] = p)
      BY <2>5, <3>2 DEF CachesOK, Past
    <3>. QED BY <2>4, <3>1, <3>2
  <2>7. Past(oc', now') /\ Past(live', now')
    BY <1>2, <2>2, <2>6 DEF CachesOK
  <2>. QED BY <2>7 DEF CachesOK
<1>7. \/ (oc' \in {oc, NoPrices} /\ live' \in {live, NoPrices})
      \/ RoundOracles \/ LiveOracles \/ \E u \in wire : Delivered(u)
  BY DEF Next, vars, roundVars, liveVars, RoundBegins, RoundReserves, Bootstrap, VerifyAndWrite, BuildQueue, Fails,
         LiveBegins, LiveReserves, Publishes, Tick, Restart, Forgotten
<1>. QED BY <1>3, <1>4, <1>5, <1>6, <1>7

\* what the loads found,
LEMMA LoadsStay ==
  ASSUME LoadsOK, [Next]_vars
  PROVE  LoadsOK'
<1>1. NoReserves \in [Mints -> Outcome]
  BY DEF NoReserves, Outcome
<1>2. \A r : ChainsOf(r) \subseteq {m \in Mints : Kind[m] = "scope"}
  BY DEF ChainsOf, Known
<1>3. CASE RoundBegins
  BY <1>1, <1>3, BoundsAssumption DEF RoundBegins, LoadsOK, liveVars
<1>4. CASE RoundReserves
  BY <1>2, <1>4, OutcomesAssumption DEF RoundReserves, LoadsOK, liveVars
<1>5. CASE LiveReserves
  BY <1>2, <1>5, OutcomesAssumption DEF LiveReserves, LoadsOK, roundVars
<1>6. CASE LiveBegins \/ LiveOracles
  BY <1>6 DEF LiveBegins, LiveOracles, LoadsOK, roundVars
<1>7. CASE Restart
  BY <1>1, <1>7 DEF Restart, LoadsOK
<1>8. CASE RoundOracles \/ VerifyAndWrite \/ Fails
  BY <1>8 DEF RoundOracles, VerifyAndWrite, Fails, LoadsOK, liveVars
<1>9. CASE BuildQueue
  BY <1>9 DEF BuildQueue, LoadsOK
<1>10. ASSUME NEW answered \in SUBSET DOMAIN Obs, Bootstrap(answered) PROVE LoadsOK'
  BY <1>10 DEF Bootstrap, LoadsOK, liveVars
<1>11. ASSUME NEW u \in wire, Delivered(u) PROVE LoadsOK'
  BY <1>11 DEF Delivered, LoadsOK, roundVars
<1>12. ASSUME NEW m \in Mints, Publishes(m) PROVE LoadsOK'
  BY <1>12 DEF Publishes, LoadsOK, roundVars, liveVars
<1>13. CASE Tick \/ UNCHANGED vars
  BY <1>13 DEF Tick, vars, LoadsOK, roundVars, liveVars
<1>. QED BY <1>3, <1>4, <1>5, <1>6, <1>7, <1>8, <1>9, <1>10, <1>11, <1>12, <1>13 DEF Next

\* or how recent the round's prices were.
LEMMA OraclesStay ==
  ASSUME PricesTyped, WorldOK, OraclesOK, [Next]_vars
  PROVE  OraclesOK'
<1>1. CASE RoundOracles
  <2>1. oc' = LoadOracles(rc, acct, chains, now) /\ loadedAt' = now
    BY <1>1 DEF RoundOracles
  <2>2. Recent(oc', loadedAt')
    BY <2>1, LoadedIs
  <2>. QED BY <2>2 DEF OraclesOK
<1>2. ASSUME UNCHANGED <<oc, loadedAt>>, pc' \in {"bootstrap", "verify", "queue"} => pc \in {"bootstrap", "verify", "queue"}
      PROVE  OraclesOK'
  BY <1>2 DEF OraclesOK
<1>3. ASSUME pc' \notin {"bootstrap", "verify", "queue"} PROVE OraclesOK'
  BY <1>3 DEF OraclesOK
<1>4. \/ RoundOracles \/ pc' \notin {"bootstrap", "verify", "queue"}
      \/ UNCHANGED <<oc, loadedAt>> /\ (pc' \in {"bootstrap", "verify", "queue"} => pc \in {"bootstrap", "verify", "queue"})
  BY DEF Next, vars, roundVars, RoundBegins, RoundReserves, Bootstrap, VerifyAndWrite, BuildQueue, Fails,
         LiveBegins, LiveReserves, LiveOracles, Delivered, Publishes, Tick, Restart
<1>. QED BY <1>1, <1>2, <1>3, <1>4


-----------------------------------------------------------------------------
(* A round's candidates, its file and its queue.                            *)

\* A round begins with an empty ranking.
LEMMA NothingRanked == Ranking(<<>>) /\ Ordered(<<>>)
BY DEF Ranking, Ordered

\* The head of a ranking.
LEMMA TopIs ==
  ASSUME NEW list, Ranking(list)
  PROVE  LET n == Least(TopN, Len(list))
         IN /\ n \in Nat /\ n <= Len(list) /\ Len(list) \in Nat /\ (n = TopN \/ n = Len(list))
            /\ DOMAIN Top(list) = 1..n /\ DOMAIN list = 1..Len(list)
            /\ \A i \in 1..n : Top(list)[i] = list[i]
<1>. DEFINE n == Least(TopN, Len(list))
<1>1. Len(list) \in Nat /\ DOMAIN list = 1..Len(list) /\ list \in Seq(Range(list))
  BY DEF Ranking
<1>2. n \in Nat /\ n <= Len(list) /\ (n = TopN \/ n = Len(list))
  BY <1>1, LimitsAssumption DEF Least
<1>. HIDE DEF n
<1>3. /\ DOMAIN SubSeq(list, 1, n) = 1..n
      /\ \A i \in 1..n : SubSeq(list, 1, n)[i] = list[i]
  <2>1. \A i \in 1..n : list[i] \in Range(list)
    <3>1. \A i \in 1..n : i \in 1..Len(list)
      <4>1. n \in Nat /\ Len(list) \in Nat /\ n <= Len(list)
        BY <1>1, <1>2
      <4>. QED BY <4>1
    <3>2. \A i \in 1..n : i \in DOMAIN list
      BY <1>1, <3>1, Zenon
    <3>. QED BY <3>2, Zenon DEF Range
  <2>. DEFINE head == SubSeq(list, 1, n)
  <2>2. /\ head \in Seq(Range(list)) /\ Len(head) = IF 1 <= n THEN n - 1 + 1 ELSE 0
        /\ \A i \in 1..(n - 1 + 1) : head[i] = list[1 + i - 1]
    BY <1>2, <2>1, SubSeqProperties
  <2>. HIDE DEF head
  <2>3. Len(head) = n /\ n - 1 + 1 = n /\ \A i \in 1..n : 1 + i - 1 = i
    BY <1>2, <2>2
  <2>4. DOMAIN head = 1..n
    BY <2>2, <2>3
  <2>5. \A i \in 1..n : head[i] = list[i]
    BY <2>2, <2>3
  <2>. QED BY <2>4, <2>5 DEF head
<1>. QED BY <1>1, <1>2, <1>3 DEF Top, n

\* A ranking of sound candidates is sound.
LEMMA SelectedSound ==
  ASSUME ForecastsOK, NEW cands, Keyed(cands), NEW known \in SUBSET DOMAIN Obs, NEW t \in Int, NEW r, NEW p, NEW s,
         \A c \in cands : Sound(c, r, p, s, known),
         NEW mode, NEW list \in SelectCandidates(mode, forecasts, cands, t)
  PROVE  /\ Ranking(list) /\ (mode = "ev" => Ordered(list))
         /\ \A i \in DOMAIN list : IsRecord(list[i]) /\ Sound(list[i], r, p, s, known)
         /\ \A i \in DOMAIN list : list[i].forecast # None => t - list[i].forecast.since <= ForecastTtl
<1>1. \A c \in cands : c.key \in DOMAIN Obs
  BY DEF Sound
<1>2. /\ Ranking(list) /\ (mode = "ev" => Ordered(list))
      /\ \A i \in DOMAIN list :
           /\ IsRecord(list[i])
           /\ list[i].forecast # None
                => mode = "ev" /\ list[i].forecast = ForecastsAfter(mode, forecasts, cands, t)[list[i].key]
           /\ \E c \in cands : /\ list[i].key = c.key /\ list[i].hr = c.hr
                               /\ list[i].eligible = c.eligible /\ list[i].verified = c.verified
  BY <1>1, RankingOfSelected
<1>3. mode = "ev" => \A c \in cands : t - ForecastsAfter(mode, forecasts, cands, t)[c.key].since <= ForecastTtl
  BY <1>1, ForecastsRecent DEF ForecastsOK
<1>4. ASSUME NEW i \in DOMAIN list PROVE Sound(list[i], r, p, s, known)
  <2>1. PICK c \in cands : /\ list[i].key = c.key /\ list[i].hr = c.hr
                           /\ list[i].eligible = c.eligible /\ list[i].verified = c.verified
    BY <1>2
  <2>2. Sound(c, r, p, s, known)
    OBVIOUS
  <2>. QED BY <2>1, <2>2, Zenon DEF Sound
<1>5. ASSUME NEW i \in DOMAIN list, list[i].forecast # None PROVE t - list[i].forecast.since <= ForecastTtl
  BY <1>2, <1>3, <1>5
<1>. QED BY <1>2, <1>4, <1>5

\* What a bootstrap leaves.
LEMMA Bootstrapped ==
  ASSUME ForecastsOK, now \in Int, NEW answered \in SUBSET DOMAIN Obs, Bootstrap(answered)
  PROVE  /\ scored' \subseteq DOMAIN Obs /\ Ranking(ranked') /\ (ranking = "ev" => Ordered(ranked'))
         /\ \A i \in DOMAIN ranked' : IsRecord(ranked'[i]) /\ Sound(ranked'[i], rc, oc, source, scored')
         /\ ForecastsOK'
         /\ (pc' = "queue" /\ scored' = {}) \/ pc' = "verify"
<1>. DEFINE obs == [o \in answered |-> Obs[o]]
            cands == FilterCandidatesBySelectedLegUsd(Candidates(obs, rc, oc, source))
<1>1. /\ Keyed(cands)
      /\ \A c \in cands : Sound(c, rc, oc, source, {o \in answered : Scored(Obs[o], rc, oc, source) # None})
  BY BootstrapSound
<1>2. /\ scored' = {o \in answered : Scored(Obs[o], rc, oc, source) # None}
      /\ \/ pc' = "queue" /\ scored' = {} /\ ranked' = <<>> /\ forecasts' = forecasts
         \/ /\ pc' = "verify" /\ forecasts' = ForecastsAfter(ranking, forecasts, cands, now)
            /\ ranked' \in SelectCandidates(ranking, forecasts, cands, now)
  BY DEF Bootstrap
<1>. HIDE DEF cands
<1>3. scored' \in SUBSET DOMAIN Obs
  BY <1>2
<1>4. \A c \in cands : Sound(c, rc, oc, source, scored')
  BY <1>1, <1>2
<1>5. CASE ranked' = <<>> /\ forecasts' = forecasts
  BY <1>2, <1>3, <1>5, NothingRanked DEF ForecastsOK
<1>6. CASE /\ forecasts' = ForecastsAfter(ranking, forecasts, cands, now)
           /\ ranked' \in SelectCandidates(ranking, forecasts, cands, now)
  <2>1. /\ Ranking(ranked') /\ (ranking = "ev" => Ordered(ranked'))
        /\ \A i \in DOMAIN ranked' : IsRecord(ranked'[i]) /\ Sound(ranked'[i], rc, oc, source, scored')
    BY <1>1, <1>3, <1>4, <1>6, SelectedSound
  <2>2. \A c \in cands : c.key \in DOMAIN Obs
    BY <1>3, <1>4 DEF Sound
  <2>3. DOMAIN forecasts' = DOMAIN Obs /\ \A o \in DOMAIN Obs : Stamped(forecasts'[o])
    BY <1>6, <2>2, ForecastsRecent DEF ForecastsOK
  <2>. QED BY <1>2, <1>3, <2>1, <2>3 DEF ForecastsOK
<1>. QED BY <1>2, <1>5, <1>6

\* What the verification and the second ranking leave.
LEMMA VerifiedAndWritten ==
  ASSUME ForecastsOK, RoundOK, now \in Int, VerifyAndWrite
  PROVE  /\ Ranking(ranked') /\ (ranking = "ev" => Ordered(ranked'))
         /\ \A i \in DOMAIN ranked' : IsRecord(ranked'[i]) /\ Sound(ranked'[i], rc, oc, source, scored)
         /\ \A i \in DOMAIN ranked' :
              ranked'[i].forecast # None => now - ranked'[i].forecast.since <= ForecastTtl
         /\ ForecastsOK'
<1>1. \E answer : LET cands == {Verified(ranked[i], answer[i], source) : i \in DOMAIN ranked}
                  IN /\ ranked' \in SelectCandidates(ranking, forecasts, cands, now)
                     /\ forecasts' = ForecastsAfter(ranking, forecasts, cands, now)
  BY Zenon DEF VerifyAndWrite
<1>1a. PICK answer : LET cands == {Verified(ranked[i], answer[i], source) : i \in DOMAIN ranked}
                     IN /\ ranked' \in SelectCandidates(ranking, forecasts, cands, now)
                        /\ forecasts' = ForecastsAfter(ranking, forecasts, cands, now)
  BY <1>1, Zenon
<1>. DEFINE after(i) == Verified(ranked[i], answer[i], source)
            cands == {after(i) : i \in DOMAIN ranked}
<1>2. /\ ranked' \in SelectCandidates(ranking, forecasts, cands, now)
      /\ forecasts' = ForecastsAfter(ranking, forecasts, cands, now)
  BY <1>1a
<1>3. ASSUME NEW i \in DOMAIN ranked
      PROVE  Sound(after(i), rc, oc, source, scored) /\ after(i).key = ranked[i].key
  <2>1. IsRecord(ranked[i]) /\ Sound(ranked[i], rc, oc, source, scored)
    BY DEF RoundOK
  <2>. QED BY <2>1, VerifiedSound
<1>4. Keyed(cands)
  <2>. HIDE DEF after
  <2>1. ASSUME NEW i \in DOMAIN ranked, NEW j \in DOMAIN ranked, after(i).key = after(j).key
        PROVE  after(i) = after(j)
    BY <1>3, <2>1 DEF RoundOK, Ranking
  <2>. QED BY <2>1 DEF Keyed
<1>5. \A c \in cands : Sound(c, rc, oc, source, scored)
  BY <1>3
<1>. HIDE DEF cands
<1>6. scored \in SUBSET DOMAIN Obs
  BY DEF RoundOK
<1>7. /\ Ranking(ranked') /\ (ranking = "ev" => Ordered(ranked'))
      /\ \A i \in DOMAIN ranked' : IsRecord(ranked'[i]) /\ Sound(ranked'[i], rc, oc, source, scored)
      /\ \A i \in DOMAIN ranked' :
           ranked'[i].forecast # None => now - ranked'[i].forecast.since <= ForecastTtl
  BY <1>2, <1>4, <1>5, <1>6, SelectedSound
<1>8. \A c \in cands : c.key \in DOMAIN Obs
  BY <1>5, <1>6 DEF Sound
<1>9. ForecastsOK'
  <2>1. DOMAIN forecasts' = DOMAIN Obs /\ \A o \in DOMAIN Obs : Stamped(forecasts'[o])
    BY <1>2, <1>8, ForecastsRecent DEF ForecastsOK
  <2>. QED BY <2>1 DEF ForecastsOK
<1>. QED BY <1>7, <1>9

\* No step breaks the forecast cache,
LEMMA ForecastsStay ==
  ASSUME ForecastsOK, RoundOK, now \in Int, [Next]_vars
  PROVE  ForecastsOK'
<1>1. ASSUME NEW answered \in SUBSET DOMAIN Obs, Bootstrap(answered) PROVE ForecastsOK'
  BY <1>1, Bootstrapped
<1>2. CASE VerifyAndWrite
  BY <1>2, VerifiedAndWritten
<1>3. CASE Restart
  BY <1>3 DEF Restart, NoForecasts, ForecastsOK, Stamped
<1>4. ASSUME UNCHANGED forecasts PROVE ForecastsOK'
  BY <1>4 DEF ForecastsOK
<1>5. \/ UNCHANGED forecasts \/ VerifyAndWrite \/ Restart \/ \E answered \in SUBSET DOMAIN Obs : Bootstrap(answered)
  BY DEF Next, vars, roundVars, RoundBegins, RoundReserves, RoundOracles, BuildQueue, Fails,
         LiveBegins, LiveReserves, LiveOracles, Delivered, Publishes, Tick
<1>. QED BY <1>1, <1>2, <1>3, <1>4, <1>5

\* the round's candidates,
LEMMA RoundStays ==
  ASSUME ForecastsOK, RoundOK, now \in Int, [Next]_vars
  PROVE  RoundOK'
<1>1. ASSUME NEW answered \in SUBSET DOMAIN Obs, Bootstrap(answered) PROVE RoundOK'
  <2>1. /\ scored' \subseteq DOMAIN Obs /\ Ranking(ranked') /\ (ranking = "ev" => Ordered(ranked'))
        /\ \A i \in DOMAIN ranked' : IsRecord(ranked'[i]) /\ Sound(ranked'[i], rc, oc, source, scored')
        /\ pc' \in {"queue", "verify"}
    BY <1>1, Bootstrapped
  <2>2. UNCHANGED <<rc, oc, source, ranking>>
    BY <1>1 DEF Bootstrap, worldVars
  <2>. QED BY <2>1, <2>2 DEF RoundOK
<1>2. CASE VerifyAndWrite
  <2>1. /\ Ranking(ranked') /\ (ranking = "ev" => Ordered(ranked'))
        /\ \A i \in DOMAIN ranked' : IsRecord(ranked'[i]) /\ Sound(ranked'[i], rc, oc, source, scored)
    BY <1>2, VerifiedAndWritten
  <2>2. UNCHANGED <<rc, oc, source, ranking, scored>> /\ pc' = "queue"
    BY <1>2 DEF VerifyAndWrite, worldVars
  <2>. QED BY <2>1, <2>2 DEF RoundOK
<1>3. ASSUME ranked' = <<>>, scored' \in {{}, scored} PROVE RoundOK'
  BY <1>3, NothingRanked DEF RoundOK
<1>4. ASSUME UNCHANGED <<pc, rc, oc, source, ranking, scored, ranked>> PROVE RoundOK'
  BY <1>4 DEF RoundOK
<1>5. CASE RoundBegins \/ RoundReserves \/ RoundOracles
  <2>1. ranked' = ranked /\ scored' = scored /\ pc \notin {"verify", "queue"}
    BY <1>5 DEF RoundBegins, RoundReserves, RoundOracles
  <2>. QED BY <1>3, <2>1 DEF RoundOK
<1>6. CASE BuildQueue \/ Fails \/ Restart
  BY <1>3, <1>6 DEF BuildQueue, Fails, Restart, Forgotten
<1>7. \/ UNCHANGED <<pc, rc, oc, source, ranking, scored, ranked>>
      \/ VerifyAndWrite \/ (\E answered \in SUBSET DOMAIN Obs : Bootstrap(answered))
      \/ RoundBegins \/ RoundReserves \/ RoundOracles \/ BuildQueue \/ Fails \/ Restart
  BY DEF Next, vars, worldVars, roundVars, LiveBegins, LiveReserves, LiveOracles, Delivered, Publishes, Tick
<1>. QED BY <1>1, <1>2, <1>4, <1>5, <1>6, <1>7

\* the file
LEMMA FileStays ==
  ASSUME ForecastsOK, RoundOK, LoadsOK, now \in Int, FileOK, [Next]_vars
  PROVE  FileOK'
<1>1. ASSUME NEW answered \in SUBSET DOMAIN Obs, Bootstrap(answered) PROVE FileOK'
  <2>1. (pc' = "queue" /\ scored' = {}) \/ pc' = "verify"
    BY <1>1, Bootstrapped
  <2>2. pc = "bootstrap" /\ UNCHANGED <<round, file>>
    BY <1>1 DEF Bootstrap
  <2>. QED BY <2>1, <2>2 DEF FileOK, LoadsOK
<1>2. CASE VerifyAndWrite
  <2>1. /\ Ranking(ranked')
        /\ \A i \in DOMAIN ranked' :
             ranked'[i].forecast # None => now - ranked'[i].forecast.since <= ForecastTtl
    BY <1>2, VerifiedAndWritten
  <2>2. /\ file' = [round |-> round, at |-> now, top |-> Top(ranked')]
        /\ round' = round /\ pc' = "queue"
    BY <1>2 DEF VerifyAndWrite, Written, Top
  <2>3. file'.round = round /\ file'.at = now /\ file'.top = Top(ranked')
    BY <2>2
  <2>. DEFINE n == Least(TopN, Len(ranked'))
              top == Top(ranked')
  <2>4. /\ n \in Nat /\ n <= Len(ranked') /\ Len(ranked') \in Nat
        /\ DOMAIN top = 1..n /\ DOMAIN ranked' = 1..Len(ranked')
        /\ \A i \in 1..n : top[i] = ranked'[i]
    BY <2>1, TopIs
  <2>. HIDE DEF n, top
  <2>5. \A i \in 1..n : i \in DOMAIN ranked'
    BY <2>4
  <2>6. \A i \in DOMAIN top : top[i].forecast # None => now - top[i].forecast.since <= ForecastTtl
    BY <2>1, <2>4, <2>5
  <2>7. \A i, j \in DOMAIN top : top[i].key = top[j].key => i = j
    BY <2>1, <2>4, <2>5 DEF Ranking
  <2>8. round \in 0..round
    BY BoundsAssumption DEF LoadsOK
  <2>. QED BY <2>2, <2>3, <2>6, <2>7, <2>8 DEF FileOK, top
<1>3. CASE RoundBegins
  BY <1>3 DEF RoundBegins, FileOK, LoadsOK
<1>4. CASE RoundReserves \/ RoundOracles
  BY <1>4 DEF RoundReserves, RoundOracles, FileOK
<1>5. ASSUME pc' = "idle", UNCHANGED <<file, round>> PROVE FileOK'
  BY <1>5 DEF FileOK
<1>6. CASE BuildQueue \/ Fails \/ Restart
  BY <1>5, <1>6 DEF BuildQueue, Fails, Restart
<1>7. ASSUME UNCHANGED <<pc, round, scored, ranked, file>> PROVE FileOK'
  BY <1>7 DEF FileOK
<1>8. \/ UNCHANGED <<pc, round, scored, ranked, file>>
      \/ VerifyAndWrite \/ (\E answered \in SUBSET DOMAIN Obs : Bootstrap(answered))
      \/ RoundBegins \/ RoundReserves \/ RoundOracles \/ BuildQueue \/ Fails \/ Restart
  BY DEF Next, vars, roundVars, LiveBegins, LiveReserves, LiveOracles, Delivered, Publishes, Tick
<1>. QED BY <1>1, <1>2, <1>3, <1>4, <1>6, <1>7, <1>8

\* or the queue.
LEMMA QueueStays ==
  ASSUME FileOK, QueueOK, [Next]_vars
  PROVE  QueueOK'
<1>1. CASE BuildQueue
  <2>1. file # None /\ queue' = {BuildPlanFromCandidate(c) : c \in FilterCandidates(file.top)}
    BY <1>1 DEF BuildQueue
  <2>2. FilterCandidates(file.top) \subseteq Range(file.top)
    BY DEF FilterCandidates
  <2>3. ASSUME NEW c \in Range(file.top), NEW d \in Range(file.top), c.key = d.key PROVE c = d
    BY <2>1, <2>3 DEF FileOK, Range
  <2>4. \A c : BuildPlanFromCandidate(c).key = c.key
    BY DEF BuildPlanFromCandidate
  <2>. QED BY <2>1, <2>2, <2>3, <2>4 DEF QueueOK
<1>2. ASSUME UNCHANGED queue PROVE QueueOK'
  BY <1>2 DEF QueueOK
<1>3. UNCHANGED queue \/ BuildQueue
  BY DEF Next, vars, roundVars, RoundBegins, RoundReserves, RoundOracles, Bootstrap, VerifyAndWrite, Fails,
         LiveBegins, LiveReserves, LiveOracles, Delivered, Publishes, Tick, Restart
<1>. QED BY <1>1, <1>2, <1>3

-----------------------------------------------------------------------------
(* Theorems.                                                                *)

LEMMA InitInv == Init => IInv
<1>. SUFFICES ASSUME Init PROVE IInv
  OBVIOUS
<1>1. PricesTyped
  BY StartTyped
<1>2. WorldOK
  <2>1. PICK p \in StartPrices : acct = [m \in Mints |-> [p[m] EXCEPT !.ts = 1]]
    BY DEF Init
  <2>2. p \in [Mints -> Account]
    BY PublishedAssumption
  <2>3. \A m \in Mints : acct[m].ts = 1
    BY <2>1, <2>2 DEF Account
  <2>4. IsFiniteSet(wire) /\ Cardinality(wire) = 0
    BY FS_EmptySet DEF Init
  <2>. QED BY <2>3, <2>4, BoundsAssumption DEF Init, WorldOK
<1>3. CachesOK
  BY EmptyCache DEF Init, CachesOK
<1>4. LoadsOK
  BY BoundsAssumption DEF Init, LoadsOK, NoReserves, Outcome
<1>5. OraclesOK /\ QueueOK /\ FileOK
  BY DEF Init, OraclesOK, QueueOK, FileOK
<1>6. RoundOK
  BY NothingRanked DEF Init, RoundOK
<1>7. ForecastsOK
  BY DEF Init, NoForecasts, ForecastsOK, Stamped
<1>. QED BY <1>1, <1>2, <1>3, <1>4, <1>5, <1>6, <1>7 DEF IInv

LEMMA NextInv == IInv /\ [Next]_vars => IInv'
<1>. SUFFICES ASSUME IInv, [Next]_vars PROVE IInv'
  OBVIOUS
<1>1. now \in Int
  BY DEF IInv, PricesTyped
<1>2. PricesTyped' /\ WorldOK' /\ CachesOK' /\ LoadsOK' /\ OraclesOK'
  BY StepTyped, WorldStays, CachesStay, LoadsStay, OraclesStay DEF IInv
<1>3. RoundOK' /\ ForecastsOK' /\ FileOK' /\ QueueOK'
  BY <1>1, RoundStays, ForecastsStay, FileStays, QueueStays DEF IInv
<1>. QED BY <1>2, <1>3 DEF IInv

\* The inductive invariant holds in every round, of every process.
THEOREM Inductive == Spec => []IInv
BY InitInv, NextInv, PTL DEF Spec

\* TypeOK: among other things no candidate is ranked twice, no obligation has
\* two plans, prices stay on their pegs and updates within their bound.
THEOREM TypeCorrect == Spec => []TypeOK
<1>1. IInv => TypeOK
  <2>. SUFFICES ASSUME IInv PROVE TypeOK
    OBVIOUS
  <2>1. WorldOK /\ CachesOK /\ LoadsOK /\ RoundOK /\ QueueOK
    BY DEF IInv
  <2>2. \A m \in Mints : \A cache \in {oc, live} :
          cache[m] # NoPrice => /\ cache[m].ts \in 0..now
                                /\ m \in Stable => cache[m].price \in StableLow..StableHigh
    BY <2>1 DEF CachesOK, Past
  <2>3. \A i, j \in DOMAIN ranked : ranked[i].key = ranked[j].key => i = j
    BY <2>1 DEF RoundOK, Ranking
  <2>. QED BY <2>1, <2>2, <2>3 DEF TypeOK, WorldOK, LoadsOK, RoundOK, QueueOK
<1>. QED BY <1>1, Inductive, PTL

\* TtlIsRecent: the cache may hand a time to liquidation on through any number of
\* rankings and rounds, it does not get older than FORECAST_TTL_MS.
THEOREM TtlStaysRecent == Spec => []TtlIsRecent
<1>1. IInv => TtlIsRecent
  BY DEF IInv, FileOK, TtlIsRecent
<1>. QED BY <1>1, Inductive, PTL

\* From its own file a round builds the queue of the first of its ranking, among
\* them all it takes for liquidatable.
LEMMA QueueIs ==
  ASSUME IInv, Requeues
  PROVE  LET n == Least(TopN, Len(ranked))
         IN /\ \A p \in queue' : \E i \in 1..n : p = BuildPlanFromCandidate(ranked[i])
            /\ \A i \in 1..n : ranked[i].eligible => BuildPlanFromCandidate(ranked[i]) \in queue'
            /\ n \in Nat /\ n <= Len(ranked) /\ Len(ranked) \in Nat /\ DOMAIN ranked = 1..Len(ranked)
<1>. DEFINE n == Least(TopN, Len(ranked))
            top == Top(ranked)
<1>1. Ranking(ranked) /\ file # None /\ file.round = round /\ pc = "queue"
  BY DEF IInv, RoundOK, Requeues, BuildQueue
<1>2. file.top = top
  BY <1>1 DEF IInv, FileOK
<1>3. /\ n \in Nat /\ n <= Len(ranked) /\ Len(ranked) \in Nat
      /\ DOMAIN top = 1..n /\ DOMAIN ranked = 1..Len(ranked) /\ \A i \in 1..n : top[i] = ranked[i]
  BY <1>1, TopIs
<1>4. queue' = {BuildPlanFromCandidate(c) : c \in FilterCandidates(top)}
  BY <1>2 DEF Requeues, BuildQueue
<1>. HIDE DEF n, top
<1>5. \A c \in FilterCandidates(top) : \E i \in 1..n : c = ranked[i]
  BY <1>3 DEF FilterCandidates, Range
<1>6. \A i \in 1..n : ranked[i].eligible => ranked[i] \in FilterCandidates(top)
  BY <1>3 DEF FilterCandidates, Range
<1>. QED BY <1>3, <1>4, <1>5, <1>6 DEF n

\* QueuedWasPriced: no plan of a round rests on a leg without a usable, recent
\* price, whatever the stored numbers of the account say.
THEOREM QueueIsPriced == Spec => QueuedWasPriced
<1>. DEFINE Priced == \A p \in queue' : \A l \in Range(Obs[p.key].deposits) \union Range(Obs[p.key].borrows) :
                        Usable(l.mint, oc[l.mint]) /\ loadedAt - oc[l.mint].ts <= MaxAge[l.mint]
<1>1. ASSUME IInv, Requeues PROVE Priced
  <2>. SUFFICES ASSUME NEW p \in queue',
                       NEW l \in Range(Obs[p.key].deposits) \union Range(Obs[p.key].borrows)
                PROVE  Usable(l.mint, oc[l.mint]) /\ loadedAt - oc[l.mint].ts <= MaxAge[l.mint]
    OBVIOUS
  <2>1. PICK i \in DOMAIN ranked : p = BuildPlanFromCandidate(ranked[i])
    BY <1>1, QueueIs
  <2>2. p.key = ranked[i].key /\ Sound(ranked[i], rc, oc, source, scored)
    BY <1>1, <2>1 DEF BuildPlanFromCandidate, IInv, RoundOK
  <2>3. p.key \in DOMAIN Obs /\ Recomputed(Obs[p.key], rc, oc) # None
    BY <1>1, <2>2 DEF Sound, IInv, RoundOK
  <2>4. l.mint \in Mints
    BY <2>3, ObsAssumption
  <2>5. Usable(l.mint, oc[l.mint])
    BY <2>3, AllPriced DEF DepositPriced, BorrowPriced
  <2>6. oc[l.mint] # NoPrice /\ oc[l.mint].ts > 0 /\ oc[l.mint].ts \in 0..now
    BY <1>1, <2>4, <2>5 DEF Usable, IInv, CachesOK, Past
  <2>7. Recent(oc, loadedAt)
    BY <1>1 DEF IInv, OraclesOK, Requeues, BuildQueue
  <2>8. ~(oc[l.mint].ts <= 0)
    BY <2>6
  <2>. QED BY <2>4, <2>5, <2>6, <2>7, <2>8 DEF Recent
<1>2. IInv /\ [Next]_vars => [Requeues => Priced]_vars
  BY <1>1
<1>. QED BY <1>2, Inductive, PTL DEF Spec, QueuedWasPriced

\* LiquidatableFirst: with USE_EV_RANKING, however the rest compares, and even
\* where the comparator goes round in a circle.
THEOREM LiquidatableGoesFirst == Spec => LiquidatableFirst
<1>. DEFINE First == \A i \in DOMAIN ranked :
                       ranked[i].eligible /\ (\A p \in queue' : p.key # ranked[i].key)
                         => \A p \in queue' : p.eligible
<1>1. ASSUME IInv, Requeues, ranking = "ev" PROVE First
  <2>. DEFINE n == Least(TopN, Len(ranked))
  <2>1. /\ \A p \in queue' : \E i \in 1..n : p = BuildPlanFromCandidate(ranked[i])
        /\ \A i \in 1..n : ranked[i].eligible => BuildPlanFromCandidate(ranked[i]) \in queue'
        /\ n \in Nat /\ n <= Len(ranked) /\ Len(ranked) \in Nat /\ DOMAIN ranked = 1..Len(ranked)
    BY <1>1, QueueIs
  <2>. HIDE DEF n
  <2>2. \A c : BuildPlanFromCandidate(c).key = c.key /\ BuildPlanFromCandidate(c).eligible = c.eligible
    BY DEF BuildPlanFromCandidate
  <2>3. ASSUME NEW i \in DOMAIN ranked, ranked[i].eligible, \A p \in queue' : p.key # ranked[i].key,
               NEW p \in queue'
        PROVE  p.eligible
    <3>1. PICK j \in 1..n : p = BuildPlanFromCandidate(ranked[j])
      BY <2>1
    <3>2. ~(i \in 1..n)
      BY <2>1, <2>2, <2>3
    <3>3. j \in DOMAIN ranked /\ j \in 1..i
      BY <2>1, <3>2
    <3>4. RankBucket(ranked[j]) <= RankBucket(ranked[i])
      BY <1>1, <3>3, BucketsAscend DEF IInv, RoundOK
    <3>5. ranked[i].eligible = IsLiquidatable(ranked[i].hr) /\ ranked[j].eligible = IsLiquidatable(ranked[j].hr)
      BY <1>1, <3>3 DEF IInv, RoundOK, Sound
    <3>6. RankBucket(ranked[i]) = 0
      BY <2>3, <3>5, FirstBucket
    <3>7. RankBucket(ranked[j]) = 0
      BY <3>4, <3>6, BucketIsNat
    <3>8. ranked[j].eligible
      BY <3>5, <3>7, FirstBucket
    <3>. QED BY <2>2, <3>1, <3>8
  <2>. QED BY <2>3
<1>2. IInv /\ [Next]_vars => [Requeues /\ ranking = "ev" => First]_vars
  BY <1>1
<1>. QED BY <1>2, Inductive, PTL DEF Spec, LiquidatableFirst

\* VerdictDecides: neither the second ranking nor the file loses an answer.
THEOREM VerdictIsKept == Spec => VerdictDecides
<1>. DEFINE Decides == \A p \in queue' : \A i \in DOMAIN ranked :
                         ranked[i].key = p.key /\ ranked[i].verified # None
                           => p.eligible = IsLiquidatable(ranked[i].verified)
<1>1. ASSUME IInv, Requeues, source = "recomputed" PROVE Decides
  <2>. SUFFICES ASSUME NEW p \in queue', NEW i \in DOMAIN ranked,
                       ranked[i].key = p.key, ranked[i].verified # None
                PROVE  p.eligible = IsLiquidatable(ranked[i].verified)
    OBVIOUS
  <2>1. PICK j \in DOMAIN ranked : p = BuildPlanFromCandidate(ranked[j])
    BY <1>1, QueueIs
  <2>2. p.key = ranked[j].key /\ p.eligible = ranked[j].eligible
    BY <2>1 DEF BuildPlanFromCandidate
  <2>3. i = j
    BY <1>1, <2>2 DEF IInv, RoundOK, Ranking
  <2>4. Sound(ranked[i], rc, oc, source, scored)
    BY <1>1 DEF IInv, RoundOK
  <2>. QED BY <1>1, <2>2, <2>3, <2>4 DEF Sound
<1>2. IInv /\ [Next]_vars => [Requeues /\ source = "recomputed" => Decides]_vars
  BY <1>1
<1>. QED BY <1>2, Inductive, PTL DEF Spec, VerdictDecides

\* NoOldPlansOnceScored: also when the round ranked nobody.
THEOREM QueueIsOfTheRound == Spec => NoOldPlansOnceScored
<1>. DEFINE Own == file.round = round /\ \A p \in queue' : p.key \in scored
<1>1. ASSUME IInv, BuildQueue, scored # {} PROVE Own
  <2>1. file.round = round
    BY <1>1 DEF IInv, FileOK, BuildQueue
  <2>2. Requeues
    BY <1>1, <2>1 DEF Requeues
  <2>3. ASSUME NEW p \in queue' PROVE p.key \in scored
    <3>1. PICK i \in DOMAIN ranked : p = BuildPlanFromCandidate(ranked[i])
      BY <1>1, <2>2, QueueIs
    <3>2. p.key = ranked[i].key /\ Sound(ranked[i], rc, oc, source, scored)
      BY <1>1, <3>1 DEF BuildPlanFromCandidate, IInv, RoundOK
    <3>. QED BY <3>2 DEF Sound
  <2>. QED BY <2>1, <2>3
<1>2. IInv /\ [Next]_vars => [BuildQueue /\ scored # {} => Own]_vars
  BY <1>1
<1>. QED BY <1>2, Inductive, PTL DEF Spec, NoOldPlansOnceScored
=============================================================================
