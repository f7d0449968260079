----------------------------- MODULE CandidateOps -----------------------------
(***************************************************************************)
(* From an obligation to a plan: the health ratio (math/health.ts,         *)
(* math/protocolHealth.ts, engine/liveObligationIndexer.ts), the legs and  *)
(* contexts (pipeline/buildCandidates.ts, predict/), the ranking           *)
(* (strategy/) and the scheduler's filter (scheduler/txFilters.ts).        *)
(*                                                                         *)
(* Amounts are whole dollars at price 100, health ratios, bonuses and fees *)
(* are per mille, times to liquidation are minutes, expected values cents; *)
(* what the code keeps of a unit's fraction is truncated here.             *)
(***************************************************************************)
EXTENDS OracleCache

CONSTANTS File,         \* obligations.jsonl: the obligations, in the order of their keys
          Allowed,      \* the execution allowlist of mints; {} when there is none
          UsdcMint, SolMint,
          Threshold, Factor,   \* liquidationThreshold and borrowFactor of each reserve, in percent
          MinBonus, MaxBonus, ProtocolFee,   \* of each reserve, taken as collateral
          CloseFactor, LegacyBonus, FullGap, FlashloanFee, Slippage, SameMintSlippage, GasUsd,   \* EV_*
          Alpha,        \* HAZARD_ALPHA
          MinutesPerPct, LegacyPerPct, MaxMove,   \* TTL_*
          Near, MinBorrow, MinRepayUsd, MinCollUsd, TopN, TopK,
          MinEv, MaxTtl, MinHazard,   \* SCHED_*
          ForecastTtl,  \* FORECAST_TTL_MS
          Pegged, SaneLow, SaneHigh,   \* the stablecoins of math/health.ts, and their sanity bounds
          None          \* no value

ASSUME LimitsAssumption == {TopN, TopK, ForecastTtl} \subseteq Nat

Least(a, b) == IF a < b THEN a ELSE b
Most(a, b) == IF a < b THEN b ELSE a
Total(legs, value(_)) == FoldLeft(LAMBDA sum, l : sum + value(l), 0, legs)

(***************************************************************************)
(* Health.                                                                 *)
(***************************************************************************)
\* validatedBaseUiPrice: a price with no timestamp, not positive, far off the peg
\* of a stablecoin (more of them than the cache clamps), or of a width that only
\* Pyth prices are held to, is as good as none.
Usable(m, p) ==
  /\ p # NoPrice /\ p.ts > 0 /\ p.price > 0
  /\ m \in Pegged => p.price \in SaneLow..SaneHigh
  /\ ~(Kind[m] = "pyth" /\ p.wide)

\* A deposit is priced through the exchange rate of its collateral, a borrow as
\* it is.
DepositPriced(l, rc, oc) == Rated(rc, l.mint) /\ Usable(l.mint, oc[l.mint])
BorrowPriced(l, rc, oc) == l.mint \in Known(rc) /\ Usable(l.mint, oc[l.mint])
Usd(l, oc) == (l.amount * oc[l.mint].price) \div 100
Weighted(l, weight, oc) == (Usd(l, oc) * weight[l.mint]) \div 100
RawRatio(coll, debt) == IF debt = 0 THEN 2000 ELSE (1000 * coll) \div debt
Clamped(raw) == Most(0, Least(2000, raw))

\* computeHealthRatio scores all legs or nothing.
Recomputed(ob, rc, oc) ==
  IF \/ \E l \in Range(ob.deposits) : ~DepositPriced(l, rc, oc)
     \/ \E l \in Range(ob.borrows) : ~BorrowPriced(l, rc, oc)
  THEN None
  ELSE LET coll == Total(ob.deposits, LAMBDA l : Weighted(l, Threshold, oc))
           debt == Total(ob.borrows, LAMBDA l : Weighted(l, Factor, oc))
       IN [raw |-> RawRatio(coll, debt), coll |-> coll, debt |-> debt,
           totalBorrow |-> Total(ob.borrows, LAMBDA l : Usd(l, oc))]

IsLiquidatable(hr) == hr < 1000

\* computeProtocolHealth: what the account stores, if it does.
ComputeProtocolHealth(ob) == IF ob.stored = None THEN None ELSE [raw |-> ob.stored, debt |-> ob.storedDebt]

\* computeHealthScoring, without an allowlist and without a slot hint, as the
\* pipeline runs it: "hybrid" is never fresh enough.  The numbers come from the
\* configured source, or from the other one; the raw ratio, which the estimates
\* read, is the recomputed one if there is one.
TouchesKnownReserve(ob, rc) == \E l \in Range(ob.deposits) \union Range(ob.borrows) : l.mint \in Known(rc)
FirstOf(a, b) == IF a # None THEN a ELSE b
Scored(ob, rc, oc, source) ==
  LET computed == Recomputed(ob, rc, oc)
      protocol == ComputeProtocolHealth(ob)
      used == IF source = "protocol" THEN FirstOf(protocol, computed) ELSE FirstOf(computed, protocol)
  IN IF ~TouchesKnownReserve(ob, rc) \/ used = None THEN None
     ELSE [hr |-> Clamped(used.raw), debt |-> used.debt, raw |-> FirstOf(computed, protocol).raw]

(***************************************************************************)
(* The candidate.                                                          *)
(***************************************************************************)
\* The leg that is repaid or seized: of an allowed mint and a reserve that was
\* loaded; the preferred mint, or else the first.
Selected(legs, preferred, rc) ==
  LET ok == SelectSeq(legs, LAMBDA l : l.mint \in Known(rc) /\ (Allowed = {} \/ l.mint \in Allowed))
      best == SelectSeq(ok, LAMBDA l : l.mint = preferred)
  IN IF best # <<>> THEN best[1] ELSE IF ok # <<>> THEN ok[1] ELSE None

\* buildPlanAwareEvContext and buildPairAwareTtlContext recompute the health
\* themselves: both are there only when every leg has a usable price.
EvContext(ob, rc, oc) ==
  [repayUsd |-> Usd(Selected(ob.borrows, UsdcMint, rc), oc),
   collUsd |-> Usd(Selected(ob.deposits, SolMint, rc), oc),
   totalBorrow |-> Total(ob.borrows, LAMBDA l : Usd(l, oc))]
TtlContext(ob, h, oc) ==
  [buffer |-> h.coll - h.debt,
   legs |-> {[usd |-> Weighted(l, Threshold, oc), mint |-> l.mint] : l \in Range(ob.deposits)}
              \union {[usd |-> Weighted(l, Factor, oc), mint |-> l.mint] : l \in Range(ob.borrows)}]
Contexts(ob, rc, oc) ==
  LET h == Recomputed(ob, rc, oc)
  IN IF h = None THEN None ELSE [ev |-> EvContext(ob, rc, oc), ttl |-> TtlContext(ob, h, oc)]

\* What buildCandidates makes of a scored obligation, when it has both legs.
Candidates(obs, rc, oc, source) ==
  LET scored(o) == Scored(obs[o], rc, oc, source)
      repay(o) == Selected(obs[o].borrows, UsdcMint, rc)
      coll(o) == Selected(obs[o].deposits, SolMint, rc)
      candidate(o, s) ==
        [key |-> o, hr |-> s.hr, raw |-> s.raw, debt |-> s.debt, eligible |-> IsLiquidatable(s.hr),
         repay |-> repay(o).mint, coll |-> coll(o).mint,
         ctx |-> Contexts(obs[o], rc, oc), verified |-> None]
  IN {LET s == scored(o) IN candidate(o, s) :
        o \in {x \in DOMAIN obs : None \notin {scored(x), repay(x), coll(x)}}}

\* Mutant: a candidate without contexts is let through.
FilterBySelectedLegsOrUnpriced(cands) ==
  {c \in cands : c.ctx # None => c.ctx.ev.repayUsd >= MinRepayUsd /\ c.ctx.ev.collUsd >= MinCollUsd}
FilterCandidatesBySelectedLegUsd(cands) ==
  {c \in cands : c.ctx # None /\ c.ctx.ev.repayUsd >= MinRepayUsd /\ c.ctx.ev.collUsd >= MinCollUsd}

(***************************************************************************)
(* Expected value and time to liquidation.                                 *)
(***************************************************************************)
\* Per mille, as the health ratio.
ScoreHazard(hr) == 1000000 \div (1000 + Alpha * Most(0, hr - 1000))

\* The bonus grows with the depth below 1; the protocol takes its share of it.
NetBonus(c) ==
  LET depth == Least(FullGap, Most(0, 1000 - c.raw))
      gross == MinBonus[c.coll] + ((MaxBonus[c.coll] - MinBonus[c.coll]) * depth) \div FullGap
  IN (gross * (1000 - ProtocolFee[c.coll])) \div 1000

\* Expected profit less cost, of a repayment of so many dollars.
Ev(c, repaid, profit, slippage) ==
  (ScoreHazard(c.raw) * profit) \div 1000 - (repaid * (FlashloanFee + slippage)) \div 10 - 100 * GasUsd
PlannedEv(c, cap) ==
  LET proceeds == Least(100 * c.ctx.ev.collUsd, (cap * (1000 + NetBonus(c))) \div 10)
  IN Ev(c, cap, Most(0, proceeds - 100 * cap), IF c.repay = c.coll THEN SameMintSlippage ELSE Slippage)

\* Without contexts, or with nothing to repay in them, the whole debt and one
\* bonus for all count.
LegacyEv(c) ==
  LET cap == (c.debt * CloseFactor) \div 100 IN Ev(c, cap, (cap * LegacyBonus) \div 10, Slippage)
EstimatePlanEv(c) ==
  LET cap == IF c.ctx = None THEN 0
             ELSE Least(c.ctx.ev.repayUsd, (c.ctx.ev.totalBorrow * CloseFactor) \div 100)
  IN IF cap > 0 THEN PlannedEv(c, cap) ELSE LegacyEv(c)

\* "now" is written as a word that is no number of minutes.  The move of one leg
\* that would use up the buffer counts up to MaxMove percent.
Now == -1
EstimateTtl(c) ==
  LET need == 100 * c.ctx.ttl.buffer
      moves == IF c.ctx = None THEN {}
               ELSE {(need * MinutesPerPct[l.mint]) \div l.usd :
                       l \in {x \in c.ctx.ttl.legs : x.usd > 0 /\ need <= MaxMove * x.usd}}
  IN IF c.raw <= 1000 \/ (c.ctx # None /\ c.ctx.ttl.buffer <= 0) THEN [minutes |-> Now, legacy |-> TRUE]
     ELSE IF moves # {} THEN [minutes |-> Min(moves), legacy |-> FALSE]
     ELSE [minutes |-> Least(MaxMove, (c.raw - 1000) \div 10) * LegacyPerPct, legacy |-> TRUE]
ParseTtlMinutes(ttl) == IF ttl = Now THEN {} ELSE {ttl}
Within(ttl, limit) == \E m \in ParseTtlMinutes(ttl) : m <= limit

(***************************************************************************)
(* Ranking.                                                                *)
(***************************************************************************)
\* The forecast cache: a time to liquidation is used again while it is recent
\* and the expected value is (to a cent) what it was.  (since, which no code
\* reads, is when it was estimated.)
Hit(entry, ev, now) == entry # None /\ now - entry.at <= ForecastTtl /\ entry.ev = ev
\* Mutant: an entry that is used again counts as new.
ForecastRestamped(entry, c, now) ==
  LET ev == EstimatePlanEv(c)
  IN IF Hit(entry, ev, now) THEN [entry EXCEPT !.at = now]
     ELSE [at |-> now, since |-> now, ev |-> ev,
           ttl |-> EstimateTtl(c).minutes, legacy |-> EstimateTtl(c).legacy]
Forecast(entry, c, now) ==
  LET ev == EstimatePlanEv(c)
  IN IF Hit(entry, ev, now) THEN entry
     ELSE [at |-> now, since |-> now, ev |-> ev,
           ttl |-> EstimateTtl(c).minutes, legacy |-> EstimateTtl(c).legacy]

\* priorityScore: how urgent an obligation is, times the logarithm of its size.
\* The logarithm is in tenths: ten to the decade, and the steps within one.
Steps == <<10, 13, 16, 20, 25, 32, 40, 50, 63, 79>>
Size(usd) ==
  LET decade == Cardinality({k \in 1..8 : 10^k <= Most(10, usd)})
  IN 10 * decade - 1 + Cardinality({i \in DOMAIN Steps : Steps[i] * 10^(decade - 1) <= Most(10, usd)})
PriorityScore(c) ==
  IF c.eligible THEN 1000 * (Most(0, 1000 - c.hr) + 1) * Size(c.debt)
  ELSE (1000 * Size(c.debt)) \div (Most(0, c.hr - 1000) + 1)

RankBucket(c) ==
  IF c.eligible \/ IsLiquidatable(c.hr) THEN 0
  ELSE IF c.hr <= Near \/ Within(c.forecast.ttl, 10) THEN 1
  ELSE IF Within(c.forecast.ttl, 60) THEN 2
  ELSE IF ~c.forecast.legacy THEN 3 ELSE 4

\* With USE_EV_RANKING: the first difference decides; two times are compared only
\* when both are numbers.
FirstDiffers(a, b) ==
  \E i \in DOMAIN a : a[i] < b[i] /\ \A j \in 1..(i - 1) : a[j] = b[j]
Position(o) == CHOOSE i \in DOMAIN File : File[i] = o
\* Mutant: the expected value alone decides.
BeforeByEv(a, b) ==
  FirstDiffers(<<-a.forecast.ev, Position(a.key)>>, <<-b.forecast.ev, Position(b.key)>>)
Before(a, b) ==
  LET timed == Now \notin {a.forecast.ttl, b.forecast.ttl}
      rank(c) == <<RankBucket(c), -c.forecast.ev, IF timed THEN c.forecast.ttl ELSE 0,
                   c.hr, -PriorityScore(c), Position(c.key)>>
  IN FirstDiffers(rank(a), rank(b))

\* Without: the priority score decides.
BeforeByPriority(a, b) == PriorityScore(a) > PriorityScore(b)

\* What Array.sort can leave: no candidate stands right before one that goes
\* before it.  That is one list, unless scores are equal, or times that are no
\* numbers make Before go round in a circle.
Rankings(ranking, cands) ==
  {list \in Bijection(1..Cardinality(cands), cands) :
     \A i \in 1..(Cardinality(cands) - 1) :
       ~(IF ranking = "ev" THEN Before(list[i + 1], list[i]) ELSE BeforeByPriority(list[i + 1], list[i]))}

\* selectCandidates: with USE_EV_RANKING it estimates, puts what it estimated into
\* the forecast cache, and leaves out small obligations that are not eligible;
\* without, it only sorts.
ForecastsAfter(ranking, forecasts, cands, now) ==
  [o \in DOMAIN forecasts |->
     IF ranking = "ev" /\ \E c \in cands : c.key = o
     THEN Forecast(forecasts[o], CHOOSE c \in cands : c.key = o, now)
     ELSE forecasts[o]]
SelectCandidates(ranking, forecasts, cands, now) ==
  LET after == ForecastsAfter(ranking, forecasts, cands, now)
  IN Rankings(ranking,
       {[key |-> c.key, hr |-> c.hr, raw |-> c.raw, debt |-> c.debt, eligible |-> c.eligible,
         repay |-> c.repay, coll |-> c.coll, ctx |-> c.ctx, verified |-> c.verified,
         forecast |-> IF ranking = "ev" THEN after[c.key] ELSE None] :
          c \in {x \in cands : ranking = "ev" => x.eligible \/ x.debt >= MinBorrow}})

\* Mutant: the verdict is noted, and eligibility left as it was.
VerifiedNotedOnly(c, answer, source) ==
  IF answer = None THEN c
  ELSE IF source # "recomputed" THEN [c EXCEPT !.verified = Clamped(answer.raw)]
  ELSE [c EXCEPT !.verified = Clamped(answer.raw), !.hr = Clamped(answer.raw),
                 !.raw = answer.raw, !.debt = answer.debt]

\* applyKlendSdkVerificationToCandidates: an answer replaces the numbers, but only
\* of a bot that scores by its own prices.
Verified(c, answer, source) ==
  IF answer = None THEN c
  ELSE IF source # "recomputed" THEN [c EXCEPT !.verified = Clamped(answer.raw)]
  ELSE [c EXCEPT !.verified = Clamped(answer.raw), !.hr = Clamped(answer.raw),
                 !.raw = answer.raw, !.debt = answer.debt,
                 !.eligible = IsLiquidatable(Clamped(answer.raw))]

\* filterCandidatesWithStats and buildPlanFromCandidate.  A file ranked without
\* USE_EV_RANKING has no estimates: the filter makes its own.
FileEv(c) == IF c.forecast = None THEN EstimatePlanEv(c) ELSE c.forecast.ev
FileTtl(c) == IF c.forecast = None THEN EstimateTtl(c).minutes ELSE c.forecast.ttl
FilterCandidates(top) ==
  {c \in Range(top) :
     c.eligible \/ (/\ c.debt > 0
                    /\ FileEv(c) > MinEv
                    /\ Within(FileTtl(c), MaxTtl)
                    /\ ScoreHazard(c.raw) > MinHazard)}
BuildPlanFromCandidate(c) ==
  [key |-> c.key, eligible |-> c.eligible, repay |-> c.repay, coll |-> c.coll, ttl |-> FileTtl(c)]
=============================================================================
