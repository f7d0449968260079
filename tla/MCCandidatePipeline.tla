------------------------- MODULE MCCandidatePipeline -------------------------
(* CandidatePipeline on two mints and two obligations: TLC's constants only. *)
EXTENDS CandidatePipeline, TLC

CONSTANTS usd, sol, o1, o2

MCKind == usd :> "pyth" @@ sol :> "scope"
MCMaxAge == usd :> 2 @@ sol :> 1
MCThreshold == usd :> 90 @@ sol :> 80
MCFactor == usd :> 100 @@ sol :> 100
MCMinutesPerPct == usd :> 50 @@ sol :> 5
MCFile == <<o1, o2>>
MCMinBonus == [m \in Mints |-> 20]
MCMaxBonus == usd :> 50 @@ sol :> 60
MCProtocolFee == usd :> 0 @@ sol :> 100

Leg(m, a) == [mint |-> m, amount |-> a]
\* A small one that a rising SOL makes healthy, and a large one, worth more,
\* that it makes liquidatable.
MCObs ==
  o1 :> [deposits |-> <<Leg(sol, 100)>>, borrows |-> <<Leg(usd, 78)>>, stored |-> 990, storedDebt |-> 78]
  @@ o2 :> [deposits |-> <<Leg(usd, 10000)>>, borrows |-> <<Leg(sol, 9500)>>, stored |-> None, storedDebt |-> 0]

\* What the SDK, which prices USD off its peg, makes of them at either price of SOL.
MCKlendAnswers ==
  o1 :> {[raw |-> 972, debt |-> 74], [raw |-> 1081, debt |-> 74]}
  @@ o2 :> {[raw |-> 1000, debt |-> 8550], [raw |-> 900, debt |-> 9500]}

MCConfigs ==
  {[source |-> s, ranking |-> r] : s \in {"recomputed", "protocol"}, r \in {"ev", "priority"}}
    \ {[source |-> "protocol", ranking |-> "priority"]}

MCOutcomes == {[m \in Mints |-> "whole"], usd :> "unrated" @@ sol :> "missing"}

Published(p, w) == [ts |-> 0, price |-> p, wide |-> w, ok |-> TRUE]
\* SOL rises; USD is off its peg, with a narrow interval or a wide one.
MCNewPrices == usd :> {} @@ sol :> {Published(100, FALSE)}
MCStartPrices == {usd :> Published(95, w) @@ sol :> Published(90, FALSE) : w \in BOOLEAN}
=============================================================================
