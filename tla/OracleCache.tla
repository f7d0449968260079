----------------------------- MODULE OracleCache -----------------------------
(***************************************************************************)
(* The reserve and oracle caches: cache/reserveCache.ts and                *)
(* cache/oracleCache.ts.  They are filled once by whoever needs them, the  *)
(* candidate pipeline at every round and the realtime updater at startup,  *)
(* and the updater's copy then follows the account stream.  The map from a *)
(* Scope oracle to the price chains of its mints belongs to neither: it is *)
(* a global of the module, cleared and filled by every load of the         *)
(* reserves.                                                               *)
(*                                                                         *)
(* A reserve has one oracle and is named by its liquidity mint.  A price   *)
(* account is its content: a timestamp (0: none), a price, whether its     *)
(* confidence interval is too wide, and whether it decodes.                *)
(***************************************************************************)
EXTENDS Integers, Sequences, FiniteSets, SequencesExt, FiniteSetsExt

CONSTANTS Mints,      \* the liquidity mints of the market's reserves
          Kind,       \* the program that owns the oracle of each: "pyth", "switchboard" or "scope"
          Stable,     \* STABLECOIN_MINTS
          StableLow, StableHigh,   \* STABLECOIN_MIN_PRICE, STABLECOIN_MAX_PRICE
          Dollar,     \* a dollar, in the unit of prices
          PythUnit,   \* what the exponent of a Pyth feed makes of a price of 1
          MaxAge,     \* maxAgePriceSeconds of each reserve, or its oracle's default
          NoPrice     \* a mint that has no entry in a cache

ASSUME UnitsAssumption == Dollar \in Nat \ {0} /\ PythUnit \in Nat
ASSUME KindAssumption == Kind \in [Mints -> {"pyth", "switchboard", "scope"}]
ASSUME StableAssumption ==
  Stable \subseteq Mints /\ {StableLow, StableHigh} \subseteq Int /\ StableLow <= StableHigh

Account == [ts : Int, price : Int, wide : BOOLEAN, ok : BOOLEAN]
Price == [ts : Int, price : Int, wide : BOOLEAN]
ASSUME NoPriceAssumption == NoPrice \notin Price

\* What a load of the reserves can make of each: not there, there without an
\* exchange rate, or whole.
Outcome == {"missing", "unrated", "whole"}
Known(rc) == {m \in Mints : rc[m] # "missing"}
Rated(rc, m) == rc[m] = "whole"

\* The Scope mints a load of the reserves puts into the map.
ChainsOf(rc) == {m \in Known(rc) : Kind[m] = "scope"}

Age(p, now) == now - p.ts
Fresh(m, p, now) == p.ts <= 0 \/ Age(p, now) <= MaxAge[m]

\* A Pyth account must be trading, a Switchboard account have an answer, a Scope
\* chain give a positive price.
FeedDecodes(a) == a.ok
ScopeDecodes(a) == a.ok /\ a.price > 0
Decodes(m, a) == IF Kind[m] = "scope" THEN ScopeDecodes(a) ELSE FeedDecodes(a)

\* Mutant: the peg is not enforced.
ClampNot(m, price) == price
Clamp(m, price) ==
  IF m \notin Stable THEN price
  ELSE IF price < StableLow THEN StableLow ELSE IF price > StableHigh THEN StableHigh ELSE price

\* The price of a Pyth account is truncated to an integer, and read with the
\* feed's exponent as if it were its mantissa.
Mantissa(m, price) == IF Kind[m] = "pyth" THEN (price \div Dollar) * PythUnit ELSE price

\* The newer price is kept.  Mutant: the first one is.
MaybeSetMintPriceOnce(old, p) == IF old = NoPrice THEN p ELSE old
MaybeSetMintPrice(old, p) == IF old = NoPrice \/ p.ts > old.ts THEN p ELSE old

PriceOf(m, a) == [ts |-> a.ts, price |-> Clamp(m, Mantissa(m, a.price)), wide |-> a.wide]
FeedPrice(m, a, now) == IF FeedDecodes(a) /\ Fresh(m, a, now) THEN PriceOf(m, a) ELSE NoPrice

\* The mint must also have a chain in the map.
ScopePrice(m, a, chains, now) ==
  IF m \in chains /\ ScopeDecodes(a) /\ Fresh(m, a, now) THEN PriceOf(m, a) ELSE NoPrice

\* The price an account gives a mint, if any: by the program that owns it.
Assigned(m, a, chains, now) ==
  IF Kind[m] = "scope" THEN ScopePrice(m, a, chains, now) ELSE FeedPrice(m, a, now)

\* loadOracles, and what one account of the stream does to the updater's cache.
LoadOracles(rc, acct, chains, now) ==
  [m \in Mints |-> IF m \in Known(rc) THEN Assigned(m, acct[m], chains, now) ELSE NoPrice]
ApplyOracleAccountUpdate(cache, rc, chains, m, a, now) ==
  LET p == IF m \in Known(rc) THEN Assigned(m, a, chains, now) ELSE NoPrice
  IN IF p = NoPrice THEN cache ELSE [cache EXCEPT ![m] = MaybeSetMintPrice(@, p)]
=============================================================================
