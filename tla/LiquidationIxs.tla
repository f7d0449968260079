---------------------------- MODULE LiquidationIxs ----------------------------
(***************************************************************************)
(* The instructions of one liquidation: what kamino/liquidationBuilder.ts  *)
(* builds from two reads of the obligation and one of the wallet's token   *)
(* accounts, the order kamino/canonicalLiquidationIxs.ts puts it in, the   *)
(* window check of the same file, and the compute budget that              *)
(* execute/executor.ts replaces before every send.                         *)
(*                                                                         *)
(* Accounts, amounts and oracles are abstracted: an instruction is its     *)
(* kind, the reserves it names and one index.                              *)
(***************************************************************************)
EXTENDS Selections, SequencesExt

CONSTANTS Reserves,    \* the reserves of the lending market
          NoReserve,   \* a plan or an obligation that names no reserve
          NoMint,      \* a plan that names no mint
          Mint,        \* the liquidity mint of each reserve
          CollFarm,    \* the reserves with a farm for collateral
          DebtFarm,    \* the reserves with a farm for debt
          Worth,       \* the value of the wallet's leg in a reserve (the last resort of the choice)
          MaxFull      \* PRE_RESERVE_FULL_REFRESH_MAX_RESERVES

ASSUME NoReserveAssumption == NoReserve \notin Reserves
ASSUME MaxFullAssumption == MaxFull \in Nat \ {0}

Ix(kind, reserves, index) == [kind |-> kind, reserves |-> reserves, index |-> index]

\* The legs of an obligation slot array: all that name a reserve, and those
\* whose amount is not zero.
AllOf(legs) == [i \in DOMAIN legs |-> legs[i].reserve]
ActiveOf(legs) == AllOf(Kept(legs, {i \in DOMAIN legs : legs[i].active}))

\* What refreshObligation is given: the active slots or all of them, deposits
\* first; all of them when no slot is active.
RefreshList(ob, mode) ==
  LET active == ActiveOf(ob.deposits) \o ActiveOf(ob.borrows)
  IN IF mode = "active" /\ active # <<>> THEN active ELSE AllOf(ob.deposits) \o AllOf(ob.borrows)

First(s, fits) ==
  LET at == {i \in DOMAIN s : s[i] \in fits} IN IF at = {} THEN NoReserve ELSE s[Min(at)]
Worthiest(s) ==
  First(s, {r \in Range(s) : Worth[r] > 0 /\ \A q \in Range(s) : Worth[q] <= Worth[r]})

\* Mutant: a planned debt that is gone gives way to the one worth most.
PickedRepayOrWorthiest(ob, plan) ==
  LET legs == ActiveOf(ob.borrows)
      planned == First(legs, {plan.repay})
  IN IF planned # NoReserve THEN planned ELSE Worthiest(legs)

\* A plan's reserve must be one of the obligation's active legs; without one
\* the debt is found by mint, and else the leg worth most is taken.
PickedRepay(ob, plan) ==
  LET legs == ActiveOf(ob.borrows)
  IN IF plan.repay # NoReserve THEN First(legs, {plan.repay})
     ELSE IF plan.mint # NoMint THEN First(legs, {r \in Reserves : Mint[r] = plan.mint})
     ELSE Worthiest(legs)
PickedCollateral(ob, plan) ==
  LET legs == ActiveOf(ob.deposits)
  IN IF plan.collateral # NoReserve THEN First(legs, {plan.collateral})
     ELSE Worthiest(legs)

\* Mutant: only the two the liquidation touches, whatever the mode.
PairRefreshed(ob, pair, preMode) ==
  LET all == Once(ActiveOf(ob.deposits) \o ActiveOf(ob.borrows))
  IN Kept(all, {i \in DOMAIN all : all[i] \in pair})

\* The reserves refreshed first: each once, deposits before borrows, all of
\* them or only the two the liquidation touches.
PreRefreshed(ob, pair, preMode) ==
  LET all == Once(ActiveOf(ob.deposits) \o ActiveOf(ob.borrows))
  IN IF preMode = "all" \/ (preMode = "auto" /\ Len(all) <= MaxFull) THEN all
     ELSE Kept(all, {i \in DOMAIN all : all[i] \in pair})

FarmModes(repay, coll) ==
  (IF coll \in CollFarm THEN <<0>> ELSE <<>>) \o (IF repay \in DebtFarm THEN <<1>> ELSE <<>>)
FarmIxs(modes, repay, coll) ==
  [i \in DOMAIN modes |-> Ix("refreshFarms", <<IF modes[i] = 0 THEN coll ELSE repay>>, modes[i])]

Budget(price) ==
  <<Ix("computeBudget:limit", <<>>, 0)>>
    \o (IF price > 0 THEN <<Ix("computeBudget:price", <<>>, 0)>> ELSE <<>>)

\* A token account the wallet lacks is created first, in the order of the checks.
AtaChecks == <<"ata:repay", "ata:collateral", "ata:withdrawLiq">>
SetupIxs(missing) ==
  LET lacking == Kept(AtaChecks, {i \in DOMAIN AtaChecks : AtaChecks[i] \in missing})
  IN [i \in DOMAIN lacking |-> Ix(lacking[i], <<>>, 0)]

\* buildKaminoRefreshAndLiquidateIxsCanonical.  ob is the obligation as the SDK
\* loaded it, raw the same account as it was read again for its slots; opts
\* holds the parameters of the build.
Fails == [ok |-> FALSE]
Canonical(ob, raw, missing, plan, opts) ==
  LET repay == PickedRepay(ob, plan)
      coll == PickedCollateral(ob, plan)
      required == FarmModes(repay, coll)
      farms == FarmIxs(IF opts.noFarms THEN <<>> ELSE required, repay, coll)
      budget == IF opts.omit THEN <<>> ELSE Budget(opts.price)
      pre == PreRefreshed(ob, {repay, coll}, opts.pre)
  IN IF NoReserve \in {repay, coll} THEN Fails
     ELSE [ok |-> TRUE, repay |-> repay, coll |-> coll, required |-> required,
           hasFarms |-> farms # <<>>, setup |-> SetupIxs(missing),
           ixs |-> budget
             \o (IF opts.flash THEN <<Ix("flashBorrow", <<>>, 0)>> ELSE <<>>)
             \o [i \in DOMAIN pre |-> Ix("refreshReserve", <<pre[i]>>, 0)]
             \o <<Ix("refreshObligation", RefreshList(raw, opts.mode), 0)>>
             \o farms
             \o <<Ix("liquidate", <<repay, coll>>, 0)>>
             \o farms
             \o opts.swap
             \o (IF opts.flash THEN <<Ix("flashRepay", <<>>, Len(budget) + opts.offset)>> ELSE <<>>)]

\* Where an instruction of a kind stands, counted from 0 as the program counts.
Position(ixs, kind) ==
  LET at == {i \in DOMAIN ixs : ixs[i].kind = kind} IN IF at = {} THEN -1 ELSE Min(at) - 1

\* validateCompiledInstructionWindow: at least two reserve refreshes, the
\* obligation's, exactly one farm refresh when there must be any, and the same
\* number of them after the liquidation.
KindAt(ixs, i) == IF i \in DOMAIN ixs THEN ixs[i].kind ELSE "none"
ValidWindow(ixs, hasFarms, post) ==
  LET liq == Position(ixs, "liquidate") + 1
      refresh == IF hasFarms THEN liq - 2 ELSE liq - 1
  IN /\ liq > 0
     /\ hasFarms <=> KindAt(ixs, liq - 1) = "refreshFarms"
     /\ KindAt(ixs, refresh) = "refreshObligation"
     /\ \A back \in 1..2 : KindAt(ixs, refresh - back) = "refreshReserve"
     /\ post => /\ hasFarms
                /\ KindAt(ixs, liq + 1) = "refreshFarms"
                /\ KindAt(ixs, liq + 2) # "refreshFarms"

\* withUpdatedComputeBudget: the compute budget of a transaction that has one
\* is replaced; everything else stays as it was built.
IsBudget(ix) == ix.kind \in {"computeBudget:limit", "computeBudget:price"}
WithUpdatedComputeBudget(ixs, price) ==
  LET start == SelectInSeq(ixs, IsBudget)
      end == IF start = 0 THEN 0
             ELSE CHOOSE e \in start..Len(ixs) :
                    (\A i \in start..e : IsBudget(ixs[i])) /\ (e < Len(ixs) => ~IsBudget(ixs[e + 1]))
  IN IF start = 0 THEN ixs
     ELSE SubSeq(ixs, 1, start - 1) \o Budget(price) \o SubSeq(ixs, end + 1, Len(ixs))

\* The accounts a lookup table can shorten, in the order collectLutCandidateAddresses
\* meets them, and the size of a transaction that uses one: one unit for an
\* instruction, one for an account that is not in the table.
Candidates(ixs) == Once(FlattenSeq([i \in DOMAIN ixs |-> ixs[i].reserves]))
Accounts(ixs) == UNION {Range(ixs[i].reserves) : i \in DOMAIN ixs}
Bytes(ixs, table) == Len(ixs) + Cardinality(Accounts(ixs) \ Range(table))
=============================================================================
