----------------------------- MODULE MCPlanBuild -----------------------------
(* PlanBuild on a small market: TLC's constants only. *)
EXTENDS PlanBuild, TLC

CONSTANTS r1, r2, r3, m1, m2

MCMint == r1 :> m1 @@ r2 :> m2 @@ r3 :> m1
MCWorth == r1 :> 2 @@ r2 :> 1 @@ r3 :> 2

Slot(r, on) == [reserve |-> r, active |-> on]
\* The planned pair beside a slot that holds nothing; and the planned pair and
\* one more debt, which another plan is for.
MCObligations ==
  { [deposits |-> <<Slot(r3, FALSE), Slot(r1, TRUE)>>, borrows |-> <<Slot(r2, TRUE)>>],
    [deposits |-> <<Slot(r1, TRUE)>>, borrows |-> <<Slot(r2, TRUE), Slot(r3, TRUE)>>] }

Plan(repay, coll) == [repay |-> repay, collateral |-> coll, mint |-> NoMint]
\* Another mint, the same mint, and a plan without reserves.
MCPlans == {Plan(r2, r1), Plan(r3, r1), [repay |-> NoReserve, collateral |-> NoReserve, mint |-> m1]}
=============================================================================
