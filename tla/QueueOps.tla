------------------------------ MODULE QueueOps ------------------------------
(***************************************************************************)
(* The transaction queue (data/tx_queue.json) as a value, and the five     *)
(* read-modify-write operations of scheduler/txScheduler.ts and            *)
(* forecast/forecastManager.ts as functions on that value.                 *)
(*                                                                         *)
(* A queue is a total function from plan keys to what the file holds for   *)
(* the key.  Keys are unique in the file: every plan comes from a map      *)
(* keyed by obligation.  The order of the array is left out.  A plan is    *)
(*   "live"    complete (isPlanComplete) and open for execution,           *)
(*   "blocked" complete, downgraded after an insufficient-rent setup,      *)
(*   "legacy"  missing a reserve or mint, so isPlanComplete rejects it.    *)
(***************************************************************************)
CONSTANT Keys

Complete == {"live", "blocked"}
Plan == Complete \union {"legacy"}

Snapshot == [Keys -> Plan \union {"absent"}]

\* What buildQueue and the shadow promotion hand over: freshly built plans,
\* none of them downgraded.
Built == [Keys -> {"live", "legacy", "absent"}]

EmptyQueue == [k \in Keys |-> "absent"]

PlanKeys(q) == {k \in Keys : q[k] # "absent"}

\* An operation with its arguments: its name, the keys it is about and the
\* plans it carries.  A refresh carries candidates: plans[k] is "absent" when
\* there is no candidate for k, "live" when the candidate also supplies the
\* reserves and the mint, "legacy" when it does not.
Op == [name : {"drop", "downgrade"}, keys : SUBSET Keys, plans : {EmptyQueue}]
        \union [name : {"replace", "enqueue"}, keys : {{}}, plans : Built]
        \union [name : {"refresh"}, keys : SUBSET Keys, plans : Built]

DropPlan(q, ks) == [k \in Keys |-> IF k \in ks THEN "absent" ELSE q[k]]

DowngradePlan(q, ks) ==
  [k \in Keys |-> IF k \in ks \intersect PlanKeys(q) THEN "blocked" ELSE q[k]]

\* recomputePlanFields: without a candidate the plan stays as it is; with one
\* the TTL and the eligibility are recomputed, so a downgraded plan becomes an
\* ordinary one again, and a candidate that has them fills missing fields in.
RecomputePlan(p, candidate) ==
  CASE candidate = "absent"                       -> p
    [] candidate # "absent" /\ p = "blocked"      -> "live"
    [] candidate = "live" /\ p = "legacy"         -> "live"
    [] OTHER                                      -> p

RefreshPlans(q, ks, candidates) ==
  [k \in Keys |-> IF k \in ks \intersect PlanKeys(q)
                  THEN RecomputePlan(q[k], candidates[k]) ELSE q[k]]

\* Complete plans of the file, then the complete new ones over them.
MergePlans(q, new) ==
  [k \in Keys |-> CASE new[k] \in Complete -> new[k]
                    [] new[k] \notin Complete /\ q[k] \in Complete -> q[k]
                    [] OTHER -> "absent"]

Apply(o, q) ==
  CASE o.name = "drop"      -> DropPlan(q, o.keys)
    [] o.name = "downgrade" -> DowngradePlan(q, o.keys)
    [] o.name = "refresh"   -> RefreshPlans(q, o.keys, o.plans)
    [] o.name = "replace"   -> o.plans
    [] o.name = "enqueue"   -> MergePlans(q, o.plans)

\* Whether the operation writes the file at all: a downgrade or a refresh that
\* finds none of its keys returns without saving.
Writes(o, q) ==
  o.name \in {"downgrade", "refresh"} => o.keys \intersect PlanKeys(q) # {}
=============================================================================
