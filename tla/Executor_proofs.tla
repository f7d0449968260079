---------------------------- MODULE Executor_proofs ----------------------------
(***************************************************************************)
(* Executor, for every set of plans and callers and every attempt limit.   *)
(***************************************************************************)
EXTENDS Executor, FiniteSetTheorems, SequenceTheorems, TLAPS

Places == {"idle", "finalizing", "done"} \cup Working

PcOK == pc \in [Callers -> Places] /\ tickInProgress \in BOOLEAN

-----------------------------------------------------------------------------
(* What a step does to where the ticks are: whatever the plan meets, its   *)
(* tick goes on working, ends with the mutex freed, or was already over.   *)

Advances(t) == pc[t] \in Working /\ (\E l \in Working : Goto(t, l)) /\ UNCHANGED tickInProgress
Ends(t) ==
  /\ pc[t] \in Working /\ tickInProgress' = FALSE
  /\ \E l \in Places \ Working : Goto(t, l)
Settles(t) ==
  /\ pc[t] = "finalizing" /\ UNCHANGED tickInProgress
  /\ \E l \in {"idle", "done"} : Goto(t, l)
Stays == UNCHANGED <<pc, tickInProgress>>

LEMMA PlaceNames ==
  /\ {"idle", "finalizing", "done"} \cap Working = {}
  /\ Attempting \subseteq Working /\ {"reading", "verifying", "attempt"} \subseteq Working
BY DEF Working, Attempting

LEMMA EndsWhenReturning ==
  ASSUME NEW t \in Callers, pc[t] \in Working, Returns(t) \/ Finalizes(t)
  PROVE  Ends(t)
BY PlaceNames DEF Returns, Finalizes, Ends, Rest, Goto, Places

LEMMA MovesWhenContinuing ==
  ASSUME NEW t \in Callers, pc[t] \in Working, Continues(t)
  PROVE  Advances(t) \/ Ends(t)
BY PlaceNames, EndsWhenReturning DEF Continues, Advances

LEMMA EndsWhenRejecting ==
  ASSUME NEW t \in Callers, pc[t] \in Working, DropsOrRejects(t)
  PROVE  Advances(t) \/ Ends(t)
BY MovesWhenContinuing, EndsWhenReturning DEF DropsOrRejects

LEMMA MovesWhenStaying ==
  ASSUME NEW t \in Callers, pc[t] \in Working, NEW l \in Working, Goto(t, l), StaysOn(t)
  PROVE  Advances(t)
BY DEF Advances, StaysOn

LEMMA TickEffect ==
  ASSUME NEW t \in Callers, Tick(t)
  PROVE  Advances(t) \/ Ends(t) \/ Settles(t) \/ Stays
<1>1. CASE EndsEarly(t)
  BY <1>1, PlaceNames, EndsWhenReturning DEF EndsEarly
<1>2. CASE Filters(t)
  BY <1>2, PlaceNames DEF Filters, Advances
<1>3. CASE Verifies(t)
  BY <1>3 DEF Verifies, Stays
<1>4. CASE BeginsAttempts(t)
  BY <1>4, PlaceNames, EndsWhenReturning DEF BeginsAttempts, Advances
<1>5. CASE DropsIncomplete(t) \/ SkipsCooling(t) \/ SkipsUnfit(t)
  BY <1>5, PlaceNames, MovesWhenContinuing, EndsWhenRejecting DEF DropsIncomplete, SkipsCooling, SkipsUnfit
<1>6. CASE BeginsBuild(t)
  BY <1>6, PlaceNames, MovesWhenStaying DEF BeginsBuild, Attempting
<1>7. CASE Builds(t)
  BY <1>7, PlaceNames, MovesWhenStaying, EndsWhenReturning
     DEF Builds, Healthy, Reports, Attempting
<1>8. CASE ChecksFunds(t)
  BY <1>8, PlaceNames, MovesWhenStaying, EndsWhenReturning DEF ChecksFunds, Attempting
<1>9. CASE SimulatesAtomic(t)
  BY <1>9, PlaceNames, MovesWhenStaying, EndsWhenReturning
     DEF SimulatesAtomic, Healthy, Attempting
<1>10. CASE ChecksHealth(t)
  BY <1>10, PlaceNames, MovesWhenStaying, EndsWhenReturning
     DEF ChecksHealth, Healthy, Attempting
<1>11. CASE SentSetup(t) \/ Simulates(t)
  BY <1>11, PlaceNames, EndsWhenReturning
     DEF SentSetup, Simulates, Healthy, Reports, Attempting
<1>12. CASE Validates(t)
  BY <1>12, PlaceNames, MovesWhenStaying, EndsWhenReturning
     DEF Validates, Reports, Attempting
<1>13. CASE Sent(t) \/ Throws(t)
  BY <1>13, PlaceNames, EndsWhenReturning, MovesWhenContinuing, EndsWhenRejecting
     DEF Sent, Throws, Reports, Attempting
<1>14. CASE Finalized(t)
  BY <1>14 DEF Finalized, Settles, Rest
<1> QED
  BY <1>1, <1>2, <1>3, <1>4, <1>5, <1>6, <1>7, <1>8, <1>9, <1>10, <1>11, <1>12, <1>13, <1>14
     DEF Tick

-----------------------------------------------------------------------------
(* One tick works at a time.                                               *)

MutexInv == PcOK /\ OneTickWorks

LEMMA InitMutex == Init => MutexInv
BY PlaceNames DEF Init, MutexInv, PcOK, OneTickWorks, Places

LEMMA NextMutex == MutexInv /\ [Next]_vars => MutexInv'
<1> SUFFICES ASSUME MutexInv, [Next]_vars PROVE MutexInv'
  OBVIOUS
<1> USE PlaceNames DEF MutexInv, PcOK
<1>1. ASSUME NEW t \in Callers, Start(t) PROVE MutexInv'
  <2>1. pc' = [pc EXCEPT ![t] = "reading"] /\ tickInProgress' = TRUE /\ ~tickInProgress
    BY <1>1 DEF Start, Goto
  <2>2. \A u \in Callers : pc[u] \notin Working
    BY <2>1 DEF OneTickWorks
  <2>3. pc' \in [Callers -> Places]
    BY <2>1 DEF Places
  <2>4. \A u \in Callers : pc'[u] \in Working <=> u = t
    BY <2>1, <2>2
  <2> QED BY <2>1, <2>3, <2>4 DEF OneTickWorks
<1>2. ASSUME NEW t \in Callers, Tick(t) PROVE MutexInv'
  <2>1. CASE Advances(t)
    <3>1. PICK l \in Working : pc' = [pc EXCEPT ![t] = l]
      BY <2>1 DEF Advances, Goto
    <3>2. pc[t] \in Working /\ tickInProgress' = tickInProgress
      BY <2>1 DEF Advances
    <3>3. pc' \in [Callers -> Places]
      BY <3>1 DEF Places
    <3>4. \A u \in Callers : pc'[u] \in Working <=> pc[u] \in Working
      BY <3>1, <3>2
    <3> QED BY <3>2, <3>3, <3>4 DEF OneTickWorks
  <2>2. CASE Ends(t)
    <3>1. PICK l \in Places \ Working : pc' = [pc EXCEPT ![t] = l]
      BY <2>2 DEF Ends, Goto
    <3>2. pc[t] \in Working /\ tickInProgress' = FALSE
      BY <2>2 DEF Ends
    <3>3. pc' \in [Callers -> Places]
      BY <3>1
    <3>4. \A u \in Callers : pc'[u] \notin Working
      BY <3>1, <3>2 DEF OneTickWorks
    <3> QED BY <3>2, <3>3, <3>4 DEF OneTickWorks
  <2>3. CASE Settles(t)
    <3>1. PICK l \in {"idle", "done"} : pc' = [pc EXCEPT ![t] = l]
      BY <2>3 DEF Settles, Goto
    <3>2. pc[t] \notin Working /\ tickInProgress' = tickInProgress
      BY <2>3 DEF Settles
    <3>3. pc' \in [Callers -> Places]
      BY <3>1 DEF Places
    <3>4. \A u \in Callers : pc'[u] \in Working <=> pc[u] \in Working
      BY <3>1, <3>2
    <3> QED BY <3>2, <3>3, <3>4 DEF OneTickWorks
  <2>4. CASE Stays
    BY <2>4 DEF Stays, OneTickWorks
  <2> QED BY <1>2, <2>1, <2>2, <2>3, <2>4, TickEffect
<1>3. CASE Restart
  BY <1>3 DEF Restart, Places, OneTickWorks
<1>4. CASE UNCHANGED <<pc, tickInProgress>>
  BY <1>4 DEF OneTickWorks
<1>5. QueueChanges \/ (\E k \in Keys : CooldownElapses(k)) \/ UNCHANGED vars
        => UNCHANGED <<pc, tickInProgress>>
  BY DEF QueueChanges, CooldownElapses, tickVars, vars
<1> QED BY <1>1, <1>2, <1>3, <1>4, <1>5 DEF Next

\* Whatever the builder, the simulation, the cluster and the restarts do, at
\* most one tick of runDryExecutor works on the queue, and the mutex says so.
THEOREM OneTickAtATime == Spec => []OneTickWorks
<1>1. MutexInv => OneTickWorks
  BY DEF MutexInv
<1> QED BY <1>1, InitMutex, NextMutex, PTL DEF Spec

-----------------------------------------------------------------------------
(* What one tick may touch of the others, and where a build begins.        *)

LEMMA OthersStay ==
  ASSUME PcOK, NEW t \in Callers, Tick(t), NEW u \in Callers, u # t
  PROVE  pc'[u] = pc[u]
BY TickEffect DEF PcOK, Advances, Ends, Settles, Stays, Goto

\* Only BeginsBuild leads from an attempt to its build.
LEMMA BuildBegins ==
  ASSUME PcOK, [Next]_vars, NEW t \in Callers, pc[t] = "attempt", pc'[t] = "building"
  PROVE  BeginsBuild(t)
<1>1. ASSUME NEW u \in Callers, Start(u) PROVE FALSE
  BY <1>1 DEF Start, Goto, PcOK
<1>2. ASSUME NEW u \in Callers, Tick(u) PROVE BeginsBuild(t)
  <2>1. u = t
    BY <1>2, OthersStay
  <2>2. ~Continues(t) /\ ~DropsOrRejects(t)
    BY DEF DropsOrRejects, Continues, Returns, Rest, Goto, PcOK
  <2>3. ~DropsIncomplete(t) /\ ~SkipsCooling(t) /\ ~SkipsUnfit(t)
    BY <2>2 DEF DropsIncomplete, SkipsCooling, SkipsUnfit
  <2>4. ~EndsEarly(t) /\ ~Filters(t) /\ ~Verifies(t) /\ ~BeginsAttempts(t) /\ ~Finalized(t)
    BY DEF EndsEarly, Filters, Verifies, BeginsAttempts, Finalized
  <2>5. /\ ~Builds(t) /\ ~ChecksFunds(t) /\ ~SimulatesAtomic(t) /\ ~ChecksHealth(t)
        /\ ~SentSetup(t) /\ ~Validates(t) /\ ~Simulates(t) /\ ~Sent(t) /\ ~Throws(t)
    BY DEF Builds, ChecksFunds, SimulatesAtomic, ChecksHealth, SentSetup, Validates,
           Simulates, Sent, Throws, Attempting
  <2> QED BY <1>2, <2>1, <2>3, <2>4, <2>5 DEF Tick
<1>3. ~Restart
  BY DEF Restart
<1>4. ~QueueChanges /\ ~(\E k \in Keys : CooldownElapses(k)) /\ ~(UNCHANGED vars)
  BY DEF QueueChanges, CooldownElapses, tickVars, vars
<1> QED BY <1>1, <1>2, <1>3, <1>4 DEF Next

-----------------------------------------------------------------------------
(* The verdicts are remembered: what was found is in the cooldown map or in *)
(* the block list that the next attempt looks at.                          *)

Remembered == foundHealthy \subseteq healthyCooldown /\ foundPoor \subseteq blocked

Forgotten == UNCHANGED <<healthyCooldown, blocked, history>>

LEMMA TickRemembers ==
  ASSUME Remembered, NEW t \in Callers, Tick(t)
  PROVE  Remembered'
<1>1. CASE Healthy(t)
  BY <1>1 DEF Healthy, Remembered
<1>2. CASE Forgotten
  BY <1>2 DEF Forgotten, Remembered, history
<1>3. CASE ChecksFunds(t)
  BY <1>3 DEF ChecksFunds, Blocks, Remembered, memory, history
<1>4. CASE Builds(t) \/ ChecksHealth(t) \/ Simulates(t)
  BY <1>1, <1>2, <1>4 DEF Builds, ChecksHealth, Simulates, Reports, Forgotten, memory
<1>5. CASE SimulatesAtomic(t)
  BY <1>1, <1>2, <1>5 DEF SimulatesAtomic, Forgotten, memory
<1>6. CASE EndsEarly(t) \/ Filters(t) \/ Verifies(t) \/ BeginsAttempts(t) \/ Finalized(t)
  BY <1>2, <1>6 DEF EndsEarly, Filters, Verifies, BeginsAttempts, Finalized, Forgotten, memory
<1>7. CASE DropsIncomplete(t) \/ SkipsCooling(t) \/ SkipsUnfit(t) \/ BeginsBuild(t)
  BY <1>2, <1>7 DEF DropsIncomplete, SkipsCooling, SkipsUnfit, BeginsBuild, Forgotten, memory
<1>8. CASE SentSetup(t) \/ Validates(t) \/ Sent(t) \/ Throws(t)
  BY <1>2, <1>8 DEF SentSetup, Validates, Sent, Throws, Reports, Forgotten, memory
<1> QED BY <1>3, <1>4, <1>5, <1>6, <1>7, <1>8 DEF Tick

LEMMA NextRemembers == Remembered /\ [Next]_vars => Remembered'
<1> SUFFICES ASSUME Remembered, [Next]_vars PROVE Remembered'
  OBVIOUS
<1>1. ASSUME NEW t \in Callers, Start(t) PROVE Remembered'
  BY <1>1 DEF Start, Remembered, memory, history
<1>2. CASE QueueChanges \/ UNCHANGED vars
  BY <1>2 DEF QueueChanges, vars, Remembered, memory, history
<1>3. CASE Restart
  BY <1>3 DEF Restart, Remembered
<1>4. ASSUME NEW k \in Keys, CooldownElapses(k) PROVE Remembered'
  BY <1>4 DEF CooldownElapses, Remembered, memory, history
<1> QED BY <1>1, <1>2, <1>3, <1>4, TickRemembers DEF Next

LEMMA InitRemembers == Init => Remembered
BY DEF Init, Remembered

LEMMA BuildsOnlyUncooled ==
  ASSUME PcOK, Remembered, [Next]_vars,
         NEW t \in Callers, pc[t] = "attempt", pc'[t] = "building"
  PROVE  Target(t) \notin foundHealthy /\ Target(t) \notin foundPoor
BY BuildBegins DEF BeginsBuild, Cools, Remembered

\* Every path that learns an obligation is healthy keeps the executor off it.
THEOREM HealthyNotRetried == Spec => HealthyIsLeftAlone
<1>1. MutexInv /\ Remembered /\ [Next]_vars
        => [\A t \in Callers : pc[t] = "attempt" /\ pc'[t] = "building"
                                 => Target(t) \notin foundHealthy]_vars
  BY BuildsOnlyUncooled DEF MutexInv
<1> QED
  BY <1>1, InitMutex, NextMutex, InitRemembers, NextRemembers, PTL
     DEF Spec, HealthyIsLeftAlone

\* The block list outlives rebuilds of the queue, restarts and the plan's own
\* upgrades.
THEOREM PoorNotRetried == Spec => PoorIsLeftAlone
<1>1. MutexInv /\ Remembered /\ [Next]_vars
        => [\A t \in Callers : pc[t] = "attempt" /\ pc'[t] = "building"
                                 => Target(t) \notin foundPoor]_vars
  BY BuildsOnlyUncooled DEF MutexInv
<1> QED
  BY <1>1, InitMutex, NextMutex, InitRemembers, NextRemembers, PTL
     DEF Spec, PoorIsLeftAlone

-----------------------------------------------------------------------------
(* A dry tick never reaches a send, nor the health check before one.       *)

DryInv == \A t \in Dry : pc[t] \notin Sending \cup {"checkingHealth"}

LEMMA TickStaysDry ==
  ASSUME PcOK, NEW t \in Dry, t \in Callers, pc[t] \notin Sending \cup {"checkingHealth"}, Tick(t)
  PROVE  pc'[t] \notin Sending \cup {"checkingHealth"}
<1> USE DEF Sending
<1>1. ASSUME NEW l, Goto(t, l) PROVE pc'[t] = l
  BY <1>1 DEF Goto, PcOK
<1>2. Returns(t) \/ Finalizes(t) => pc'[t] \in {"idle", "done", "finalizing"}
  BY <1>1 DEF Returns, Finalizes, Rest
<1>3. Continues(t) \/ DropsOrRejects(t) => pc'[t] \in {"idle", "done", "attempt"}
  BY <1>1, <1>2 DEF DropsOrRejects, Continues, Returns, Rest
<1>4. CASE EndsEarly(t) \/ Filters(t) \/ Verifies(t) \/ BeginsAttempts(t)
  BY <1>1, <1>2, <1>4 DEF EndsEarly, Filters, Verifies, BeginsAttempts
<1>5. CASE DropsIncomplete(t) \/ SkipsCooling(t) \/ SkipsUnfit(t) \/ BeginsBuild(t)
  BY <1>1, <1>3, <1>5 DEF DropsIncomplete, SkipsCooling, SkipsUnfit, BeginsBuild
<1>6. CASE Builds(t) \/ ChecksFunds(t)
  BY <1>1, <1>2, <1>6 DEF Builds, ChecksFunds, Healthy, Reports
<1>7. CASE SimulatesAtomic(t)
  BY <1>1, <1>2, <1>7 DEF SimulatesAtomic, Healthy
<1>8. CASE ChecksHealth(t) \/ SentSetup(t) \/ Sent(t)
  BY <1>8 DEF ChecksHealth, SentSetup, Sent
<1>9. CASE Validates(t) \/ Simulates(t)
  BY <1>1, <1>2, <1>9 DEF Validates, Simulates, Healthy, Reports
<1>10. CASE Throws(t) \/ Finalized(t)
  BY <1>1, <1>3, <1>10 DEF Throws, Finalized, Rest
<1> QED BY <1>4, <1>5, <1>6, <1>7, <1>8, <1>9, <1>10 DEF Tick

LEMMA NextDry == PcOK /\ DryInv /\ [Next]_vars => DryInv'
<1> SUFFICES ASSUME PcOK, DryInv, [Next]_vars, NEW t \in Dry
             PROVE  pc'[t] \notin Sending \cup {"checkingHealth"}
  BY DEF DryInv
<1>1. t \in Callers /\ pc[t] \notin Sending \cup {"checkingHealth"}
  BY ExecutorAssumption DEF DryInv
<1>2. ASSUME NEW u \in Callers, Start(u) PROVE pc'[t] \in {pc[t], "reading"}
  BY <1>1, <1>2 DEF Start, Goto, PcOK
<1>3. ASSUME NEW u \in Callers, Tick(u) PROVE pc'[t] \notin Sending \cup {"checkingHealth"}
  BY <1>1, <1>3, OthersStay, TickStaysDry
<1>4. CASE Restart
  BY <1>1, <1>4 DEF Restart, Sending
<1>5. CASE QueueChanges \/ (\E k \in Keys : CooldownElapses(k)) \/ UNCHANGED vars
  BY <1>1, <1>5 DEF QueueChanges, CooldownElapses, tickVars, vars
<1> QED BY <1>1, <1>2, <1>3, <1>4, <1>5 DEF Next, Sending

\* Whatever the simulations answer, a tick called with dry sends nothing.
THEOREM DryTicksNeverSend == Spec => []DryNeverSends
<1>1. Init => DryInv
  BY ExecutorAssumption DEF Init, DryInv, Sending
<1>2. DryInv => DryNeverSends
  BY DEF DryInv, DryNeverSends
<1>3. MutexInv => PcOK
  BY DEF MutexInv
<1> QED BY <1>1, <1>2, <1>3, InitMutex, NextMutex, NextDry, PTL DEF Spec

-----------------------------------------------------------------------------
(* Type correctness.                                                       *)

Trying == Attempting \cup {"attempt"}

Tries(t) ==
  /\ candidates[t] \in Seq(Keys)
  /\ pc[t] \in Trying => Len(candidates[t]) \in 1..MaxAttempts

TicksOK ==
  /\ PcOK
  /\ plans \in [Callers -> Snapshot]
  /\ early \in [Callers -> SUBSET Keys]
  /\ candidates \in [Callers -> Seq(Keys)]
  /\ \A t \in Callers : Tries(t)

CooldownsOK ==
  /\ healthyCooldown \subseteq Keys /\ klendCooldown \subseteq Keys
  /\ setupCache \subseteq Keys /\ blocked \subseteq Keys
  /\ foundHealthy \subseteq Keys /\ foundPoor \subseteq Keys

TypeInv == TicksOK /\ CooldownsOK /\ queue \in Snapshot

LEMMA QueueTypes ==
  /\ EmptyQueue \in Snapshot
  /\ \A q \in Snapshot : \A ks :
       DropPlan(q, ks) \in Snapshot /\ DowngradePlan(q, ks) \in Snapshot
BY DEF EmptyQueue, Snapshot, DropPlan, DowngradePlan, Plan, Complete

\* A ranking of some plans is a sequence of them, as long as they are many.
LEMMA RankedType ==
  ASSUME NEW S \in SUBSET Keys, NEW s \in Ranked(S)
  PROVE  s \in Seq(Keys) /\ (S # {} => Len(s) \in Nat \ {0})
<1>1. IsFiniteSet(S)
  BY ExecutorAssumption, FS_Subset
<1>2. Cardinality(S) \in Nat /\ (S # {} => Cardinality(S) # 0)
  BY <1>1, FS_CardinalityType, FS_EmptySet
<1>3. s \in [1..Cardinality(S) -> Keys]
  BY DEF Ranked
<1>4. s \in Seq(Keys)
  BY <1>2, <1>3
<1>5. Len(s) = Cardinality(S)
  BY <1>2, <1>3, <1>4
<1> QED BY <1>2, <1>4, <1>5

LEMMA ShortenedType ==
  ASSUME NEW s \in Seq(Keys), Len(s) # 0
  PROVE  Shortened(s) \in Seq(Keys) /\ Len(Shortened(s)) \in 1..MaxAttempts
<1> USE ExecutorAssumption
<1> DEFINE n == IF Len(s) < MaxAttempts THEN Len(s) ELSE MaxAttempts
<1>1. n \in 1..Len(s) /\ n <= MaxAttempts
  BY LenProperties
<1>2. SubSeq(s, 1, n) \in Seq(Keys) /\ Len(SubSeq(s, 1, n)) = n
  BY <1>1, SubSeqProperties
<1> QED BY <1>1, <1>2, LenProperties DEF Shortened

\* A tick that ends forgets its plans.
LEMMA ForgetsType ==
  ASSUME TicksOK, NEW t \in Callers, NEW l \in Places \ Trying, Goto(t, l),
         Forgets(t), tickInProgress' \in BOOLEAN
  PROVE  TicksOK'
<1>1. pc' \in [Callers -> Places] /\ candidates' \in [Callers -> Seq(Keys)]
  BY DEF TicksOK, PcOK, Goto, Forgets
<1>2. early' \in [Callers -> SUBSET Keys] /\ plans' \in [Callers -> Snapshot]
  BY QueueTypes DEF TicksOK, Forgets
<1>3. pc'[t] \notin Trying
  BY DEF TicksOK, PcOK, Goto
<1>4. \A u \in Callers : u # t => pc'[u] = pc[u] /\ candidates'[u] = candidates[u]
  BY DEF TicksOK, PcOK, Goto, Forgets
<1>5. \A u \in Callers : Tries(u)'
  BY <1>1, <1>3, <1>4 DEF TicksOK, Tries
<1> QED BY <1>1, <1>2, <1>5 DEF TicksOK, PcOK

LEMMA EndingType ==
  ASSUME TicksOK, NEW t \in Callers, Returns(t) \/ Finalizes(t)
  PROVE  TicksOK'
<1>1. {"idle", "done", "finalizing"} \subseteq Places \ Trying
  BY DEF Places, Trying, Attempting
<1> QED BY <1>1, ForgetsType DEF Returns, Finalizes, Rest

\* A tick that goes to l with the candidates s.
LEMMA GoesOnType ==
  ASSUME TicksOK, NEW t \in Callers, NEW l \in Places, Goto(t, l),
         NEW s \in Seq(Keys), candidates' = [candidates EXCEPT ![t] = s],
         l \in Trying => Len(s) \in 1..MaxAttempts,
         UNCHANGED tickInProgress,
         plans' \in [Callers -> Snapshot], early' \in [Callers -> SUBSET Keys]
  PROVE  TicksOK'
<1>1. pc' \in [Callers -> Places] /\ candidates' \in [Callers -> Seq(Keys)]
  BY DEF TicksOK, PcOK, Goto
<1>2. pc'[t] = l /\ candidates'[t] = s
  BY DEF TicksOK, PcOK, Goto
<1>3. \A u \in Callers : u # t => pc'[u] = pc[u] /\ candidates'[u] = candidates[u]
  BY DEF TicksOK, PcOK, Goto
<1>4. \A u \in Callers : Tries(u)'
  BY <1>1, <1>2, <1>3 DEF TicksOK, Tries
<1> QED BY <1>1, <1>4 DEF TicksOK, PcOK

LEMMA StayingType ==
  ASSUME TicksOK, NEW t \in Callers, pc[t] \in Trying, NEW l \in Places, Goto(t, l), StaysOn(t)
  PROVE  TicksOK'
<1>1. candidates[t] \in Seq(Keys) /\ Len(candidates[t]) \in 1..MaxAttempts
  BY DEF TicksOK, Tries
<1>2. candidates' = [candidates EXCEPT ![t] = candidates[t]]
  BY DEF TicksOK, StaysOn
<1>3. plans' \in [Callers -> Snapshot] /\ early' \in [Callers -> SUBSET Keys]
  BY DEF TicksOK, StaysOn
<1> QED BY <1>1, <1>2, <1>3, GoesOnType DEF StaysOn

LEMMA ContinuingType ==
  ASSUME TicksOK, NEW t \in Callers, pc[t] \in Trying, Continues(t)
  PROVE  TicksOK'
<1>1. CASE Returns(t)
  BY <1>1, EndingType
<1>2. CASE /\ Len(candidates[t]) > 1
           /\ candidates' = [candidates EXCEPT ![t] = Tail(@)]
           /\ Goto(t, "attempt")
           /\ UNCHANGED <<tickInProgress, plans, early>>
  <2>1. candidates[t] \in Seq(Keys) /\ Len(candidates[t]) \in 1..MaxAttempts
    BY DEF TicksOK, Tries
  <2>2. Tail(candidates[t]) \in Seq(Keys) /\ Len(Tail(candidates[t])) = Len(candidates[t]) - 1
    BY <1>2, <2>1, HeadTailProperties, EmptySeq
  <2>3. Len(Tail(candidates[t])) \in 1..MaxAttempts
    BY <1>2, <2>1, <2>2, ExecutorAssumption
  <2>4. "attempt" \in Places /\ plans' \in [Callers -> Snapshot] /\ early' \in [Callers -> SUBSET Keys]
    BY <1>2, PlaceNames DEF Places, TicksOK
  <2> QED BY <1>2, <2>2, <2>3, <2>4, GoesOnType DEF TicksOK
<1> QED BY <1>1, <1>2 DEF Continues

LEMMA RejectingType ==
  ASSUME TicksOK, NEW t \in Callers, pc[t] \in Trying, DropsOrRejects(t)
  PROVE  TicksOK'
BY ContinuingType, EndingType DEF DropsOrRejects

LEMMA TickTicks ==
  ASSUME TypeInv, NEW t \in Callers, Tick(t)
  PROVE  TicksOK'
<1> USE DEF TypeInv
<1>0. /\ Trying \subseteq Places /\ Attempting \subseteq Trying /\ "attempt" \in Trying
      /\ "verifying" \in Places \ Trying /\ {"idle", "done", "finalizing"} \subseteq Places \ Trying
  BY DEF Trying, Places, Working, Attempting
<1>1. CASE EndsEarly(t)
  BY <1>1, EndingType DEF EndsEarly
<1>2. CASE Filters(t)
  <2>1. PICK ready \in SUBSET PlanKeys(plans[t]), near \in SUBSET PlanKeys(plans[t]) :
          /\ early' = [early EXCEPT ![t] = near]
          /\ \E s \in Ranked(ready) : candidates' = [candidates EXCEPT ![t] = s]
    BY <1>2 DEF Filters
  <2>2. ready \subseteq Keys /\ near \subseteq Keys
    BY DEF PlanKeys
  <2>3. PICK s \in Ranked(ready) : candidates' = [candidates EXCEPT ![t] = s]
    BY <2>1
  <2>4. s \in Seq(Keys)
    BY <2>2, <2>3, RankedType
  <2>5. early' \in [Callers -> SUBSET Keys]
    BY <2>1, <2>2 DEF TicksOK
  <2>6. plans' \in [Callers -> Snapshot]
    BY <1>2 DEF Filters, TicksOK
  <2>7. Goto(t, "verifying") /\ UNCHANGED tickInProgress
    BY <1>2 DEF Filters
  <2> QED BY <1>0, <2>3, <2>4, <2>5, <2>6, <2>7, GoesOnType
<1>3. CASE Verifies(t)
  <2>1. PICK k \in early[t] :
          /\ early' = [early EXCEPT ![t] = @ \ {k}]
          /\ candidates' = [candidates EXCEPT ![t] = Append(@, k)] \/ UNCHANGED candidates
    BY <1>3 DEF Verifies
  <2>2. k \in Keys /\ early[t] \subseteq Keys /\ candidates[t] \in Seq(Keys)
    BY DEF TicksOK
  <2>3. PICK s \in Seq(Keys) : candidates' = [candidates EXCEPT ![t] = s]
    <3>1. Append(candidates[t], k) \in Seq(Keys)
      BY <2>2, AppendProperties
    <3>2. candidates = [candidates EXCEPT ![t] = candidates[t]]
      BY DEF TicksOK
    <3> QED BY <2>1, <2>2, <3>1, <3>2
  <2>4. early' \in [Callers -> SUBSET Keys] /\ plans' \in [Callers -> Snapshot]
    BY <1>3, <2>1, <2>2 DEF Verifies, TicksOK
  <2>5. Goto(t, "verifying") /\ UNCHANGED tickInProgress
    BY <1>3 DEF Verifies, Goto, TicksOK, PcOK
  <2> QED BY <1>0, <2>3, <2>4, <2>5, GoesOnType
<1>4. CASE BeginsAttempts(t)
  <2>1. CASE Returns(t)
    BY <2>1, EndingType
  <2>2. CASE /\ candidates[t] # <<>>
             /\ \E s \in Ranked({candidates[t][i] : i \in DOMAIN candidates[t]}) :
                  candidates' = [candidates EXCEPT ![t] = Shortened(s)]
             /\ Goto(t, "attempt") /\ UNCHANGED <<tickInProgress, plans, early>>
    <3> DEFINE S == {candidates[t][i] : i \in DOMAIN candidates[t]}
    <3>1. candidates[t] \in Seq(Keys)
      BY DEF TicksOK
    <3>2. S \in SUBSET Keys
      BY <3>1, ElementOfSeq
    <3>3. S # {}
      <4>1. 1 \in DOMAIN candidates[t]
        BY <2>2, <3>1, LenProperties, EmptySeq
      <4> QED BY <4>1
    <3>4. PICK s \in Ranked(S) : candidates' = [candidates EXCEPT ![t] = Shortened(s)]
      BY <2>2
    <3>5. s \in Seq(Keys) /\ Len(s) # 0
      BY <3>2, <3>3, <3>4, RankedType
    <3>6. Shortened(s) \in Seq(Keys) /\ Len(Shortened(s)) \in 1..MaxAttempts
      BY <3>5, ShortenedType
    <3>7. plans' \in [Callers -> Snapshot] /\ early' \in [Callers -> SUBSET Keys]
      BY <2>2 DEF TicksOK
    <3> QED BY <1>0, <2>2, <3>4, <3>6, <3>7, GoesOnType
  <2> QED BY <1>4, <2>1, <2>2 DEF BeginsAttempts
<1>5. CASE DropsIncomplete(t) \/ SkipsCooling(t) \/ SkipsUnfit(t)
  BY <1>0, <1>5, ContinuingType, RejectingType DEF DropsIncomplete, SkipsCooling, SkipsUnfit
<1>6. CASE BeginsBuild(t)
  BY <1>0, <1>6, StayingType DEF BeginsBuild, Attempting
<1>7. CASE Builds(t) \/ ChecksFunds(t)
  BY <1>0, <1>7, StayingType, EndingType DEF Builds, ChecksFunds, Healthy, Reports, Attempting
<1>8. CASE SimulatesAtomic(t) \/ ChecksHealth(t)
  BY <1>0, <1>8, StayingType, EndingType DEF SimulatesAtomic, ChecksHealth, Healthy, Attempting
<1>9. CASE SentSetup(t) \/ Simulates(t)
  BY <1>0, <1>9, EndingType DEF SentSetup, Simulates, Healthy, Reports
<1>10. CASE Validates(t)
  BY <1>0, <1>10, StayingType, EndingType DEF Validates, Reports, Attempting
<1>11. CASE Sent(t) \/ Throws(t)
  BY <1>0, <1>11, ContinuingType, RejectingType, EndingType DEF Sent, Throws, Reports, Attempting
<1>12. CASE Finalized(t)
  <2>1. PICK l \in {"idle", "done"} : Goto(t, l)
    BY <1>12 DEF Finalized, Rest
  <2>2. candidates' = [candidates EXCEPT ![t] = candidates[t]] /\ candidates[t] \in Seq(Keys)
    BY <1>12 DEF Finalized, TicksOK
  <2>3. plans' \in [Callers -> Snapshot] /\ early' \in [Callers -> SUBSET Keys]
    BY <1>12 DEF Finalized, TicksOK
  <2> QED BY <1>0, <1>12, <2>1, <2>2, <2>3, GoesOnType DEF Finalized
<1> QED
  BY <1>1, <1>2, <1>3, <1>4, <1>5, <1>6, <1>7, <1>8, <1>9, <1>10, <1>11, <1>12 DEF Tick

\* The plan a tick attempts is one of the plans.
LEMMA TargetType ==
  ASSUME TicksOK, NEW t \in Callers, pc[t] \in Trying
  PROVE  Target(t) \in Keys
<1>1. candidates[t] \in Seq(Keys) /\ candidates[t] # <<>>
  BY ExecutorAssumption, EmptySeq DEF TicksOK, Tries
<1> QED BY <1>1, HeadTailProperties DEF Target

LEMMA TickCooldowns ==
  ASSUME TypeInv, NEW t \in Callers, Tick(t)
  PROVE  CooldownsOK' /\ queue' \in Snapshot
<1> USE DEF TypeInv
<1>0. Attempting \subseteq Trying
  BY DEF Trying
<1>1. CASE UNCHANGED <<memory, blocked, history>> /\ queue' \in Snapshot
  BY <1>1 DEF CooldownsOK, memory, history
<1>2. ASSUME pc[t] \in Attempting, Healthy(t) PROVE CooldownsOK' /\ queue' \in Snapshot
  BY <1>0, <1>2, TargetType DEF Healthy, CooldownsOK
<1>3. CASE EndsEarly(t) \/ Filters(t) \/ BeginsAttempts(t) \/ Finalized(t)
  BY <1>1, <1>3 DEF EndsEarly, Filters, BeginsAttempts, Finalized
<1>4. CASE Verifies(t)
  <2>1. klendCooldown' \subseteq Keys
    BY <1>4 DEF Verifies, TicksOK, CooldownsOK
  <2> QED BY <1>4, <2>1 DEF Verifies, CooldownsOK, memory, history
<1>5. CASE DropsIncomplete(t) \/ Throws(t)
  BY <1>1, <1>5, QueueTypes DEF DropsIncomplete, Throws, DropsOrRejects
<1>6. CASE SkipsCooling(t) \/ SkipsUnfit(t) \/ BeginsBuild(t)
  BY <1>1, <1>6 DEF SkipsCooling, SkipsUnfit, BeginsBuild
<1>7. CASE Builds(t) \/ ChecksHealth(t) \/ Simulates(t)
  BY <1>1, <1>2, <1>7 DEF Builds, ChecksHealth, Simulates, Reports, Attempting
<1>8. CASE ChecksFunds(t)
  <2>1. Target(t) \in Keys
    BY <1>0, <1>8, TargetType DEF ChecksFunds, Attempting
  <2> QED BY <1>1, <1>8, <2>1, QueueTypes DEF ChecksFunds, Blocks, CooldownsOK, memory, history
<1>9. CASE SimulatesAtomic(t)
  <2>1. Target(t) \in Keys /\ pc[t] \in Attempting
    BY <1>0, <1>9, TargetType DEF SimulatesAtomic, Attempting
  <2>2. CASE Healthy(t)
    BY <1>2, <2>1, <2>2
  <2>3. CASE UNCHANGED <<healthyCooldown, klendCooldown, queue, blocked, history>>
             /\ setupCache' \subseteq Keys
    BY <2>3 DEF CooldownsOK, history
  <2> QED BY <1>1, <1>9, <2>1, <2>2, <2>3 DEF SimulatesAtomic, CooldownsOK
<1>10. CASE SentSetup(t) \/ Validates(t) \/ Sent(t)
  BY <1>1, <1>10 DEF SentSetup, Validates, Sent, Reports
<1> QED
  BY <1>3, <1>4, <1>5, <1>6, <1>7, <1>8, <1>9, <1>10 DEF Tick

LEMMA StartType ==
  ASSUME TypeInv, NEW t \in Callers, Start(t)
  PROVE  TypeInv'
<1>1. "reading" \in Places /\ "reading" \notin Trying
  BY DEF Places, Working, Trying, Attempting
<1>2. pc' \in [Callers -> Places] /\ pc'[t] = "reading"
  BY <1>1 DEF Start, Goto, TypeInv, TicksOK, PcOK
<1>3. \A u \in Callers : u # t => pc'[u] = pc[u]
  BY DEF Start, Goto, TypeInv, TicksOK, PcOK
<1>4. \A u \in Callers : Tries(u)'
  BY <1>1, <1>2, <1>3 DEF Start, Tries, TypeInv, TicksOK
<1>5. TicksOK'
  BY <1>2, <1>4 DEF Start, TypeInv, TicksOK, PcOK
<1> QED BY <1>5 DEF Start, TypeInv, CooldownsOK, memory, history

LEMMA QueueChangesType ==
  ASSUME TypeInv, QueueChanges
  PROVE  queue' \in Snapshot
<1>1. PICK o \in [name : {"replace"}, keys : {{}}, plans : Built]
              \cup [name : {"refresh"}, keys : {Keys}, plans : [Keys -> {"live"}]] :
        queue' = Apply(o, queue)
  BY DEF QueueChanges
<1>2. CASE o.name = "replace"
  BY <1>1, <1>2 DEF Apply, Built, Snapshot, Plan, Complete
<1>3. CASE o.name = "refresh"
  <2>1. RefreshPlans(queue, o.keys, o.plans) \in Snapshot
    BY DEF TypeInv, RefreshPlans, RecomputePlan, Snapshot, Plan, Complete
  <2> QED BY <1>1, <1>3, <2>1 DEF Apply
<1> QED BY <1>1, <1>2, <1>3

LEMMA InitType == Init => TypeInv
<1> SUFFICES ASSUME Init PROVE TypeInv
  OBVIOUS
<1>1. \A t \in Callers : pc[t] \notin Trying
  BY DEF Init, Trying, Attempting
<1>2. <<>> \in Seq(Keys)
  OBVIOUS
<1>3. TicksOK
  BY <1>1, <1>2, QueueTypes DEF Init, TicksOK, PcOK, Tries, Places
<1> QED BY <1>3 DEF Init, TypeInv, CooldownsOK, Snapshot, Plan, Complete

LEMMA NextType == TypeInv /\ [Next]_vars => TypeInv'
<1> SUFFICES ASSUME TypeInv, [Next]_vars PROVE TypeInv'
  OBVIOUS
<1>1. ASSUME NEW t \in Callers, Start(t) PROVE TypeInv'
  BY <1>1, StartType
<1>2. ASSUME NEW t \in Callers, Tick(t) PROVE TypeInv'
  BY <1>2, TickTicks, TickCooldowns DEF TypeInv
<1>3. CASE QueueChanges
  <2>1. UNCHANGED <<tickVars, memory, blocked, history>>
    BY <1>3 DEF QueueChanges
  <2> QED BY <1>3, <2>1, QueueChangesType
          DEF TypeInv, TicksOK, PcOK, Tries, CooldownsOK, tickVars, memory, history
<1>4. CASE Restart
  <2>1. \A t \in Callers : pc'[t] \notin Trying
    BY <1>4 DEF Restart, Trying, Attempting
  <2>2. <<>> \in Seq(Keys)
    OBVIOUS
  <2>3. TicksOK'
    BY <1>4, <2>1, <2>2, QueueTypes DEF Restart, TicksOK, PcOK, Tries, Places
  <2> QED BY <1>4, <2>3 DEF Restart, TypeInv, CooldownsOK
<1>5. ASSUME NEW k \in Keys, CooldownElapses(k) PROVE TypeInv'
  <2>1. TicksOK'
    BY <1>5 DEF CooldownElapses, tickVars, TypeInv, TicksOK, PcOK, Tries
  <2>2. CooldownsOK'
    BY <1>5 DEF CooldownElapses, TypeInv, CooldownsOK, memory, history
  <2> QED BY <1>5, <2>1, <2>2 DEF CooldownElapses, TypeInv
<1>6. CASE UNCHANGED vars
  BY <1>6 DEF vars, TypeInv, TicksOK, PcOK, Tries, CooldownsOK, memory, history
<1> QED BY <1>1, <1>2, <1>3, <1>4, <1>5, <1>6 DEF Next

LEMMA TypeInvType == TypeInv => TypeOK
BY DEF TypeInv, TicksOK, PcOK, Tries, Trying, CooldownsOK, TypeOK, Places

\* A tick that tries plans always has one, and never more than the limit.
THEOREM TypeCorrect == Spec => []TypeOK
BY InitType, NextType, TypeInvType, PTL DEF Spec

=============================================================================
