--------------------------- MODULE Broadcast_proofs ---------------------------
(***************************************************************************)
(* Broadcast, for every attempt limit and every number of blockhashes.     *)
(***************************************************************************)
EXTENDS Broadcast, SequenceTheorems, TLAPS

-----------------------------------------------------------------------------
(* Type correctness: every raise of the budget uses up an attempt, and the *)
(* sender has a transaction whenever it sends, polls or refreshes one.     *)

TypeInv ==
  /\ TypeOK
  /\ cuLimit < attemptNum /\ cuPrice < attemptNum
  /\ pc \in {"sending", "polling", "refreshing"} => tx \in Txs
  /\ pc = "building" => mode = "rebuild"
  /\ pc = "refreshing" => attemptNum < MaxAttempts

LEMMA AcceptedType ==
  ASSUME TypeInv, NEW t \in Txs
  PROVE  Accepted(t) \in [Txs -> ChainStates]
<1>1. /\ chain \in [Txs -> ChainStates]
      /\ chain[t] \in ChainStates
      /\ "inflight" \in ChainStates
  BY DEF TypeInv, TypeOK, ChainStates
<1> QED BY <1>1 DEF Accepted

\* A recorded attempt keeps the sequence's type.
LEMMA RecordType ==
  ASSUME TypeInv, NEW outcome \in Kinds \cup {"success"}, Record(outcome)
  PROVE  attempts' \in Seq(Attempt)
<1>1. [outcome |-> outcome, limit |-> cuLimit, price |-> cuPrice] \in Attempt
  BY DEF TypeInv, TypeOK, Attempt
<1> QED BY <1>1, AppendProperties DEF TypeInv, TypeOK, Record

\* What every failed attempt does to the sender's own variables.
LEMMA FailsType ==
  ASSUME TypeInv, NEW kind \in Kinds, pc \in {"building", "sending", "polling"},
         Fails(kind), UNCHANGED <<mode, tx, blockhash>>,
         chain' \in [Txs -> ChainStates]
  PROVE  TypeInv'
<1> USE BroadcastAssumption
<1>1. attempts' \in Seq(Attempt)
  BY RecordType DEF Fails
<1>2. CASE BoundedFails(kind)
  BY <1>1, <1>2 DEF TypeInv, TypeOK, BoundedFails, BoundedRetries, Levels
<1>3. CASE RebuildFails(kind)
  BY <1>1, <1>3 DEF TypeInv, TypeOK, RebuildFails, LastAttempt, Bumped, Levels
<1> QED BY <1>2, <1>3 DEF Fails

LEMMA InitType == Init => TypeInv
BY BroadcastAssumption DEF Init, TypeInv, TypeOK, Levels, ChainStates

LEMMA NextType == TypeInv /\ [Next]_vars => TypeInv'
<1> SUFFICES ASSUME TypeInv, [Next]_vars PROVE TypeInv'
  OBVIOUS
<1> USE BroadcastAssumption
<1>0. chain \in [Txs -> ChainStates]
  BY DEF TypeInv, TypeOK
<1>1. CASE Begin
  <2>1. ASSUME NEW bh \in 1..blockhash
        PROVE  [bh |-> bh, limit |-> 0, price |-> 0] \in Txs
    BY DEF TypeInv, TypeOK, Txs, Levels
  <2> QED BY <1>1, <2>1 DEF Begin, TypeInv, TypeOK
<1>2. CASE Build
  <2>1. [bh |-> blockhash, limit |-> cuLimit, price |-> cuPrice] \in Txs
    BY DEF TypeInv, TypeOK, Txs
  <2> QED BY <1>2, <2>1 DEF Build, TypeInv, TypeOK
<1>3. CASE Send
  BY <1>3, AcceptedType DEF Send, TypeInv, TypeOK
<1>4. CASE SendLost
  <2>1. tx \in Txs /\ pc = "sending"
    BY <1>4 DEF SendLost, TypeInv
  <2>2. chain' \in [Txs -> ChainStates]
    BY <1>4, <2>1, AcceptedType DEF SendLost
  <2> QED BY <1>4, <2>1, <2>2, FailsType DEF SendLost, Kinds
<1>5. CASE Refresh
  <2>1. tx \in Txs
    BY <1>5 DEF Refresh, TypeInv
  <2>2. CASE pc' = "done" /\ UNCHANGED <<tx, attemptNum>>
    BY <1>5, <2>2 DEF Refresh, TypeInv, TypeOK
  <2>3. CASE /\ tx' = [tx EXCEPT !.bh = blockhash]
             /\ attemptNum' = attemptNum + 1 /\ pc' = "sending"
    <3>1. [tx EXCEPT !.bh = blockhash] \in Txs
      BY <2>1 DEF TypeInv, TypeOK, Txs
    <3>2. attemptNum' \in 1..MaxAttempts
      BY <1>5, <2>3 DEF Refresh, TypeInv, TypeOK
    <3> QED BY <1>5, <2>3, <3>1, <3>2 DEF Refresh, TypeInv, TypeOK, Levels
  <2> QED BY <1>5, <2>2, <2>3 DEF Refresh
<1>6. CASE PollConfirmed
  BY <1>6, RecordType DEF PollConfirmed, TypeInv, TypeOK
<1>7. CASE PollTimesOut
  BY <1>0, <1>7, FailsType DEF PollTimesOut, Kinds
<1>8. ASSUME NEW kind \in Kinds, BuildFails(kind) \/ SendRefused(kind) \/ PollFailed(kind)
      PROVE  TypeInv'
  BY <1>0, <1>8, FailsType DEF BuildFails, SendRefused, PollFailed
<1>9. CASE NewBlockhash
  BY <1>9 DEF NewBlockhash, TypeInv, TypeOK
<1>10. ASSUME NEW t \in Txs, Settles(t) PROVE TypeInv'
  BY <1>0, <1>10 DEF Settles, TypeInv, TypeOK, ChainStates
<1>11. CASE UNCHANGED vars
  BY <1>11 DEF vars, TypeInv, TypeOK
<1> QED BY <1>1, <1>2, <1>3, <1>4, <1>5, <1>6, <1>7, <1>8, <1>9, <1>10, <1>11
        DEF Next, Sender

\* The sender's variables keep their types: no attempt beyond the limit, no
\* budget raised more often than there are attempts (broadcastRetry.ts:98, :323).
THEOREM TypeCorrect == Spec => []TypeOK
<1>1. TypeInv => TypeOK
  BY DEF TypeInv
<1> QED BY <1>1, InitType, NextType, PTL DEF Spec

-----------------------------------------------------------------------------
(* One transaction at risk: while the bounded sender may still change its  *)
(* transaction, the cluster holds none that can land.                      *)

AtRisk(t) == chain[t] \in {"inflight", "landed"}

RiskInv ==
  /\ TypeInv
  /\ mode = "bounded" =>
       /\ \A t \in Txs : AtRisk(t) => t = tx
       /\ pc \in {"start", "sending", "refreshing"} => \A t \in Txs : ~AtRisk(t)

\* A failure leaves at most the transaction in hand at risk, and a retry follows
\* only when even that one is not.
LEMMA FailsRisk ==
  ASSUME RiskInv, NEW kind \in Kinds, pc \in {"building", "sending", "polling"},
         Fails(kind), UNCHANGED <<mode, tx>>,
         \A t \in Txs : chain'[t] \in {"inflight", "landed"} => t = tx,
         \/ kind = "other"
         \/ \A t \in Txs : chain'[t] \notin {"inflight", "landed"},
         mode = "bounded", TypeInv'
  PROVE  RiskInv'
<1>1. CASE BoundedFails(kind)
  <2>1. pc' = "done" \/ kind # "other"
    BY <1>1 DEF BoundedFails, BoundedRetries
  <2>2. pc' \notin {"start", "sending", "refreshing"} \/
        \A t \in Txs : chain'[t] \notin {"inflight", "landed"}
    BY <2>1
  <2> QED BY <2>2 DEF RiskInv, AtRisk
<1>2. CASE RebuildFails(kind)
  BY <1>2 DEF RebuildFails
<1> QED BY <1>1, <1>2 DEF Fails

LEMMA InitRisk == Init => RiskInv
BY InitType DEF Init, RiskInv, AtRisk

LEMMA NextRisk == RiskInv /\ [Next]_vars => RiskInv'
<1> SUFFICES ASSUME RiskInv, [Next]_vars PROVE RiskInv'
  OBVIOUS
<1>0. TypeInv /\ TypeInv' /\ chain \in [Txs -> ChainStates]
  BY NextType DEF RiskInv, TypeInv, TypeOK
<1>. mode' = mode
  BY DEF Next, Sender, Begin, Build, Send, SendLost, Refresh, PollConfirmed,
         PollTimesOut, BuildFails, SendRefused, PollFailed, NewBlockhash, Settles, vars
<1>a. CASE mode # "bounded"
  BY <1>0, <1>a DEF RiskInv
<1>b. CASE mode = "bounded"
  <2>0. \A t \in Txs : AtRisk(t) => t = tx
    BY <1>b DEF RiskInv
  <2>1. CASE Begin
    BY <1>0, <1>b, <2>1 DEF Begin, RiskInv, AtRisk
  <2>2. CASE Build
    BY <1>0, <1>b, <2>2 DEF Build, TypeInv
  <2>3. \A t \in Txs \ {tx} : tx \in Txs => Accepted(tx)[t] = chain[t]
    BY <1>0 DEF Accepted
  <2>4. CASE Send
    <3>1. tx \in Txs /\ pc' = "polling"
      BY <1>0, <2>4 DEF Send, TypeInv
    <3>2. \A t \in Txs : chain'[t] \in {"inflight", "landed"} => t = tx
      BY <2>0, <2>3, <2>4, <3>1 DEF Send, AtRisk
    <3> QED BY <1>0, <2>4, <3>1, <3>2 DEF Send, RiskInv, AtRisk
  <2>5. CASE SendLost
    <3>1. tx \in Txs /\ pc = "sending"
      BY <1>0, <2>5 DEF SendLost, TypeInv
    <3>2. \A t \in Txs : chain'[t] \in {"inflight", "landed"} => t = tx
      BY <2>0, <2>3, <2>5, <3>1 DEF SendLost, AtRisk
    <3> QED BY <1>0, <1>b, <2>5, <3>1, <3>2, FailsRisk DEF SendLost, Kinds
  <2>6. CASE Refresh
    BY <1>0, <1>b, <2>6 DEF Refresh, RiskInv, AtRisk
  <2>7. CASE PollConfirmed
    BY <1>0, <2>0, <2>7 DEF PollConfirmed, RiskInv, AtRisk
  <2>8. CASE PollTimesOut
    BY <1>0, <1>b, <2>0, <2>8, FailsRisk DEF PollTimesOut, Kinds, AtRisk
  <2>9. ASSUME NEW kind \in Kinds, BuildFails(kind)
        PROVE  RiskInv'
    BY <1>0, <1>b, <2>9 DEF BuildFails, TypeInv
  <2>10. ASSUME NEW kind \in Kinds, SendRefused(kind)
         PROVE  RiskInv'
    <3>1. \A t \in Txs : chain'[t] \notin {"inflight", "landed"}
      BY <1>b, <2>10 DEF SendRefused, RiskInv, AtRisk
    <3> QED BY <1>0, <1>b, <2>10, <3>1, FailsRisk DEF SendRefused
  <2>11. ASSUME NEW kind \in Kinds, PollFailed(kind)
         PROVE  RiskInv'
    <3>1. \A t \in Txs : chain'[t] \notin {"inflight", "landed"}
      BY <2>0, <2>11 DEF PollFailed, AtRisk
    <3> QED BY <1>0, <1>b, <2>11, <3>1, FailsRisk DEF PollFailed
  <2>12. CASE NewBlockhash
    BY <1>0, <2>12 DEF NewBlockhash, RiskInv, AtRisk
  <2>13. ASSUME NEW t \in Txs, Settles(t) PROVE RiskInv'
    <3>1. \A u \in Txs : chain'[u] \in {"inflight", "landed"} => AtRisk(u)
      BY <1>0, <2>13 DEF Settles, AtRisk
    <3>2. UNCHANGED <<tx, pc>>
      BY <2>13 DEF Settles
    <3> QED BY <1>0, <3>1, <3>2 DEF RiskInv, AtRisk
  <2>14. CASE UNCHANGED vars
    BY <1>0, <2>14 DEF vars, RiskInv, AtRisk
  <2> QED BY <2>1, <2>2, <2>4, <2>5, <2>6, <2>7, <2>8, <2>9, <2>10, <2>11,
             <2>12, <2>13, <2>14 DEF Next, Sender
<1> QED BY <1>a, <1>b

\* sendWithBoundedRetry never has two transactions that could both land,
\* whatever the cluster refuses, loses or settles late (broadcastRetry.ts:237-282).
THEOREM AtMostOneAtRisk == Spec => []OneTransactionAtRisk
<1>1. RiskInv => OneTransactionAtRisk
  BY DEF RiskInv, AtRisk, OneTransactionAtRisk
<1> QED BY <1>1, InitRisk, NextRisk, PTL DEF Spec

-----------------------------------------------------------------------------
(* The budget escalates: what was recorded is at most the budget in hand,  *)
(* and less than it where the attempt failed for want of it.               *)

Escalating ==
  /\ \A i \in DOMAIN attempts :
       attempts[i].limit <= cuLimit /\ attempts[i].price <= cuPrice
  /\ pc # "done" => \A i \in DOMAIN attempts :
       /\ attempts[i].outcome = "compute" => attempts[i].limit < cuLimit
       /\ attempts[i].outcome = "priority" => attempts[i].price < cuPrice

BudgetInv == TypeInv /\ BudgetEscalates /\ (mode = "rebuild" => Escalating)

LEMMA RecordBudget ==
  ASSUME BudgetInv, mode = "rebuild", mode' = mode, pc # "done", TypeInv',
         NEW outcome \in Kinds \cup {"success"}, Record(outcome),
         cuLimit' \in {cuLimit, cuLimit + 1}, cuPrice' \in {cuPrice, cuPrice + 1},
         \/ pc' = "done"
         \/ /\ outcome = "compute" => cuLimit' = cuLimit + 1
            /\ outcome = "priority" => cuPrice' = cuPrice + 1
  PROVE  BudgetInv'
<1> DEFINE new == [outcome |-> outcome, limit |-> cuLimit, price |-> cuPrice]
<1>1. /\ attempts \in Seq(Attempt) /\ attempts' \in Seq(Attempt)
      /\ cuLimit \in Nat /\ cuPrice \in Nat /\ cuLimit' \in Nat /\ cuPrice' \in Nat
  BY BroadcastAssumption DEF BudgetInv, TypeInv, TypeOK, Levels
<1>2. new \in Attempt
  BY DEF BudgetInv, TypeInv, TypeOK, Attempt
<1>3. /\ Len(attempts') = Len(attempts) + 1
      /\ \A i \in 1..Len(attempts) : attempts'[i] = attempts[i]
      /\ attempts'[Len(attempts) + 1] = new
  BY <1>1, <1>2, AppendProperties DEF Record
<1>4. DOMAIN attempts = 1..Len(attempts) /\ DOMAIN attempts' = 1..(Len(attempts) + 1)
  BY <1>1, <1>3
<1>5. Len(attempts) \in Nat
  BY <1>1
<1>6. \A i \in DOMAIN attempts :
        attempts[i].limit \in Nat /\ attempts[i].price \in Nat
  <2>1. \A i \in DOMAIN attempts : attempts[i] \in Attempt
    BY <1>1, <1>4
  <2>2. \A a \in Attempt : a.limit \in Nat /\ a.price \in Nat
    BY BroadcastAssumption DEF Attempt, Levels
  <2> QED BY <2>1, <2>2
<1>7. new.outcome = outcome /\ new.limit = cuLimit /\ new.price = cuPrice
  OBVIOUS
<1> HIDE DEF new
<1>8. Escalating'
  BY <1>1, <1>3, <1>4, <1>5, <1>6, <1>7 DEF BudgetInv, Escalating
<1>9. BudgetEscalates'
  BY <1>1, <1>3, <1>4, <1>5, <1>6, <1>7 DEF BudgetInv, Escalating, BudgetEscalates
<1> QED BY <1>8, <1>9 DEF BudgetInv

LEMMA FailsBudget ==
  ASSUME BudgetInv, TypeInv', NEW kind \in Kinds, pc # "done", Fails(kind),
         UNCHANGED mode, mode = "rebuild"
  PROVE  BudgetInv'
<1>1. RebuildFails(kind) /\ Record(kind)
  BY DEF Fails, BoundedFails
<1>2. /\ cuLimit' \in {cuLimit, cuLimit + 1} /\ cuPrice' \in {cuPrice, cuPrice + 1}
      /\ \/ pc' = "done"
         \/ /\ kind = "compute" => cuLimit' = cuLimit + 1
            /\ kind = "priority" => cuPrice' = cuPrice + 1
  BY <1>1 DEF RebuildFails, Bumped
<1> QED BY <1>1, <1>2, RecordBudget

LEMMA InitBudget == Init => BudgetInv
BY InitType DEF Init, BudgetInv, BudgetEscalates, Escalating

LEMMA NextBudget == BudgetInv /\ [Next]_vars => BudgetInv'
<1> SUFFICES ASSUME BudgetInv, [Next]_vars PROVE BudgetInv'
  OBVIOUS
<1>0. TypeInv /\ TypeInv'
  BY NextType DEF BudgetInv
<1>. mode' = mode
  BY DEF Next, Sender, Begin, Build, Send, SendLost, Refresh, PollConfirmed,
         PollTimesOut, BuildFails, SendRefused, PollFailed, NewBlockhash, Settles, vars
<1>a. CASE mode # "rebuild"
  BY <1>0, <1>a DEF BudgetInv, BudgetEscalates
<1>b. CASE mode = "rebuild"
  <2>1. ASSUME UNCHANGED <<attempts, cuLimit, cuPrice>>, pc # "done" \/ pc' = "done"
        PROVE  BudgetInv'
    BY <1>0, <2>1 DEF BudgetInv, BudgetEscalates, Escalating
  <2>2. CASE Begin \/ Build \/ Send \/ Refresh \/ NewBlockhash \/ UNCHANGED vars
    BY <2>1, <2>2 DEF Begin, Build, Send, Refresh, NewBlockhash, vars
  <2>3. ASSUME NEW t \in Txs, Settles(t) PROVE BudgetInv'
    BY <2>1, <2>3 DEF Settles
  <2>4. CASE PollConfirmed
    BY <1>0, <1>b, <2>4, RecordBudget DEF PollConfirmed
  <2>5. CASE SendLost \/ PollTimesOut
    BY <1>0, <1>b, <2>5, FailsBudget DEF SendLost, PollTimesOut, Kinds
  <2>6. ASSUME NEW kind \in Kinds, BuildFails(kind) \/ SendRefused(kind) \/ PollFailed(kind)
        PROVE  BudgetInv'
    BY <1>0, <1>b, <2>6, FailsBudget DEF BuildFails, SendRefused, PollFailed
  <2> QED BY <2>2, <2>3, <2>4, <2>5, <2>6 DEF Next, Sender
<1> QED BY <1>a, <1>b

\* sendWithRebuildRetry carries every raise to all later attempts and raises what
\* the failure says was short (broadcastRetry.ts:376-401).
THEOREM BudgetNeverFalls == Spec => []BudgetEscalates
<1>1. BudgetInv => BudgetEscalates
  BY DEF BudgetInv
<1> QED BY <1>1, InitBudget, NextBudget, PTL DEF Spec
=============================================================================
