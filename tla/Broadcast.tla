------------------------------- MODULE Broadcast -------------------------------
(***************************************************************************)
(* Sending one plan's transaction (src/src/execute/broadcastRetry.ts):     *)
(* sendWithBoundedRetry, which resends the transaction it was given, and   *)
(* sendWithRebuildRetry, which builds a new one per attempt, both over     *)
(* confirmSignatureByPolling (src/src/solana/confirmPolling.ts).           *)
(*                                                                         *)
(* A transaction is its blockhash and compute budget: equal ones have the  *)
(* same signature, and the cluster runs it at most once.  The cluster is   *)
(* external: a transaction in flight lands, fails on chain or expires      *)
(* whenever it likes, also long after the sender stopped looking.          *)
(***************************************************************************)
EXTENDS Naturals, Sequences

CONSTANTS
  Modes,         \* which of "bounded" and "rebuild" are used
  MaxAttempts,   \* config.maxAttempts
  MaxBlockhash,  \* bound: blockhashes the cluster produces
  None           \* no blockhash refresh outstanding, no transaction

ASSUME BroadcastAssumption ==
  /\ Modes \subseteq {"bounded", "rebuild"}
  /\ MaxAttempts \in Nat \ {0} /\ MaxBlockhash \in Nat \ {0}

VARIABLES
  mode, pc,
  attemptNum, attempts,
  cuLimit, cuPrice,   \* levels: how often each was raised
  tx,                 \* the transaction being sent, or None
  blockhash,          \* the cluster's latest
  chain               \* what the cluster knows of each transaction

vars == <<mode, pc, attemptNum, attempts, cuLimit, cuPrice, tx, blockhash, chain>>

\* classifyFailure: the four classes the retry rules tell apart.
Kinds == {"blockhash", "compute", "priority", "other"}

Levels == 0..MaxAttempts
Txs == [bh : 1..MaxBlockhash, limit : Levels, price : Levels]
ChainStates == {"unknown", "inflight", "landed", "failed", "expired"}
Attempt == [outcome : Kinds \cup {"success"}, limit : Levels, price : Levels]

Init ==
  /\ mode \in Modes /\ pc = "start"
  /\ attemptNum = 1 /\ attempts = <<>>
  /\ cuLimit = 0 /\ cuPrice = 0
  /\ tx = None /\ blockhash = 1
  /\ chain = [t \in Txs |-> "unknown"]

-----------------------------------------------------------------------------
(* The cluster.                                                            *)

NewBlockhash ==
  /\ blockhash < MaxBlockhash /\ blockhash' = blockhash + 1
  /\ UNCHANGED <<mode, pc, attemptNum, attempts, cuLimit, cuPrice, tx, chain>>

Settles(t) ==
  /\ chain[t] = "inflight"
  /\ \/ chain' = [chain EXCEPT ![t] = "landed"]
     \/ chain' = [chain EXCEPT ![t] = "failed"]
     \/ t.bh < blockhash /\ chain' = [chain EXCEPT ![t] = "expired"]
  /\ UNCHANGED <<mode, pc, attemptNum, attempts, cuLimit, cuPrice, tx, blockhash>>

Accepted(t) == [chain EXCEPT ![t] = IF @ = "unknown" THEN "inflight" ELSE @]

-----------------------------------------------------------------------------
(* The attempts.                                                           *)

\* The bounded sender is given a transaction built a while ago; the
\* rebuilding one begins with an attempt.
Begin ==
  /\ pc = "start"
  /\ \/ /\ mode = "bounded"
        /\ \E bh \in 1..blockhash : tx' = [bh |-> bh, limit |-> 0, price |-> 0]
        /\ pc' = "sending"
     \/ mode = "rebuild" /\ pc' = "building" /\ UNCHANGED tx
  /\ UNCHANGED <<mode, attemptNum, attempts, cuLimit, cuPrice, blockhash, chain>>

Build ==
  /\ pc = "building"
  /\ tx' = [bh |-> blockhash, limit |-> cuLimit, price |-> cuPrice]
  /\ pc' = "sending"
  /\ UNCHANGED <<mode, attemptNum, attempts, cuLimit, cuPrice, blockhash, chain>>

Record(outcome) ==
  attempts' = Append(attempts, [outcome |-> outcome, limit |-> cuLimit, price |-> cuPrice])

\* The retry rules of sendWithBoundedRetry.
BoundedRetries(kind) == attemptNum < MaxAttempts /\ kind # "other"

\* Compute-budget bumps of sendWithRebuildRetry; the bounded sender only logs them.
BumpedNever(kind) == UNCHANGED <<cuLimit, cuPrice>>
Bumped(kind) ==
  /\ cuLimit' = IF kind = "compute" THEN cuLimit + 1 ELSE cuLimit
  /\ cuPrice' = IF kind = "priority" THEN cuPrice + 1 ELSE cuPrice

\* The slip refreshes the blockhash after any failure.
BoundedRefreshes(kind) ==
  /\ mode = "bounded"
  /\ \/ attemptNum = MaxAttempts /\ pc' = "done"
     \/ attemptNum < MaxAttempts /\ pc' = "refreshing"
  /\ UNCHANGED <<cuLimit, cuPrice, attemptNum>>
BoundedFails(kind) ==
  /\ mode = "bounded"
  /\ \/ ~BoundedRetries(kind) /\ pc' = "done" /\ UNCHANGED attemptNum
     \/ BoundedRetries(kind) /\ kind = "blockhash" /\ pc' = "refreshing" /\ UNCHANGED attemptNum
     \/ BoundedRetries(kind) /\ kind # "blockhash" /\ pc' = "sending" /\ attemptNum' = attemptNum + 1
  /\ UNCHANGED <<cuLimit, cuPrice>>

LastAttempt == attemptNum = MaxAttempts

\* sendWithRebuildRetry goes on to the next attempt whatever failed.
RebuildFails(kind) ==
  /\ mode = "rebuild"
  /\ \/ /\ ~LastAttempt
        /\ attemptNum' = attemptNum + 1 /\ pc' = "building"
        /\ Bumped(kind)
     \/ /\ LastAttempt
        /\ pc' = "done"
        /\ UNCHANGED <<attemptNum, cuLimit, cuPrice>>

Fails(kind) == Record(kind) /\ (BoundedFails(kind) \/ RebuildFails(kind))

\* getLatestBlockhash or buildTx throws.
BuildFails(kind) ==
  /\ pc = "building"
  /\ Fails(kind)
  /\ UNCHANGED <<mode, tx, blockhash, chain>>

\* The send returns a signature, is refused, or throws after the cluster took
\* the transaction: then the error is the transport's, of no special class.
Send ==
  /\ pc = "sending"
  /\ pc' = "polling" /\ chain' = Accepted(tx)
  /\ UNCHANGED <<mode, attemptNum, attempts, cuLimit, cuPrice, tx, blockhash>>

SendRefused(kind) ==
  /\ pc = "sending"
  /\ Fails(kind)
  /\ UNCHANGED <<mode, tx, blockhash, chain>>

SendLost ==
  /\ pc = "sending"
  /\ Fails("other")
  /\ chain' = Accepted(tx)
  /\ UNCHANGED <<mode, tx, blockhash>>

\* The refresh of the blockhash before a retry; if it throws the loop breaks.
Refresh ==
  /\ pc = "refreshing"
  /\ \/ /\ tx' = [tx EXCEPT !.bh = blockhash]
        /\ attemptNum' = attemptNum + 1 /\ pc' = "sending"
     \/ pc' = "done" /\ UNCHANGED <<tx, attemptNum>>
  /\ UNCHANGED <<mode, attempts, cuLimit, cuPrice, blockhash, chain>>

\* confirmSignatureByPolling. Polls that find no status, a "processed" one or
\* an RPC error change nothing; the error of a failed transaction is printed as
\* JSON, which never reads as a blockhash failure.
PollConfirmed ==
  /\ pc = "polling" /\ chain[tx] = "landed"
  /\ Record("success") /\ pc' = "done"
  /\ UNCHANGED <<mode, attemptNum, cuLimit, cuPrice, tx, blockhash, chain>>

PollFailed(kind) ==
  /\ pc = "polling" /\ chain[tx] = "failed" /\ kind # "blockhash"
  /\ Fails(kind)
  /\ UNCHANGED <<mode, tx, blockhash, chain>>

PollTimesOutNever == FALSE
PollTimesOut ==
  /\ pc = "polling"
  /\ Fails("other")
  /\ UNCHANGED <<mode, tx, blockhash, chain>>

-----------------------------------------------------------------------------
Sender ==
  \/ Begin \/ Build \/ Send \/ SendLost \/ Refresh \/ PollConfirmed \/ PollTimesOut
  \/ \E kind \in Kinds : BuildFails(kind) \/ SendRefused(kind) \/ PollFailed(kind)

Next == Sender \/ NewBlockhash \/ \E t \in Txs : Settles(t)

\* Every RPC call answers, and the polling has its timeout.
Spec == Init /\ [][Next]_vars /\ WF_vars(Sender)

-----------------------------------------------------------------------------
TypeOK ==
  /\ mode \in Modes
  /\ pc \in {"start", "building", "sending", "polling", "refreshing", "done"}
  /\ attemptNum \in 1..MaxAttempts
  /\ attempts \in Seq(Attempt)
  /\ cuLimit \in Levels /\ cuPrice \in Levels
  /\ tx \in Txs \cup {None}
  /\ blockhash \in 1..MaxBlockhash
  /\ chain \in [Txs -> ChainStates]

\* The bounded sender never risks landing two different transactions: when it
\* sends another one the earlier can no longer land.
OneTransactionAtRisk ==
  mode = "bounded" =>
    \A t, u \in Txs : {chain[t], chain[u]} \subseteq {"inflight", "landed"} => t = u

\* An attempt that follows a compute or priority failure asks for more of what
\* was short, and no attempt asks for less than an earlier one.
BudgetEscalates ==
  mode = "rebuild" =>
    \A i, j \in DOMAIN attempts :
      i < j => /\ attempts[j].limit >= attempts[i].limit /\ attempts[j].price >= attempts[i].price
               /\ attempts[i].outcome = "compute" => attempts[j].limit > attempts[i].limit
               /\ attempts[i].outcome = "priority" => attempts[j].price > attempts[i].price

\* A broadcast returns to the executor, whose tick waits for it.
BroadcastEnds == <>(pc = "done")
=============================================================================
