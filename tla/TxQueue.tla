------------------------------ MODULE TxQueue -------------------------------
(***************************************************************************)
(* What the users of the transaction queue rely on: a single shared value, *)
(* and operations that each take effect at one instant between their call  *)
(* and their return, or, when the process dies first, not at all.  This is *)
(* the abstract specification; TxQueueFile says what the code does.        *)
(***************************************************************************)
EXTENDS QueueOps

CONSTANT Actors

VARIABLES queue,   \* the value every reader sees
          call     \* the operations under way: at most one per actor

vars == <<queue, call>>

Idle == [name |-> "idle", keys |-> {}, plans |-> EmptyQueue]

Init == /\ queue \in Snapshot
        /\ call = [a \in Actors |-> Idle]

Invoke(a) == /\ call[a] = Idle
             /\ \E o \in Op : call' = [call EXCEPT ![a] = o]
             /\ UNCHANGED queue

Commit(a) == /\ call[a] # Idle
             /\ queue' = Apply(call[a], queue)
             /\ call' = [call EXCEPT ![a] = Idle]

Crash == /\ call' = [a \in Actors |-> Idle]
         /\ UNCHANGED queue

Next == Crash \/ \E a \in Actors : Invoke(a) \/ Commit(a)

Spec == Init /\ [][Next]_vars
=============================================================================
