------------------------- MODULE TxQueueFile_proofs -------------------------
(***************************************************************************)
(* Theorems about TxQueueFile for every set of keys, actors and inodes.    *)
(***************************************************************************)
EXTENDS TxQueueFile, TLAPS

-----------------------------------------------------------------------------
(* The queue operations. *)

\* Every operation maps a queue to a queue.
LEMMA ApplyType ==
  ASSUME NEW o \in Op, NEW q \in Snapshot
  PROVE  Apply(o, q) \in Snapshot
<1>1. CASE o.name = "drop"
  BY <1>1 DEF Apply, DropPlan, Snapshot
<1>2. CASE o.name = "downgrade"
  BY <1>2 DEF Apply, DowngradePlan, Snapshot, Plan, Complete
<1>3. CASE o.name = "refresh"
  <2>1. RefreshPlans(q, o.keys, o.plans) \in Snapshot
    BY DEF RefreshPlans, RecomputePlan, Snapshot, Plan, Complete
  <2>. QED BY <1>3, <2>1 DEF Apply
<1>4. CASE o.name = "replace"
  BY <1>4 DEF Apply, Op, Built, Snapshot, Plan, Complete
<1>5. CASE o.name = "enqueue"
  <2>1. MergePlans(q, o.plans) \in Snapshot
    BY DEF MergePlans, Snapshot, Plan, Complete
  <2>. QED BY <1>5, <2>1 DEF Apply
<1>. QED BY <1>1, <1>2, <1>3, <1>4, <1>5 DEF Op

LEMMA EmptyQueueType == EmptyQueue \in Snapshot
  BY DEF EmptyQueue, Snapshot

\* The empty queue is also a list of plans to build from.
LEMMA EmptyQueueBuilt == EmptyQueue \in Built
  BY DEF EmptyQueue, Built

\* What loadQueue answers is a queue.
LEMMA LoadQueueType ==
  ASSUME TypeOK
  PROVE  LoadQueue \in Snapshot
  BY EmptyQueueType DEF TypeOK, LoadQueue, Content, Json, NoText, TornText

-----------------------------------------------------------------------------
(* Type correctness. *)

\* The effect of a call on the variables it sets.
LEMMA CallType ==
  ASSUME TypeOK, NEW a \in Actors, NEW o \in Op, NEW next \in PC,
         NEW thread \in Actors \union {NoActor}, Call(a, o, next, thread),
         touched' \in BOOLEAN
  PROVE  TypeOK'
<1>1. Apply(o, LoadQueue) \in Snapshot
  BY ApplyType, LoadQueueType
<1>. QED BY <1>1 DEF TypeOK, Call

LEMMA CallStepType ==
  ASSUME TypeOK, NEW a \in Actors, CallStep(a)
  PROVE  TypeOK'
<1>. USE EmptyQueueBuilt DEF PC
<1>1. CASE DropPlanFromQueue(a)
  <2>1. PICK k \in Keys : Call(a, [name |-> "drop", keys |-> {k}, plans |-> EmptyQueue],
                               "mkdir", NoActor)
    BY <1>1 DEF DropPlanFromQueue
  <2>2. [name |-> "drop", keys |-> {k}, plans |-> EmptyQueue] \in Op
    BY DEF Op
  <2>. QED BY <1>1, <2>1, <2>2, CallType DEF DropPlanFromQueue, TypeOK
<1>2. CASE DowngradeBlockedPlan(a)
  <2>1. PICK k \in Keys : Call(a, [name |-> "downgrade", keys |-> {k}, plans |-> EmptyQueue],
                               "mkdir", NoActor)
    BY <1>2 DEF DowngradeBlockedPlan
  <2>2. [name |-> "downgrade", keys |-> {k}, plans |-> EmptyQueue] \in Op
    BY DEF Op
  <2>. QED BY <1>2, <2>1, <2>2, CallType DEF DowngradeBlockedPlan, TypeOK
<1>3. CASE RefreshQueue(a)
  <2>1. PICK ks \in SUBSET PlanKeys(LoadQueue) :
          Call(a, [name |-> "refresh", keys |-> ks,
                   plans |-> [k \in Keys |-> IF k \in ks THEN "legacy" ELSE "absent"]],
               "open", a)
    BY <1>3 DEF RefreshQueue
  <2>2. [name |-> "refresh", keys |-> ks,
         plans |-> [k \in Keys |-> IF k \in ks THEN "legacy" ELSE "absent"]] \in Op
    BY DEF Op, Built, PlanKeys
  <2>. QED BY <1>3, <2>1, <2>2, CallType DEF RefreshQueue, TypeOK
<1>4. CASE ReplaceQueue(a)
  <2>1. PICK new \in Built : Call(a, [name |-> "replace", keys |-> {}, plans |-> new],
                                  "mkdir", NoActor)
    BY <1>4 DEF ReplaceQueue
  <2>2. [name |-> "replace", keys |-> {}, plans |-> new] \in Op
    BY DEF Op
  <2>. QED BY <1>4, <2>1, <2>2, CallType DEF ReplaceQueue, TypeOK
<1>5. CASE EnqueuePlans(a)
  <2>1. PICK new \in Built : Call(a, [name |-> "enqueue", keys |-> {}, plans |-> new],
                                  "open", a)
    BY <1>5 DEF EnqueuePlans
  <2>2. [name |-> "enqueue", keys |-> {}, plans |-> new] \in Op
    BY DEF Op
  <2>. QED BY <1>5, <2>1, <2>2, CallType DEF EnqueuePlans, TypeOK
<1>6. CASE RefreshSubset(a)
  <2>1. PICK ks \in SUBSET Keys, candidates \in Built :
          Call(a, [name |-> "refresh", keys |-> ks, plans |-> candidates], "check", a)
    BY <1>6 DEF RefreshSubset
  <2>2. [name |-> "refresh", keys |-> ks, plans |-> candidates] \in Op
    BY DEF Op
  <2>. QED BY <1>6, <2>1, <2>2, CallType DEF RefreshSubset
<1>. QED BY <1>1, <1>2, <1>3, <1>4, <1>5, <1>6 DEF CallStep

LEMMA WriterStepType ==
  ASSUME TypeOK, NEW a \in Actors, WriterStep(a)
  PROVE  TypeOK'
<1>. USE EmptyQueueType DEF TypeOK, PC
<1>1. CASE MergeIfTouched(a)
  <2>1. [k \in Keys |->
           IF k \in op[a].keys \intersect PlanKeys(buf[a]) \intersect PlanKeys(LoadQueue)
           THEN buf[a][k] ELSE LoadQueue[k]] \in Snapshot
    BY LoadQueueType DEF Snapshot
  <2>2. buf' \in [Actors -> Snapshot]
    BY <1>1, <2>1 DEF MergeIfTouched
  <2>. QED BY <1>1, <2>2 DEF MergeIfTouched
<1>2. CASE Issue(a)
  BY <1>2 DEF Issue
<1>3. CASE OpenTmp(a)
  BY <1>3 DEF OpenTmp, Advance, Content
<1>4. CASE WriteFile(a)
  <2>1. PICK c \in {Json(buf[a]), TornText} : data' = [data EXCEPT ![fd[a]] = c]
    BY <1>4 DEF WriteFile
  <2>2. c \in Content
    BY <2>1 DEF Content, Json
  <2>3. data' \in [Inodes -> Content]
    BY <2>1, <2>2
  <2>4. touched' \in BOOLEAN
    BY <1>4 DEF WriteFile
  <2>. QED BY <1>4, <2>3, <2>4 DEF WriteFile, Advance
<1>5. CASE RenameTmp(a)
  BY <1>5 DEF RenameTmp, Return, Advance
<1>6. CASE RenameFails(a)
  BY <1>6 DEF RenameFails, Return, Advance
<1>7. CASE Settle(a)
  BY <1>7 DEF Settle
<1>. QED BY <1>1, <1>2, <1>3, <1>4, <1>5, <1>6, <1>7 DEF WriterStep

\* Type correctness of the queue file and its writers.
THEOREM TypeCorrect == Spec => []TypeOK
<1>1. Init => TypeOK
  <2>. SUFFICES ASSUME Init PROVE TypeOK
    OBVIOUS
  <2>1. data \in [Inodes -> Content]
    BY DEF Init, Content, Json
  <2>. QED BY <2>1, EmptyQueueType DEF Init, TypeOK, PC
<1>2. TypeOK /\ [Next]_vars => TypeOK'
  <2>. SUFFICES ASSUME TypeOK, [Next]_vars PROVE TypeOK'
    OBVIOUS
  <2>1. CASE Crash
    BY <2>1, EmptyQueueType DEF Crash, TypeOK, PC
  <2>2. ASSUME NEW a \in Actors, CallStep(a) PROVE TypeOK'
    BY <2>2, CallStepType
  <2>3. ASSUME NEW a \in Actors, WriterStep(a) PROVE TypeOK'
    BY <2>3, WriterStepType
  <2>4. CASE UNCHANGED vars
    BY <2>4 DEF vars, TypeOK
  <2>. QED BY <2>1, <2>2, <2>3, <2>4 DEF Next
<1>. QED BY <1>1, <1>2, PTL DEF Spec

-----------------------------------------------------------------------------
(* No temporary file is left behind. *)

\* A call touches neither the names of the files nor who uses the temporary one.
LEMMA CallStepEffect ==
  ASSUME TypeOK, NEW a \in Actors, CallStep(a)
  PROVE  /\ UNCHANGED <<file, tmp, data, fd, leftover, overlapped>>
         /\ pc' = [pc EXCEPT ![a] = pc'[a]]
         /\ pc[a] = "idle" /\ pc'[a] \in {"mkdir", "open", "check"}
         /\ js = NoActor
  BY DEF CallStep, DropPlanFromQueue, DowngradeBlockedPlan, RefreshQueue, ReplaceQueue,
         EnqueuePlans, RefreshSubset, Call, TypeOK

\* NoLeftoverTmp is inductive as it stands.
THEOREM NoLeftover == Spec => []NoLeftoverTmp
<1>1. Init => NoLeftoverTmp
  BY DEF Init, NoLeftoverTmp
<1>2. TypeOK /\ NoLeftoverTmp /\ [Next]_vars => NoLeftoverTmp'
  <2>. SUFFICES ASSUME TypeOK, NoLeftoverTmp, [Next]_vars PROVE NoLeftoverTmp'
    OBVIOUS
  <2>. USE DEF NoLeftoverTmp, UsesTmp
  <2>1. CASE Crash
    BY <2>1 DEF Crash
  <2>2. ASSUME NEW a \in Actors, CallStep(a) PROVE NoLeftoverTmp'
    BY <2>2, CallStepEffect DEF TypeOK
  <2>3. ASSUME NEW a \in Actors, WriterStep(a) PROVE NoLeftoverTmp'
    <3>1. CASE MergeIfTouched(a)
      BY <3>1 DEF MergeIfTouched, TypeOK
    <3>2. CASE Issue(a)
      BY <3>2 DEF Issue, TypeOK
    <3>3. CASE OpenTmp(a)
      BY <3>3 DEF OpenTmp, Advance, TypeOK
    <3>4. CASE WriteFile(a)
      BY <3>4 DEF WriteFile, Advance, TypeOK
    <3>5. CASE RenameTmp(a)
      BY <3>5 DEF RenameTmp
    <3>6. CASE RenameFails(a)
      BY <3>6 DEF RenameFails
    <3>7. CASE Settle(a)
      BY <3>7 DEF Settle, TypeOK
    <3>. QED BY <2>3, <3>1, <3>2, <3>3, <3>4, <3>5, <3>6, <3>7 DEF WriterStep
  <2>4. CASE UNCHANGED vars
    BY <2>4 DEF vars
  <2>. QED BY <2>1, <2>2, <2>3, <2>4 DEF Next
<1>. QED BY <1>1, <1>2, TypeCorrect, PTL DEF Spec

-----------------------------------------------------------------------------
(* Only overlapping saves break the queue file. *)

\* As long as no two saves have used the temporary file at the same time, the
\* one that uses it finds it as it left it.
Exclusive ==
  /\ \A a, b \in Actors : UsesTmp(a) /\ UsesTmp(b) => a = b
  /\ \A a \in Actors : UsesTmp(a) => tmp # NoInode
  /\ \A a \in Actors : pc[a] \in {"opened", "write"} => fd[a] = tmp /\ data[tmp] = NoText
  /\ \A a \in Actors : pc[a] \in {"written", "rename"} => data[tmp].kind = "json"

\* The inductive invariant: the two names never share an inode, and without an
\* overlap the file is whole and the temporary file belongs to one save.
WholeInv == /\ tmp # NoInode => tmp # file
            /\ ~overlapped => Whole /\ Exclusive

LEMMA WholeInvInit == Init => WholeInv
  BY DEF Init, WholeInv, Whole, Exclusive, UsesTmp, Json

LEMMA WholeInvWriterStep ==
  ASSUME TypeOK, WholeInv, NEW a \in Actors, WriterStep(a)
  PROVE  WholeInv'
<1>. USE NoInodeAssumption DEF WholeInv, Whole, Exclusive, UsesTmp
<1>1. CASE MergeIfTouched(a)
  BY <1>1 DEF MergeIfTouched, TypeOK
<1>2. CASE Issue(a)
  BY <1>2 DEF Issue, TypeOK
<1>3. CASE OpenTmp(a)
  <2>1. PICK i \in Inodes : /\ IF tmp # NoInode THEN i = tmp ELSE Unused(i)
                            /\ tmp' = i
                            /\ data' = [data EXCEPT ![i] = NoText]
                            /\ fd' = [fd EXCEPT ![a] = i]
    BY <1>3 DEF OpenTmp
  <2>2. tmp' # NoInode /\ tmp' # file' /\ file' = file
    BY <1>3, <2>1 DEF OpenTmp, Unused
  <2>3. pc' = [pc EXCEPT ![a] = pc'[a]] /\ pc'[a] \in {"write", "opened"}
    BY <1>3 DEF OpenTmp, Advance, TypeOK
  <2>4. ASSUME ~overlapped' PROVE Whole' /\ Exclusive'
    <3>1. ~overlapped /\ \A b \in Actors \ {a} : ~UsesTmp(b)
      BY <1>3, <2>4 DEF OpenTmp
    <3>2. Whole'
      BY <2>1, <2>2, <3>1 DEF TypeOK
    <3>3. Exclusive'
      BY <2>1, <2>2, <2>3, <3>1 DEF TypeOK
    <3>. QED BY <3>2, <3>3
  <2>. QED BY <2>2, <2>4
<1>4. CASE WriteFile(a)
  <2>1. PICK c \in {Json(buf[a])} \union IF data[fd[a]] = NoText THEN {} ELSE {TornText} :
          data' = [data EXCEPT ![fd[a]] = c]
    BY <1>4 DEF WriteFile
  <2>2. pc' = [pc EXCEPT ![a] = pc'[a]] /\ pc'[a] \in {"rename", "written"}
    BY <1>4 DEF WriteFile, Advance, TypeOK
  <2>3. UNCHANGED <<file, tmp, overlapped>> /\ pc[a] = "write" /\ fd' = [fd EXCEPT ![a] = NoInode]
    BY <1>4 DEF WriteFile
  <2>4. ASSUME ~overlapped' PROVE Whole' /\ Exclusive'
    <3>1. fd[a] = tmp /\ data[tmp] = NoText /\ tmp # NoInode /\ tmp # file
      BY <2>3, <2>4
    <3>2. data' = [data EXCEPT ![tmp] = Json(buf[a])]
      BY <2>1, <3>1
    <3>3. Whole'
      BY <2>3, <2>4, <3>1, <3>2 DEF TypeOK
    <3>4. data'[tmp].kind = "json"
      BY <3>1, <3>2 DEF TypeOK, Json
    <3>5. Exclusive'
      BY <2>2, <2>3, <2>4, <3>1, <3>4 DEF TypeOK
    <3>. QED BY <3>3, <3>5
  <2>. QED BY <2>3, <2>4
<1>5. CASE RenameTmp(a)
  BY <1>5 DEF RenameTmp, Return, Advance, TypeOK
<1>6. CASE RenameFails(a)
  BY <1>6 DEF RenameFails, Return, Advance, TypeOK
<1>7. CASE Settle(a)
  BY <1>7 DEF Settle, TypeOK
<1>. QED BY <1>1, <1>2, <1>3, <1>4, <1>5, <1>6, <1>7 DEF WriterStep

LEMMA WholeInvStep == TypeOK /\ WholeInv /\ [Next]_vars => WholeInv'
<1>. SUFFICES ASSUME TypeOK, WholeInv, [Next]_vars PROVE WholeInv'
  OBVIOUS
<1>1. CASE Crash
  BY <1>1 DEF Crash, WholeInv, Whole, Exclusive, UsesTmp
<1>2. ASSUME NEW a \in Actors, CallStep(a) PROVE WholeInv'
  <2>1. \A b \in Actors : pc'[b] = pc[b] \/ (b = a /\ pc'[b] \in {"mkdir", "open", "check"})
    BY <1>2, CallStepEffect DEF TypeOK
  <2>. QED BY <1>2, <2>1, CallStepEffect DEF WholeInv, Whole, Exclusive, UsesTmp
<1>3. ASSUME NEW a \in Actors, WriterStep(a) PROVE WholeInv'
  BY <1>3, WholeInvWriterStep
<1>4. CASE UNCHANGED vars
  BY <1>4 DEF vars, WholeInv, Whole, Exclusive, UsesTmp
<1>. QED BY <1>1, <1>2, <1>3, <1>4 DEF Next

\* The queue file is a whole snapshot until two saves have used the temporary
\* file at once, whatever the crashes.
THEOREM TornNeedsOverlap == Spec => []TornOnlyByOverlap
<1>1. WholeInv => TornOnlyByOverlap
  BY DEF WholeInv, TornOnlyByOverlap
<1>. QED BY <1>1, WholeInvInit, WholeInvStep, TypeCorrect, PTL DEF Spec

-----------------------------------------------------------------------------
(* A single actor keeps the promise of TxQueue. *)

Sole == \A a, b \in Actors : a = b

Underway(a) == pc[a] \notin {"idle", "settle"}

\* With one actor what it is about to write is the operation applied to the
\* queue as its readers still see it, and the temporary file, once written,
\* holds it.
SoleInv ==
  /\ ~overlapped
  /\ \A a \in Actors : IF Underway(a)
                       THEN op[a] \in Op /\ buf[a] = Apply(op[a], LoadQueue)
                       ELSE op[a] = Idle
  /\ \A a \in Actors : pc[a] = "check" => ~touched
  /\ \A a \in Actors : pc[a] \in {"written", "rename"} => data[tmp] = Json(buf[a])

LEMMA IdleNotOp == Idle \notin Op
  BY DEF Idle, Op

\* TxQueue's copy of the queue operations is this one.
LEMMA SameOps ==
  /\ Queue!Idle = Idle /\ Queue!Op = Op /\ Queue!Snapshot = Snapshot
  /\ \A o, q : Queue!Apply(o, q) = Apply(o, q)
<1>. USE DEF Queue!EmptyQueue, EmptyQueue
<1>1. Queue!Idle = Idle
  BY DEF Queue!Idle, Idle
<1>2. Queue!Op = Op
  BY DEF Queue!Op, Op, Queue!Built, Built
<1>3. Queue!Snapshot = Snapshot
  BY DEF Queue!Snapshot, Snapshot, Queue!Plan, Plan, Queue!Complete, Complete
<1>4. ASSUME NEW o, NEW q PROVE Queue!Apply(o, q) = Apply(o, q)
  BY DEF Queue!Apply, Apply, Queue!DropPlan, DropPlan, Queue!DowngradePlan, DowngradePlan,
         Queue!RefreshPlans, RefreshPlans, Queue!RecomputePlan, RecomputePlan,
         Queue!MergePlans, MergePlans, Queue!PlanKeys, PlanKeys, Queue!Complete, Complete
<1>. QED BY <1>1, <1>2, <1>3, <1>4

LEMMA SoleInvInit == Init => SoleInv
  BY DEF Init, SoleInv, Underway

\* A call is an Invoke of TxQueue and records the operation it is about.
LEMMA SoleCallStep ==
  ASSUME Sole, TypeOK, SoleInv, NEW a \in Actors, CallStep(a)
  PROVE  SoleInv' /\ Queue!Invoke(a)
<1>1. /\ UNCHANGED <<file, tmp, data, overlapped>>
      /\ pc' = [pc EXCEPT ![a] = pc'[a]] /\ pc[a] = "idle"
      /\ pc'[a] \in {"mkdir", "open", "check"}
  BY CallStepEffect
<1>2. LoadQueue' = LoadQueue
  BY <1>1 DEF LoadQueue
<1>3. /\ \E o \in Op : op' = [op EXCEPT ![a] = o] /\ buf' = [buf EXCEPT ![a] = Apply(o, LoadQueue)]
      /\ pc'[a] = "check" => ~touched'
  <2>. USE EmptyQueueBuilt
  <2>1. CASE DropPlanFromQueue(a)
    <3>1. \A k \in Keys : [name |-> "drop", keys |-> {k}, plans |-> EmptyQueue] \in Op
      BY DEF Op
    <3>. QED BY <2>1, <3>1 DEF DropPlanFromQueue, Call, TypeOK
  <2>2. CASE DowngradeBlockedPlan(a)
    <3>1. \A k \in Keys : [name |-> "downgrade", keys |-> {k}, plans |-> EmptyQueue] \in Op
      BY DEF Op
    <3>. QED BY <2>2, <3>1 DEF DowngradeBlockedPlan, Call, TypeOK
  <2>3. CASE RefreshQueue(a)
    <3>1. \A ks \in SUBSET PlanKeys(LoadQueue) :
            [name |-> "refresh", keys |-> ks,
             plans |-> [k \in Keys |-> IF k \in ks THEN "legacy" ELSE "absent"]] \in Op
      BY DEF Op, Built, PlanKeys
    <3>. QED BY <2>3, <3>1 DEF RefreshQueue, Call, TypeOK
  <2>4. CASE ReplaceQueue(a)
    <3>1. \A new \in Built : [name |-> "replace", keys |-> {}, plans |-> new] \in Op
      BY DEF Op
    <3>. QED BY <2>4, <3>1 DEF ReplaceQueue, Call, TypeOK
  <2>5. CASE EnqueuePlans(a)
    <3>1. \A new \in Built : [name |-> "enqueue", keys |-> {}, plans |-> new] \in Op
      BY DEF Op
    <3>. QED BY <2>5, <3>1 DEF EnqueuePlans, Call, TypeOK
  <2>6. CASE RefreshSubset(a)
    <3>1. \A ks \in SUBSET Keys, candidates \in Built :
            [name |-> "refresh", keys |-> ks, plans |-> candidates] \in Op
      BY DEF Op
    <3>. QED BY <2>6, <3>1 DEF RefreshSubset, Call, TypeOK
  <2>. QED BY <2>1, <2>2, <2>3, <2>4, <2>5, <2>6 DEF CallStep
<1>4. PICK o \in Op : op' = [op EXCEPT ![a] = o] /\ buf' = [buf EXCEPT ![a] = Apply(o, LoadQueue)]
  BY <1>3
<1>5. \A b \in Actors : b = a
  BY DEF Sole
<1>6. SoleInv'
  <2>1. Underway(a)' /\ op'[a] = o /\ buf'[a] = Apply(o, LoadQueue)
    BY <1>1, <1>4 DEF Underway, TypeOK
  <2>2. ~overlapped' /\ pc'[a] \notin {"written", "rename"}
    BY <1>1 DEF SoleInv
  <2>3. buf'[a] = Apply(op'[a], LoadQueue')
    BY <1>2, <2>1
  <2>. QED BY <1>3, <1>4, <1>5, <2>1, <2>2, <2>3 DEF SoleInv
<1>7. Queue!Invoke(a)
  <2>1. op[a] = Idle
    BY <1>1 DEF SoleInv, Underway
  <2>. QED BY <1>2, <1>4, <2>1, SameOps DEF Queue!Invoke
<1>. QED BY <1>6, <1>7

\* A file operation other than the rename changes nothing a reader sees; the
\* rename is the Commit of TxQueue.
LEMMA SoleWriterStep ==
  ASSUME Sole, TypeOK, WholeInv, SoleInv, NEW a \in Actors, WriterStep(a)
  PROVE  SoleInv' /\ (Queue!Commit(a) \/ (LoadQueue' = LoadQueue /\ op' = op))
<1>1. \A b \in Actors : b = a
  BY DEF Sole
<1>2. WholeInv /\ Exclusive /\ ~overlapped
  BY DEF WholeInv, SoleInv
<1>. USE <1>1, <1>2 DEF SoleInv, Underway
<1>3. CASE MergeIfTouched(a)
  <2>1. buf' = buf /\ pc' = [pc EXCEPT ![a] = "open"] /\ pc[a] = "check"
    BY <1>3 DEF MergeIfTouched, TypeOK
  <2>2. LoadQueue' = LoadQueue /\ op' = op
    BY <1>3 DEF MergeIfTouched, LoadQueue
  <2>3. UNCHANGED overlapped
    BY <1>3 DEF MergeIfTouched
  <2>. QED BY <2>1, <2>2, <2>3 DEF TypeOK
<1>4. CASE Issue(a)
  <2>1. LoadQueue' = LoadQueue /\ op' = op
    BY <1>4 DEF Issue, LoadQueue
  <2>. QED BY <1>4, <2>1 DEF Issue, TypeOK
<1>5. CASE OpenTmp(a)
  <2>1. PICK i \in Inodes : /\ IF tmp # NoInode THEN i = tmp ELSE Unused(i)
                            /\ tmp' = i
                            /\ data' = [data EXCEPT ![i] = NoText]
    BY <1>5 DEF OpenTmp
  <2>2. i # file /\ file' = file
    BY <1>5, <2>1 DEF OpenTmp, Unused, WholeInv
  <2>3. LoadQueue' = LoadQueue
    BY <2>1, <2>2, NoInodeAssumption DEF LoadQueue, TypeOK
  <2>4. ~overlapped' /\ UNCHANGED <<op, buf, touched>>
    BY <1>5 DEF OpenTmp
  <2>5. pc[a] = "open" /\ pc'[a] \in {"write", "opened"}
    BY <1>5 DEF OpenTmp, Advance, TypeOK
  <2>. QED BY <2>3, <2>4, <2>5
<1>6. CASE WriteFile(a)
  <2>1. fd[a] = tmp /\ data[tmp] = NoText /\ tmp # NoInode /\ tmp # file
    BY <1>6 DEF WriteFile, Exclusive, UsesTmp, WholeInv
  <2>2. data' = [data EXCEPT ![tmp] = Json(buf[a])]
    BY <1>6, <2>1 DEF WriteFile
  <2>3. UNCHANGED <<file, tmp, op, buf, overlapped>>
    BY <1>6 DEF WriteFile
  <2>4. LoadQueue' = LoadQueue
    BY <2>1, <2>2, <2>3 DEF LoadQueue, TypeOK
  <2>5. pc[a] = "write" /\ pc'[a] \in {"rename", "written"}
    BY <1>6 DEF WriteFile, Advance, TypeOK
  <2>6. data'[tmp'] = Json(buf'[a])
    BY <2>1, <2>2, <2>3 DEF TypeOK
  <2>. QED BY <2>3, <2>4, <2>5, <2>6
<1>7. CASE RenameTmp(a)
  <2>1. /\ pc[a] = "rename" /\ tmp # NoInode /\ file' = tmp /\ UNCHANGED <<data, overlapped>>
        /\ op' = [op EXCEPT ![a] = Idle]
        /\ pc'[a] \in {"idle", "settle"}
    BY <1>7 DEF RenameTmp, Return, Advance, TypeOK
  <2>2. data[tmp] = Json(buf[a]) /\ buf[a] = Apply(op[a], LoadQueue) /\ op[a] \in Op
    BY <2>1
  <2>3. LoadQueue' = buf[a]
    BY <2>1, <2>2 DEF LoadQueue, Json
  <2>4. Queue!Commit(a)
    BY <2>1, <2>2, <2>3, IdleNotOp, SameOps DEF Queue!Commit
  <2>5. op'[a] = Idle
    BY <2>1 DEF TypeOK
  <2>6. SoleInv'
    BY <2>1, <2>5
  <2>. QED BY <2>4, <2>6
<1>8. CASE RenameFails(a)
  BY <1>8 DEF RenameFails, Exclusive, UsesTmp
<1>9. CASE Settle(a)
  <2>1. LoadQueue' = LoadQueue /\ op' = op
    BY <1>9 DEF Settle, LoadQueue
  <2>. QED BY <1>9, <2>1 DEF Settle, TypeOK
<1>. QED BY <1>3, <1>4, <1>5, <1>6, <1>7, <1>8, <1>9 DEF WriterStep

LEMMA SoleStep ==
  Sole /\ TypeOK /\ WholeInv /\ SoleInv /\ [Next]_vars => SoleInv' /\ [Queue!Next]_(Queue!vars)
<1>. SUFFICES ASSUME Sole, TypeOK, WholeInv, SoleInv, [Next]_vars
              PROVE  SoleInv' /\ [Queue!Next]_(Queue!vars)
  OBVIOUS
<1>1. CASE Crash
  <2>1. LoadQueue' = LoadQueue
    BY <1>1 DEF Crash, LoadQueue
  <2>2. SoleInv'
    BY <1>1 DEF Crash, SoleInv, Underway
  <2>3. Queue!Crash
    BY <1>1, <2>1, SameOps DEF Crash, Queue!Crash
  <2>. QED BY <2>2, <2>3 DEF Queue!Next
<1>2. ASSUME NEW a \in Actors, CallStep(a) PROVE SoleInv' /\ [Queue!Next]_(Queue!vars)
  BY <1>2, SoleCallStep DEF Queue!Next
<1>3. ASSUME NEW a \in Actors, WriterStep(a) PROVE SoleInv' /\ [Queue!Next]_(Queue!vars)
  BY <1>3, SoleWriterStep DEF Queue!Next, Queue!vars
<1>4. CASE UNCHANGED vars
  <2>1. LoadQueue' = LoadQueue
    BY <1>4 DEF vars, LoadQueue
  <2>. QED BY <1>4, <2>1 DEF vars, SoleInv, Underway, Queue!vars
<1>. QED BY <1>1, <1>2, <1>3, <1>4 DEF Next

\* A process that runs one actor, whatever its crashes, keeps the queue file as
\* an atomic queue: every operation takes effect at its rename or not at all.
THEOREM SoleActorIsAtomic == ASSUME Sole PROVE Spec => AtomicQueue
<1>1. Init => Queue!Init
  <2>. SUFFICES ASSUME Init PROVE Queue!Init
    OBVIOUS
  <2>1. LoadQueue \in Snapshot
    BY EmptyQueueType DEF Init, LoadQueue, Json, NoText
  <2>. QED BY <2>1, SameOps DEF Init, Queue!Init
<1>2. TypeOK /\ WholeInv /\ SoleInv /\ [Next]_vars => SoleInv' /\ [Queue!Next]_(Queue!vars)
  BY SoleStep, Sole
<1>. QED BY <1>1, <1>2, WholeInvInit, WholeInvStep, SoleInvInit, TypeCorrect, PTL
         DEF Spec, AtomicQueue, Queue!Spec
=============================================================================
