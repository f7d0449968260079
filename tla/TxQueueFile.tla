----------------------------- MODULE TxQueueFile -----------------------------
(***************************************************************************)
(* The transaction queue as the code keeps it: one JSON file, written by   *)
(* shared/fs.ts through one temporary file whose name is the same for      *)
(* every writer, by up to three actors of one Node process:                *)
(*   "cycle"     the scheduler cycle: refreshQueue, then the executor,     *)
(*               which drops or downgrades plans (scheduler/, execute/);   *)
(*   "pipeline"  the periodic rebuild of live.ts, which replaces the queue;*)
(*   "realtime"  the forecast updater: refreshSubset and enqueuePlans.     *)
(*                                                                         *)
(* A synchronous save (saveQueue) holds the JavaScript thread from the     *)
(* load to the rename.  An asynchronous one (writeJsonAtomic) gives it up  *)
(* after the load; each file operation then runs on the thread pool, where *)
(* it may land between two system calls of a synchronous save, and the     *)
(* next one is issued by a later turn of the JavaScript thread.            *)
(***************************************************************************)
EXTENDS QueueOps

CONSTANTS Actors,    \* which of the three actors this process runs
          Inodes,    \* the files the file system can hold
          NoInode,   \* a name that is not bound to a file
          NoActor    \* nobody holds the JavaScript thread

ASSUME ActorsAssumption == Actors \subseteq {"cycle", "pipeline", "realtime"}
ASSUME NoActorAssumption == NoActor \notin Actors
ASSUME NoInodeAssumption == NoInode \notin Inodes

VARIABLES file,        \* the inode data/tx_queue.json names, or NoInode
          tmp,         \* the inode data/tx_queue.json.tmp names, or NoInode
          data,        \* what each inode holds
          touched,     \* the queue file was modified since refreshSubset read its mtime
          js,          \* the actor inside a synchronous save, or NoActor
          pc,          \* where each actor is in its operation
          op,          \* the operation of each actor
          buf,         \* the JSON it is about to write
          fd,          \* the inode its open descriptor names
          leftover,    \* a crash left a temporary file that nobody has renamed since
          overlapped   \* two writers have been between open and rename at once

vars == <<file, tmp, data, touched, js, pc, op, buf, fd, leftover, overlapped>>

\* What a file holds: the JSON of a queue, nothing yet, or a shorter text
\* written over a longer one, which does not parse.
Json(q) == [kind |-> "json", queue |-> q]
NoText == [kind |-> "empty", queue |-> EmptyQueue]
TornText == [kind |-> "torn", queue |-> EmptyQueue]
Content == [kind : {"json"}, queue : Snapshot] \union {NoText, TornText}

Idle == [name |-> "idle", keys |-> {}, plans |-> EmptyQueue]

PC == {"idle", "check", "mkdir", "open", "opened", "write", "written", "rename", "settle"}

\* Between open and rename an actor uses the temporary file.
UsesTmp(a) == pc[a] \in {"opened", "write", "written", "rename"}

TypeOK ==
  /\ file \in Inodes \union {NoInode}
  /\ tmp \in Inodes \union {NoInode}
  /\ data \in [Inodes -> Content]
  /\ touched \in BOOLEAN
  /\ js \in Actors \union {NoActor}
  /\ pc \in [Actors -> PC]
  /\ op \in [Actors -> Op \union {Idle}]
  /\ buf \in [Actors -> Snapshot]
  /\ fd \in [Actors -> Inodes \union {NoInode}]
  /\ leftover \in BOOLEAN
  /\ overlapped \in BOOLEAN

Init ==
  /\ \/ file = NoInode /\ data = [i \in Inodes |-> NoText]
     \/ /\ file \in Inodes
        /\ \E q \in Snapshot : data = [i \in Inodes |-> IF i = file THEN Json(q) ELSE NoText]
  /\ tmp = NoInode
  /\ touched = FALSE
  /\ js = NoActor
  /\ pc = [a \in Actors |-> "idle"]
  /\ op = [a \in Actors |-> Idle]
  /\ buf = [a \in Actors |-> EmptyQueue]
  /\ fd = [a \in Actors |-> NoInode]
  /\ leftover = FALSE
  /\ overlapped = FALSE

-----------------------------------------------------------------------------
(* Calls.  loadQueue answers the empty queue when the file is missing or    *)
(* does not parse.                                                          *)

LoadQueue ==
  IF file # NoInode /\ data[file].kind = "json" THEN data[file].queue ELSE EmptyQueue

\* The call of operation o by a: it loads the queue and computes what to write;
\* when there is nothing to write it has returned already.
Call(a, o, next, thread) ==
  /\ pc[a] = "idle"
  /\ js = NoActor
  /\ Writes(o, LoadQueue)
  /\ op' = [op EXCEPT ![a] = o]
  /\ buf' = [buf EXCEPT ![a] = Apply(o, LoadQueue)]
  /\ pc' = [pc EXCEPT ![a] = next]
  /\ js' = thread
  /\ UNCHANGED <<file, tmp, data, fd, leftover, overlapped>>

\* dropPlanFromQueue, awaited by the executor.
DropPlanFromQueue(a) ==
  /\ a = "cycle"
  /\ \E k \in Keys : Call(a, [name |-> "drop", keys |-> {k}, plans |-> EmptyQueue],
                          "mkdir", NoActor)
  /\ UNCHANGED touched

\* downgradeBlockedPlan, awaited by the executor.
DowngradeBlockedPlan(a) ==
  /\ a = "cycle"
  /\ \E k \in Keys : Call(a, [name |-> "downgrade", keys |-> {k}, plans |-> EmptyQueue],
                          "mkdir", NoActor)
  /\ UNCHANGED touched

\* refreshQueue with no candidate source: every flagged plan is recomputed from
\* a stand-in candidate that carries no reserves.
RefreshQueue(a) ==
  /\ a = "cycle"
  /\ \E ks \in SUBSET PlanKeys(LoadQueue) :
       Call(a, [name |-> "refresh", keys |-> ks,
                plans |-> [k \in Keys |-> IF k \in ks THEN "legacy" ELSE "absent"]],
            "open", a)
  /\ UNCHANGED touched

\* replaceQueue, awaited by buildQueue: the plans come from the candidates
\* file, whatever the queue holds.
ReplaceQueue(a) ==
  /\ a = "pipeline"
  /\ \E new \in Built : Call(a, [name |-> "replace", keys |-> {}, plans |-> new],
                             "mkdir", NoActor)
  /\ UNCHANGED touched

\* enqueuePlans, called by the shadow promotion with the plans it built.
EnqueuePlans(a) ==
  /\ a = "realtime"
  /\ \E new \in Built : Call(a, [name |-> "enqueue", keys |-> {}, plans |-> new],
                             "open", a)
  /\ UNCHANGED touched

\* refreshSubset, called by the updater's flush timer, up to the recomputation.
RefreshSubset(a) ==
  /\ a = "realtime"
  /\ \E ks \in SUBSET Keys, candidates \in Built :
       /\ \A k \in Keys \ ks : candidates[k] = "absent"
       /\ Call(a, [name |-> "refresh", keys |-> ks, plans |-> candidates], "check", a)
  /\ touched' = FALSE

\* refreshSubset, the rest: when the mtime moved it loads again and puts the
\* recomputed plans over the ones that are still there.
MergeIfTouched(a) ==
  /\ pc[a] = "check"
  /\ buf' = [buf EXCEPT ![a] =
               IF ~touched THEN @
               ELSE [k \in Keys |->
                       IF k \in op[a].keys \intersect PlanKeys(@) \intersect PlanKeys(LoadQueue)
                       THEN @[k] ELSE LoadQueue[k]]]
  /\ pc' = [pc EXCEPT ![a] = "open"]
  /\ UNCHANGED <<file, tmp, data, touched, js, op, fd, leftover, overlapped>>

-----------------------------------------------------------------------------
(* The file operations, in the order writeJsonAtomic and                    *)
(* writeJsonAtomicSync issue them.  A synchronous save goes straight to the *)
(* next one; an asynchronous one waits for a turn of the JavaScript thread. *)

Advance(a, sync, async) == pc' = [pc EXCEPT ![a] = IF js = a THEN sync ELSE async]

\* Mutant of Issue: the rename does not wait for the write.
IssueUnawaited(a) ==
  /\ js = NoActor
  /\ \/ pc[a] = "mkdir"   /\ pc' = [pc EXCEPT ![a] = "open"]
     \/ pc[a] = "opened"  /\ pc' = [pc EXCEPT ![a] = "rename"]
     \/ pc[a] = "written" /\ pc' = [pc EXCEPT ![a] = "rename"]
  /\ UNCHANGED <<file, tmp, data, touched, js, op, buf, fd, leftover, overlapped>>

\* A turn of the JavaScript thread issues the next file operation of an
\* asynchronous save: mkdir has resolved, the file is open, the file is written.
Issue(a) ==
  /\ js = NoActor
  /\ \/ pc[a] = "mkdir"   /\ pc' = [pc EXCEPT ![a] = "open"]
     \/ pc[a] = "opened"  /\ pc' = [pc EXCEPT ![a] = "write"]
     \/ pc[a] = "written" /\ pc' = [pc EXCEPT ![a] = "rename"]
  /\ UNCHANGED <<file, tmp, data, touched, js, op, buf, fd, leftover, overlapped>>

Unused(i) == i \notin {file, tmp} /\ \A b \in Actors : fd[b] # i

\* writeFile opens the temporary file with O_CREAT and O_TRUNC.
OpenTmp(a) ==
  /\ pc[a] = "open"
  /\ \E i \in Inodes :
       /\ IF tmp # NoInode THEN i = tmp ELSE Unused(i)
       /\ tmp' = i
       /\ data' = [data EXCEPT ![i] = NoText]
       /\ fd' = [fd EXCEPT ![a] = i]
  /\ Advance(a, "write", "opened")
  /\ overlapped' = (overlapped \/ \E b \in Actors \ {a} : UsesTmp(b))
  /\ UNCHANGED <<file, touched, js, op, buf, leftover>>

\* writeFile writes the text from the start of the file it opened, whatever
\* name that file has by now, and closes it.  Over a longer text of another
\* writer the end of that text remains.
WriteFile(a) ==
  /\ pc[a] = "write"
  /\ fd' = [fd EXCEPT ![a] = NoInode]
  /\ \E c \in {Json(buf[a])} \union IF data[fd[a]] = NoText THEN {} ELSE {TornText} :
       data' = [data EXCEPT ![fd[a]] = c]
  /\ touched' = (touched \/ (fd[a] = file /\ \E b \in Actors : pc[b] = "check"))
  /\ Advance(a, "rename", "written")
  /\ UNCHANGED <<file, tmp, js, op, buf, leftover, overlapped>>

Return(a) ==
  /\ op' = [op EXCEPT ![a] = Idle]
  /\ buf' = [buf EXCEPT ![a] = EmptyQueue]
  /\ Advance(a, "idle", "settle")
  /\ js' = IF js = a THEN NoActor ELSE js

\* rename: the temporary file takes the place of the queue file; the call
\* settles.
RenameTmp(a) ==
  /\ pc[a] = "rename"
  /\ tmp # NoInode
  /\ file' = tmp
  /\ tmp' = NoInode
  /\ touched' = (touched \/ \E b \in Actors : pc[b] = "check")
  /\ leftover' = FALSE
  /\ Return(a)
  /\ UNCHANGED <<data, fd, overlapped>>

\* Mutant: the failure is swallowed and the promise never settles.
RenameFailsSilently(a) ==
  /\ pc[a] = "rename"
  /\ tmp = NoInode
  /\ UNCHANGED vars

\* rename fails with ENOENT when another writer has renamed the temporary file
\* away: the call throws or rejects.
RenameFails(a) ==
  /\ pc[a] = "rename"
  /\ tmp = NoInode
  /\ Return(a)
  /\ UNCHANGED <<file, tmp, data, touched, fd, leftover, overlapped>>

\* The awaiting caller resumes.
Settle(a) ==
  /\ pc[a] = "settle"
  /\ js = NoActor
  /\ pc' = [pc EXCEPT ![a] = "idle"]
  /\ UNCHANGED <<file, tmp, data, touched, js, op, buf, fd, leftover, overlapped>>

\* The process exits (a signal, process.exit) and is started again: the files
\* stay, everything else is gone.
Crash ==
  /\ js' = NoActor
  /\ touched' = FALSE
  /\ pc' = [a \in Actors |-> "idle"]
  /\ op' = [a \in Actors |-> Idle]
  /\ buf' = [a \in Actors |-> EmptyQueue]
  /\ fd' = [a \in Actors |-> NoInode]
  /\ leftover' = (tmp # NoInode)
  /\ UNCHANGED <<file, tmp, data, overlapped>>

CallStep(a) ==
  \/ DropPlanFromQueue(a) \/ DowngradeBlockedPlan(a) \/ RefreshQueue(a)
  \/ ReplaceQueue(a) \/ EnqueuePlans(a) \/ RefreshSubset(a)

WriterStep(a) ==
  \/ MergeIfTouched(a) \/ Issue(a) \/ OpenTmp(a) \/ WriteFile(a)
  \/ RenameTmp(a) \/ RenameFails(a) \/ Settle(a)

Next == Crash \/ \E a \in Actors : CallStep(a) \/ WriterStep(a)

Spec == Init /\ [][Next]_vars

\* Every file operation that has started ends, and a synchronous save runs to
\* its end.  A continuation that waits for the JavaScript thread is queued on
\* the event loop, which takes its turns in order, so other actors' saves can
\* delay it but not for ever.  Nothing is assumed of calls or crashes.
FairSpec == Spec /\ \A a \in Actors : /\ WF_vars(WriterStep(a))
                                      /\ SF_vars(Issue(a) \/ Settle(a))
-----------------------------------------------------------------------------
(* Properties. *)

\* A temporary file is there only while some save is between its open and its
\* rename, or when a crash has left it: no interleaving of saves leaves one.
NoLeftoverTmp == tmp # NoInode => leftover \/ \E a \in Actors : UsesTmp(a)

Whole == file # NoInode => data[file].kind = "json"

\* shared/fs.ts "to avoid partial reads": whenever a reader of this process
\* can run, the queue file holds a complete snapshot.
NoPartialRead == js = NoActor => Whole

\* The queue file can be broken only after two saves have used the one
\* temporary file at the same time; crashes alone never break it.
TornOnlyByOverlap == ~overlapped => Whole

\* An operation that has been called ends, by success or by failure.
EveryCallEnds == \A a \in Actors : (pc[a] # "idle") ~> (pc[a] = "idle")

\* The queue as its readers see it, and the operations under way: with a single
\* actor the file behaves as the atomic queue of TxQueue.
Queue == INSTANCE TxQueue WITH queue <- LoadQueue, call <- op
AtomicQueue == Queue!Spec
=============================================================================
