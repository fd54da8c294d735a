------------------------------ MODULE TaskScan ------------------------------
(***************************************************************************)
(* The readers of TaskLifecycle's records that take no lock: `prime`,       *)
(* `index` and `init`, which regenerate the bucket indexes, and `status`,   *)
(* `doctor`, `prime` and `task next`, which report what they find. One of   *)
(* them runs beside the mutating commands. It lists the buckets one after   *)
(* the other, then reads the files it listed one after the other, so that a *)
(* record that is moved meanwhile may be missed or seen twice.              *)
(***************************************************************************)
EXTENDS TaskLifecycle

VARIABLES
  scan,       \* the scan that is under way, or None
  regen,      \* the indexes a regeneration has yet to write, or None
  moved,      \* history: the tasks with a file that came or went since the scan began
  rewritten   \* history: the tasks with a file that was replaced since then

reader == <<scan, regen, moved, rewritten>>
scanVars == <<vars, reader>>

Scan  == [unlisted : SUBSET Bucket, unread : SUBSET (Bucket \X Task),
          found : SUBSET Write, gone : BOOLEAN]
Regen == [left : SUBSET Bucket, list : Index]

ASSUME ReaderAssumption == None \notin Scan \cup Regen

ScanInit ==
  /\ Init
  /\ scan = None
  /\ regen = None
  /\ moved = {}
  /\ rewritten = {}

------------------------------------------------------------------------------
(* The scan *)

\* invalidateTasks, getTasks; validateWorkflow.
ScanBegin ==
  /\ scan = None
  /\ regen = None
  /\ scan' = [unlisted |-> Bucket, unread |-> {}, found |-> {}, gone |-> FALSE]
  /\ UNCHANGED <<vars, regen, moved, rewritten>>

\* taskBuckets.
NextBucket(bs) ==
  CASE "active" \in bs    -> "active"
    [] "completed" \in bs -> "completed"
    [] OTHER              -> "cancelled"

\* taskFilePathsFor: the buckets in the order of taskBuckets.
ListBucket ==
  /\ scan # None
  /\ scan.unlisted # {}
  /\ LET b == NextBucket(scan.unlisted) IN
       scan' = [scan EXCEPT !.unlisted = @ \ {b},
                            !.unread = @ \cup {<<b, t>> : t \in {u \in Task : file[b][u] # None}}]
  /\ UNCHANGED <<vars, regen, moved, rewritten>>

\* Mutant: the reading ends with the first file that is gone.
ReadUntilGone ==
  /\ scan # None
  /\ scan.unlisted = {}
  /\ \E t \in Task :
       LET b == First({p[1] : p \in scan.unread}) IN
       /\ <<b, t>> \in scan.unread
       /\ scan' = IF file[b][t] = None
                  THEN [scan EXCEPT !.unread = {}, !.gone = TRUE]
                  ELSE [scan EXCEPT !.unread = @ \ {<<b, t>>},
                                    !.found = @ \cup {[bucket |-> b, task |-> t, rec |-> file[b][t]]}]
  /\ UNCHANGED <<vars, regen, moved, rewritten>>

\* validateTaskFiles, collectTasksForPaths: the listed files in the order of their
\* paths (of the files of one bucket, in any order here). One that is gone is left
\* out.
ReadFile ==
  /\ scan # None
  /\ scan.unlisted = {}
  /\ \E t \in Task :
       LET b == First({p[1] : p \in scan.unread}) IN
       /\ <<b, t>> \in scan.unread
       /\ scan' = IF file[b][t] = None
                  THEN [scan EXCEPT !.unread = @ \ {<<b, t>>}, !.gone = TRUE]
                  ELSE [scan EXCEPT !.unread = @ \ {<<b, t>>},
                                    !.found = @ \cup {[bucket |-> b, task |-> t, rec |-> file[b][t]]}]
  /\ UNCHANGED <<vars, regen, moved, rewritten>>

Scanned == scan # None /\ scan.unlisted = {} /\ scan.unread = {}

NoScan == scan' = None /\ moved' = {} /\ rewritten' = {}

\* status and doctor report their findings and end; so does a regeneration that
\* found no record but failed to read one it had listed.
Report ==
  /\ Scanned
  /\ NoScan
  /\ UNCHANGED <<vars, regen>>

------------------------------------------------------------------------------
(* The regeneration *)

\* renderBucketIndex, for the records of a scan. Two files of one ID in a bucket
\* are out of the model.
ListFound(F) ==
  [b \in Bucket |-> [t \in Task |->
     IF \E w \in F : w.bucket = b /\ w.task = t
     THEN (CHOOSE w \in F : w.bucket = b /\ w.task = t).rec.status
     ELSE None]]

\* regenerateIndexes and writeIndexes: all indexes are rendered, then written one
\* after the other.
RegenBegin ==
  /\ Scanned
  /\ ~(scan.found = {} /\ scan.gone)
  /\ regen' = [left |-> Bucket, list |-> ListFound(scan.found)]
  /\ NoScan
  /\ UNCHANGED vars

\* Mutant: the regeneration ends with its first index.
RegenWriteOne ==
  /\ regen # None
  /\ index' = [index EXCEPT ![First(regen.left)] = regen.list[First(regen.left)]]
  /\ regen' = None
  /\ UNCHANGED <<file, plan, mishaps, scan, moved, rewritten>>

RegenWrite ==
  /\ regen # None
  /\ LET b == First(regen.left) IN
       /\ index' = [index EXCEPT ![b] = regen.list[b]]
       /\ regen' = IF regen.left = {b} THEN None ELSE [regen EXCEPT !.left = @ \ {b}]
  /\ UNCHANGED <<file, plan, mishaps, scan, moved, rewritten>>

\* It dies, or a write fails.
RegenStop ==
  /\ regen # None
  /\ mishaps < MaxMishaps
  /\ mishaps' = mishaps + 1
  /\ regen' = None
  /\ UNCHANGED <<file, index, plan, scan, moved, rewritten>>

------------------------------------------------------------------------------
(* What a report finds wrong in the records F *)

IDs(F) == {w.task : w \in F}
Unfinished(w) == w.rec.status \notin Terminal
Completed(F) == {w.task : w \in {v \in F : v.rec.status = "Completed"}}
Finding(code, t, about) == [code |-> code, task |-> t, about |-> about]

\* validateTaskDuplicateIDs.
DuplicateIDs(F) ==
  {Finding("task_duplicate_id", t, {t}) :
     t \in {u \in Task : \E v, w \in F : v # w /\ v.task = u /\ w.task = u}}

\* validateTaskDependencies.
MissingDeps(F) ==
  UNION {{Finding("task_dependency_missing", w.task, {w.task, d}) :
            d \in w.rec.deps \ IDs(F)} : w \in F}

\* byID keeps one of the copies of an ID; a finding that it may yield is one here.
CancelledDeps(F) ==
  UNION {{Finding("task_dependency_cancelled", w.task, {w.task, v.task}) :
            v \in {u \in F : u.rec.status = "Cancelled" /\ u.task \in w.rec.deps}} :
         w \in {u \in F : Unfinished(u)}}

\* The graph that taskDependencyCycles searches (DepCycles): each task of S is
\* unfinished and waits for another of them, or for itself.
Waiting(F, S) ==
  \A t \in S : \E w \in F : w.task = t /\ Unfinished(w) /\ w.rec.deps \cap S # {}

\* validateBlockedDepsComplete.
BlockedDepsComplete(F) ==
  {Finding("task_blocked_deps_complete", w.task, {w.task} \cup w.rec.deps) :
     w \in {u \in F : /\ u.rec.status = "Blocked"
                      /\ u.bucket = "active"
                      /\ u.rec.deps # {}
                      /\ u.rec.deps \subseteq Completed(F)}}

\* validateBlockedReason.
BlockedReason(F) ==
  {Finding("task_blocked_missing_reason", w.task, {w.task}) :
     w \in {u \in F : u.rec.status = "Blocked" /\ ~u.rec.reason}}

\* validateTaskBuckets.
BucketMismatch(F) ==
  {Finding("task_bucket_mismatch", w.task, {w.task}) :
     w \in {u \in F : u.bucket # BucketForStatus(u.rec.status)}}

\* filterTasks, for the ready queue of prime and task next. No task has children
\* here, and without children a Tracking task is not ready.
ReadyQueue(F) ==
  {Finding("ready", w.task, {w.task} \cup w.rec.deps) :
     w \in {u \in F : u.rec.status = "Pending" /\ u.rec.deps \subseteq Completed(F)}}

\* filterTasks, for the blocked queue.
BlockedQueue(F) ==
  {Finding("blocked", w.task, {w.task} \cup w.rec.deps) :
     w \in {u \in F : \/ u.rec.status = "Blocked"
                      \/ u.rec.status = "Pending" /\ ~(u.rec.deps \subseteq Completed(F))}}

\* primeTaskSummary.
Queues(F) == ReadyQueue(F) \cup BlockedQueue(F)

\* validateWorkflow, with the queues that prime reports beside it and without the
\* circles: which of them are listed depends on the way the search takes through
\* all tasks.
Findings(F) ==
  UNION {DuplicateIDs(F), MissingDeps(F), CancelledDeps(F),
         BlockedDepsComplete(F), BlockedReason(F), BucketMismatch(F), Queues(F)}

------------------------------------------------------------------------------
(* Everything together *)

\* A step of TaskLifecycle, beside the reader.
Others ==
  /\ Next
  /\ moved' = IF scan = None THEN {} ELSE
       moved \cup {t \in Task : \E b \in Bucket : (file[b][t] = None) # (file'[b][t] = None)}
  /\ rewritten' = IF scan = None THEN {} ELSE
       rewritten \cup {t \in Task : \E b \in Bucket : file[b][t] # file'[b][t]}
  /\ UNCHANGED <<scan, regen>>

Reader ==
  ScanBegin \/ ListBucket \/ ReadFile \/ Report \/ RegenBegin \/ RegenWrite \/ RegenStop

ScanNext == Others \/ Reader

\* A command that runs takes its next step, and so does a regeneration that
\* writes.
ScanFairness ==
  /\ []<>(cmd = None) \/ []<><<Carry>>_scanVars
  /\ []<>(regen = None) \/ []<><<RegenWrite>>_scanVars

ScanSpec == ScanInit /\ [][ScanNext]_scanVars /\ ScanFairness

------------------------------------------------------------------------------
(* Properties *)

Files ==
  {w \in {[bucket |-> b, task |-> t, rec |-> file[b][t]] : b \in Bucket, t \in Task} :
     w.rec # None}

\* A scan beside the commands is right about everything they left alone
\* (validation_tasks.go:19-21): a task that was not moved is found exactly where
\* it is, also when it was edited meanwhile; what a report says, or does not say,
\* about tasks that nobody changed is what it would say of the files as they are
\* when it ends; and among those tasks the search for circles is given every
\* circle there is, and none that is not.
ScanIsTrue ==
  Scanned =>
    /\ \A t \in Task \ moved : {w.bucket : w \in {v \in scan.found : v.task = t}} = Copies(t)
    /\ \A f \in Findings(scan.found) \cup Findings(Files) :
         f.about \cap rewritten = {} =>
           (f \in Findings(scan.found) <=> f \in Findings(Files))
    /\ \A S \in SUBSET (Task \ rewritten) : Waiting(scan.found, S) <=> Waiting(Files, S)

\* What makes ScanIsTrue inductive. A file in the buckets listed so far is to be
\* read or has been found, unless it came or went; and what has been found is what
\* is there, unless it was changed.
ReaderTyped ==
  /\ scan \in Scan \cup {None}
  /\ regen \in Regen \cup {None}
  /\ moved \in SUBSET Task
  /\ rewritten \in SUBSET Task

ScanStands ==
  /\ moved \subseteq rewritten
  /\ scan # None =>
       /\ \A p \in scan.unread : p[1] \notin scan.unlisted
       /\ \A w \in scan.found :
            /\ w.bucket \notin scan.unlisted
            /\ w.task \notin rewritten => w.rec = file[w.bucket][w.task]
       /\ \A b \in Bucket \ scan.unlisted, t \in Task \ moved :
            file[b][t] # None <=> \/ <<b, t>> \in scan.unread
                                  \/ \E w \in scan.found : w.bucket = b /\ w.task = t

ReaderInv == IInv /\ ReaderTyped /\ ScanStands

\* indexes.go:36-41: an index left stale by a command that died, a hand or a
\* regeneration that read too early or missed a record heals: once no more
\* commands start, and somebody goes on running prime or index, the indexes become
\* right for good.
IndexesHeal ==
  <>[](cmd = None) /\ []<>(regen # None) => <>[](index = Listing(file))
==============================================================================
