---------------------------- MODULE TaskLifecycle ----------------------------
(***************************************************************************)
(* The task records of one project and the commands that change them:      *)
(* `task create`, the lifecycle verbs, `task dep add|remove`, `task edit`   *)
(* and `task comment`, and the bucket indexes they regenerate.              *)
(*                                                                         *)
(* A mutating command holds the record lock from its fresh read of the     *)
(* records to the end (Mutex, which NamedLock implements), so one runs at a *)
(* time: it reads and refuses or plans in one step, and then carries its    *)
(* plan out one file operation at a time. It may die between any two of     *)
(* them. A command that refuses, or finds nothing to do, changes nothing    *)
(* and is not an action. TaskScan adds the readers that take no lock.       *)
(***************************************************************************)
EXTENDS Naturals, FiniteSets

CONSTANTS
  Task,           \* task IDs
  None,           \* no file, no command
  Used,           \* the commands that are used
  InitialStatus,  \* the statuses given to task create
  MaxMishaps      \* bound: crashes and files moved by hand

Bucket == {"active", "completed", "cancelled"}
Terminal == {"Completed", "Cancelled"}
Status == {"Open", "Pending", "In Progress", "Blocked", "Tracking"} \cup Terminal

\* A reason (blocked_reason, blocked_ref) is there only while a task is Blocked.
Record == {r \in [status : Status, deps : SUBSET Task, reason : BOOLEAN] :
             r.reason => r.status = "Blocked"}
Write  == [bucket : Bucket, task : Task, rec : Record]
Index  == [Bucket -> [Task -> Status \cup {None}]]

\* taskStatusContracts: what a verb sets and what it accepts.
Contract ==
  [accept   |-> [target |-> "Pending",     from |-> {"Open"}],
   start    |-> [target |-> "In Progress", from |-> {"Pending"}],
   complete |-> [target |-> "Completed",   from |-> Status \ Terminal],
   cancel   |-> [target |-> "Cancelled",   from |-> Status \ Terminal],
   reopen   |-> [target |-> "Open",        from |-> Terminal \cup {"Pending"}],
   block    |-> [target |-> "Blocked",     from |-> {"Open", "Pending", "Tracking"}],
   unblock  |-> [target |-> "Pending",     from |-> {"Blocked"}]]
Verb == DOMAIN Contract
Command == [verb : Verb \cup {"create", "dep", "edit"}, task : Task]

ASSUME ConstantsAssumption ==
  /\ None \notin Record \cup Status \cup Command
  /\ Used \subseteq Verb \cup {"create", "dep", "edit"}
  /\ InitialStatus \subseteq Status
  /\ MaxMishaps \in Nat

VARIABLES
  file,     \* file[b][t]: the record of task t in bucket b, or None
  index,    \* index[b][t]: the status bucket b's index gives for t, or None
  cmd,      \* the mutating command that has the record lock, or None
  main,     \* the write of its own task it has still to do (at most one)
  old,      \* the bucket it will then remove that task from (at most one)
  others,   \* the dependents it will then write
  pending,  \* the buckets whose index it will then write
  list,     \* what those indexes will say
  mishaps   \* how often a command died or a file was moved by hand

plan == <<cmd, main, old, others, pending, list>>
vars == <<file, index, plan, mishaps>>

Listing(f) ==
  [b \in Bucket |-> [t \in Task |-> IF f[b][t] = None THEN None ELSE f[b][t].status]]
NoFiles == [b \in Bucket |-> [t \in Task |-> None]]

TypeOK ==
  /\ file \in [Bucket -> [Task -> Record \cup {None}]]
  /\ index \in Index
  /\ cmd \in Command \cup {None}
  /\ main \in SUBSET Write
  /\ old \in SUBSET Bucket
  /\ others \in SUBSET Write
  /\ pending \in SUBSET Bucket
  /\ list \in Index
  /\ mishaps \in 0 .. MaxMishaps
  /\ cmd = None => main = {} /\ old = {} /\ others = {} /\ pending = {}
  /\ \A w \in main : w.task = cmd.task

\* An empty project.
Init ==
  /\ file = NoFiles
  /\ index = Listing(NoFiles)
  /\ cmd = None
  /\ main = {}
  /\ old = {}
  /\ others = {}
  /\ pending = {}
  /\ list = Listing(NoFiles)
  /\ mishaps = 0

------------------------------------------------------------------------------
(* What a command reads *)

BucketForStatus(s) ==
  CASE s = "Completed" -> "completed"
    [] s = "Cancelled" -> "cancelled"
    [] OTHER           -> "active"

Copies(t) == {b \in Bucket : file[b][t] # None}

\* resolveTaskForMutation: t is in bucket b, and checkDuplicateTaskID finds it in
\* no other.
Resolved(t, b) == Copies(t) = {b}

Duplicated(t) == \E a, b \in Copies(t) : a # b

\* checkTaskDepsNotDuplicated.
DepsNotDuplicated(r) == \A d \in r.deps : ~Duplicated(d)

\* Any copy counts.
HasCompleted(t) == \E b \in Copies(t) : file[b][t].status = "Completed"

TaskDependsOn(r, d) == d \in r.deps

\* Mutant: a cycle is two tasks that depend on each other.
TwoTaskCycle(rec) ==
  \E t, u \in Task :
    \A s \in {t, u} : /\ rec[s] # None
                      /\ rec[s].status \notin Terminal
                      /\ rec[s].deps \cap ({t, u} \ {s}) # {}

\* taskDependencyCycles: some unfinished tasks each wait for another of them.
Cyclic(rec) ==
  \E S \in (SUBSET Task) \ {{}} :
    \A t \in S : /\ rec[t] # None
                 /\ rec[t].status \notin Terminal
                 /\ rec[t].deps \cap S # {}

\* byID keeps one copy of each task. The sort that orders the copies of one ID
\* is not stable, so it may be any of them.
ByID ==
  {[t \in Task |-> file[p[t]][t]] :
     p \in {q \in [Task -> Bucket] :
              \A t \in Task : Copies(t) # {} => q[t] \in Copies(t)}}

------------------------------------------------------------------------------
(* The plan: one step under the record lock, before anything is written *)

\* Mutant: the indexes are rendered from the tasks read before the writes.
ListBefore(ws, t, bs) == Listing(file)

\* replaceTaskStates, or a new scan after the writes ws, with t gone from the
\* buckets bs.
ListAfter(ws, t, bs) ==
  [b \in Bucket |-> [u \in Task |->
     IF \E w \in ws : w.bucket = b /\ w.task = u
     THEN (CHOOSE w \in ws : w.bucket = b /\ w.task = u).rec.status
     ELSE IF u = t /\ b \in bs THEN None
     ELSE Listing(file)[b][u]]]

Begin(verb, w, gone, ws) ==
  /\ verb \in Used
  /\ cmd' = [verb |-> verb, task |-> w.task]
  /\ main' = {w}
  /\ old' = gone
  /\ others' = ws
  /\ pending' = Bucket
  /\ list' = ListAfter({w} \cup ws, w.task, gone)
  /\ UNCHANGED <<file, index, mishaps>>

\* Before it unblocks anything, complete refuses a Blocked dependent that is
\* duplicated, or whose dependencies are.
DependentsNotDuplicated(t) ==
  \A b \in Bucket, u \in Task :
    /\ file[b][u] # None
    /\ file[b][u].status = "Blocked"
    /\ TaskDependsOn(file[b][u], t)
    => ~Duplicated(u) /\ DepsNotDuplicated(file[b][u])

\* Mutant: the task being completed does not count as completed yet.
UnblockLate(t) ==
  {[bucket |-> "active", task |-> u,
    rec |-> [status |-> "Pending", deps |-> file["active"][u].deps, reason |-> FALSE]] :
     u \in {v \in Task :
              /\ file["active"][v] # None
              /\ file["active"][v].status = "Blocked"
              /\ TaskDependsOn(file["active"][v], t)
              /\ \A d \in file["active"][v].deps : HasCompleted(d)}}

\* taskUnblockDependents, for the completion of t.
Unblocked(t) ==
  {[bucket |-> "active", task |-> u,
    rec |-> [status |-> "Pending", deps |-> file["active"][u].deps, reason |-> FALSE]] :
     u \in {v \in Task :
              /\ file["active"][v] # None
              /\ file["active"][v].status = "Blocked"
              /\ TaskDependsOn(file["active"][v], t)
              /\ \A d \in file["active"][v].deps : d = t \/ HasCompleted(d)}}

\* Mutant: only a change of status moves the file.
MovedByStatus(r, s, b) == IF r.status = s THEN {} ELSE {b} \ {BucketForStatus(s)}

\* The old path is removed if it is not the one just written.
Moved(r, s, b) == {b} \ {BucketForStatus(s)}

\* Mutant: a reason once recorded stays.
ReasonStays(r, s) == r.reason \/ s = "Blocked"

\* Blocking records a reason; every other transition clears it.
Reason(r, s) == s = "Blocked"

\* taskStatusWithArgsLocked: verb v on task t, found in bucket b.
StatusVerb(v, t, b) ==
  LET s == Contract[v].target
      r == file[b][t]
  IN
  /\ Resolved(t, b)
  /\ ~(r.status = s /\ b = BucketForStatus(s))      \* already there: no-op
  /\ r.status = s \/ r.status \in Contract[v].from
  /\ s = "Completed" =>
       /\ r.status # s => DepsNotDuplicated(r) /\ \A d \in r.deps : HasCompleted(d)
       /\ DependentsNotDuplicated(t)
  /\ Begin(v,
           [bucket |-> BucketForStatus(s), task |-> t,
            rec |-> [status |-> s, deps |-> r.deps, reason |-> Reason(r, s)]],
           Moved(r, s, b),
           IF s = "Completed" THEN Unblocked(t) ELSE {})

\* taskCreateParsedLocked: the record goes to active, whatever its status; only
\* block records a reason. The new ID is in no bucket (TaskIds).
Create(t, s, deps) ==
  /\ Copies(t) = {}
  /\ \A d \in deps :
       \E b \in Bucket : Resolved(d, b) /\ file[b][d].status \notin Terminal
  /\ deps # {} => \E rec \in ByID : ~Cyclic(rec)
  /\ Begin("create",
           [bucket |-> "active", task |-> t,
            rec |-> [status |-> s, deps |-> deps, reason |-> FALSE]],
           {}, {})

Rewrite(verb, t, b, deps) ==
  Begin(verb, [bucket |-> b, task |-> t, rec |-> [file[b][t] EXCEPT !.deps = deps]], {}, {})

\* taskDepUpdateLocked.
DepAdd(t, b, d, e) ==
  LET deps == file[b][t].deps \cup {d} IN
  /\ Resolved(t, b)
  /\ Resolved(d, e)
  /\ t # d
  /\ file[e][d].status # "Cancelled"
  /\ d \notin file[b][t].deps
  /\ \E rec \in ByID : ~Cyclic([rec EXCEPT ![t].deps = deps])
  /\ Rewrite("dep", t, b, deps)

DepRemove(t, b, d, e) ==
  /\ Resolved(t, b)
  /\ Resolved(d, e)
  /\ d \in file[b][t].deps
  /\ Rewrite("dep", t, b, file[b][t].deps \ {d})

\* taskEditLocked, taskCommentLocked: neither changes status, dependencies or
\* bucket.
Edit(t, b) ==
  /\ Resolved(t, b)
  /\ Rewrite("edit", t, b, file[b][t].deps)

------------------------------------------------------------------------------
(* The file operations, in order *)

WriteMain ==
  /\ \E w \in main : file' = [file EXCEPT ![w.bucket][w.task] = w.rec]
  /\ main' = {}
  /\ UNCHANGED <<index, cmd, old, others, pending, list, mishaps>>

\* Mutant: the old file may be removed before the new one is written.
RemoveAnytime ==
  /\ \E b \in old :
       /\ file' = [file EXCEPT ![b][cmd.task] = None]
       /\ old' = old \ {b}
  /\ UNCHANGED <<index, cmd, main, others, pending, list, mishaps>>

RemoveOld ==
  /\ main = {}
  /\ \E b \in old :
       /\ file' = [file EXCEPT ![b][cmd.task] = None]
       /\ old' = old \ {b}
  /\ UNCHANGED <<index, cmd, main, others, pending, list, mishaps>>

\* In the order of their IDs in the code; in any order here.
WriteOther ==
  /\ main = {}
  /\ old = {}
  /\ \E w \in others :
       /\ file' = [file EXCEPT ![w.bucket][w.task] = w.rec]
       /\ others' = others \ {w}
  /\ UNCHANGED <<index, cmd, main, old, pending, list, mishaps>>

\* The index files are written in the order of their paths.
First(bs) ==
  CASE "active" \in bs    -> "active"
    [] "cancelled" \in bs -> "cancelled"
    [] OTHER              -> "completed"

\* writeIndexesForTasks: one file after the other.
WriteIndex ==
  /\ main = {}
  /\ old = {}
  /\ others = {}
  /\ pending # {}
  /\ index' = [index EXCEPT ![First(pending)] = list[First(pending)]]
  /\ pending' = pending \ {First(pending)}
  /\ UNCHANGED <<file, cmd, main, old, others, list, mishaps>>

NoPlan ==
  /\ cmd' = None
  /\ main' = {}
  /\ old' = {}
  /\ others' = {}
  /\ pending' = {}
  /\ list' = Listing(NoFiles)

Done == main = {} /\ old = {} /\ others = {} /\ pending = {}

End ==
  /\ cmd # None
  /\ Done
  /\ NoPlan
  /\ UNCHANGED <<file, index, mishaps>>

------------------------------------------------------------------------------
(* The environment *)

\* The command dies, or an operation fails: nothing it did is undone.
Stop ==
  /\ cmd # None
  /\ mishaps < MaxMishaps
  /\ mishaps' = mishaps + 1
  /\ NoPlan
  /\ UNCHANGED <<file, index>>

\* A user moves a record to another bucket.
HandMove(t, a, b) ==
  /\ cmd = None
  /\ mishaps < MaxMishaps
  /\ file[a][t] # None
  /\ file[b][t] = None
  /\ file' = [file EXCEPT ![a][t] = None, ![b][t] = file[a][t]]
  /\ mishaps' = mishaps + 1
  /\ UNCHANGED <<index, plan>>

\* A user resolves a duplicate as checkDuplicateTaskID tells him to.
HandResolve(t, b) ==
  /\ cmd = None
  /\ Duplicated(t)
  /\ file[b][t] # None
  /\ file' = [file EXCEPT ![b][t] = None]
  /\ UNCHANGED <<index, plan, mishaps>>

------------------------------------------------------------------------------
Start ==
  /\ cmd = None
  /\ \E t \in Task :
       \/ \E v \in Verb, b \in Bucket : StatusVerb(v, t, b)
       \/ \E s \in InitialStatus, deps \in SUBSET (Task \ {t}) : Create(t, s, deps)
       \/ \E b, e \in Bucket, d \in Task : DepAdd(t, b, d, e) \/ DepRemove(t, b, d, e)
       \/ \E b \in Bucket : Edit(t, b)

Carry == WriteMain \/ RemoveOld \/ WriteOther \/ WriteIndex \/ End

Hand ==
  \E t \in Task, b \in Bucket :
    HandResolve(t, b) \/ \E a \in Bucket : HandMove(t, a, b)

Next == Start \/ Carry \/ Stop \/ Hand

Spec == Init /\ [][Next]_vars

------------------------------------------------------------------------------
(* Properties *)

\* A command never loses a record: whatever it was doing when it died, every
\* task still has a file in some bucket. (ahm has no command that deletes one.)
RecordsSurvive ==
  [][\A t \in Task :
       (\E b \in Bucket : file[b][t] # None)
         => \E b \in Bucket : file'[b][t] # None]_file

\* Once a verb has written and removed, its task is in the bucket of its status
\* and nowhere else, wherever it was found (glossary.md:44).
VerbPlacesItsTask ==
  cmd # None /\ cmd.verb \in Verb /\ main = {} /\ old = {} =>
    LET s == Contract[cmd.verb].target IN
      /\ Copies(cmd.task) = {BucketForStatus(s)}
      /\ file[BucketForStatus(s)][cmd.task].status = s

\* What makes RecordsSurvive and VerbPlacesItsTask inductive: the write of a
\* command spares the copy that its removal leaves, a verb's task has no other
\* copies, and no dependent of the task is the task itself.
PlanIsSafe ==
  cmd # None =>
    /\ \A w \in main : w.bucket \notin old
    /\ \A w \in others : w.task # cmd.task
    /\ main = {} => \E b \in Bucket \ old : file[b][cmd.task] # None

VerbIsUnderWay ==
  cmd # None /\ cmd.verb \in Verb =>
    LET s == Contract[cmd.verb].target
        b == BucketForStatus(s)
    IN /\ b \notin old
       /\ Copies(cmd.task) \subseteq old \cup {b}
       /\ \A w \in main : w.bucket = b /\ w.rec.status = s
       /\ main = {} => file[b][cmd.task] # None /\ file[b][cmd.task].status = s

NoTaskAwaitsItself ==
  /\ \A b \in Bucket, t \in Task : file[b][t] # None => t \notin file[b][t].deps
  /\ \A w \in main \cup others : w.task \notin w.rec.deps

IInv == TypeOK /\ PlanIsSafe /\ VerbIsUnderWay /\ NoTaskAwaitsItself

\* A complete that ran to its end leaves no active Blocked task behind whose
\* last open dependency it was, and has unblocked none that still waits
\* (task-commands.md:460-463).
UnblocksWhatItSatisfied ==
  cmd # None /\ cmd.verb = "complete" /\ main = {} /\ old = {} =>
    /\ others = {} =>
         \A u \in Task :
           /\ file["active"][u] # None
           /\ file["active"][u].status = "Blocked"
           /\ TaskDependsOn(file["active"][u], cmd.task)
           => \E d \in file["active"][u].deps : ~HasCompleted(d)
    /\ \A w \in others : \A d \in w.rec.deps : HasCompleted(d)

\* Some active tasks of the records f each wait for another of them, counting
\* every copy.
CycleIn(f) ==
  \E S \in (SUBSET Task) \ {{}} :
    \A t \in S : \E b \in Bucket :
      /\ f[b][t] # None
      /\ f[b][t].status \notin Terminal
      /\ f[b][t].deps \cap S # {}

ActiveCycle == CycleIn(file)

\* No new dependency closes a cycle among active tasks (dep add and create refuse
\* it): as long as no other task is duplicated, a cycle that appears was closed
\* by a reopen.
OnlyReopenClosesACycle ==
  [][/\ ~ActiveCycle
     /\ ActiveCycle'
     /\ \A t \in Task : Duplicated(t) => cmd # None /\ t = cmd.task
     => cmd # None /\ cmd.verb = "reopen"]_file

\* task-commands.md:142: when a mutating command ends, each bucket's index says
\* what the bucket holds.
IndexesFollowFiles == cmd # None /\ Done => index = Listing(file)

\* What makes IndexesFollowFiles inductive: what is planned for the indexes is
\* what the files will be when the plan is carried out.
ListIsPromised ==
  cmd # None =>
    /\ \A v, w \in main : v = w
    /\ main # {} \/ old # {} \/ others # {} => pending = Bucket
    /\ \A b \in Bucket \ pending : index[b] = list[b]
    /\ \A w \in main \cup others : list[w.bucket][w.task] = w.rec.status
    /\ \A b \in old : list[b][cmd.task] = None
    /\ \A b \in Bucket, t \in Task :
         \/ \E w \in main \cup others : w.bucket = b /\ w.task = t
         \/ b \in old /\ t = cmd.task
         \/ list[b][t] = Listing(file)[b][t]

\* And UnblocksWhatItSatisfied: the dependents to be written are as they were
\* planned, and those that are not wait for another task.
AwaitsInVain(u) ==
  /\ file["active"][u] # None
  /\ file["active"][u].status = "Blocked"
  /\ TaskDependsOn(file["active"][u], cmd.task)
DependentsAreKnown ==
  cmd # None =>
    /\ cmd.verb # "complete" => others = {}
    /\ \A w \in others :
         /\ w.bucket = "active" /\ w.rec.status = "Pending"
         /\ AwaitsInVain(w.task) /\ w.rec.deps = file["active"][w.task].deps
         /\ \A d \in w.rec.deps : d = cmd.task \/ HasCompleted(d)
         /\ \A v \in others : v.task = w.task => v = w
    /\ cmd.verb = "complete" =>
         \A u \in Task : AwaitsInVain(u) =>
           \/ \E w \in others : w.task = u
           \/ \E d \in file["active"][u].deps : d # cmd.task /\ ~HasCompleted(d)

\* And OnlyReopenClosesACycle: dependencies are tasks, and the write of a command
\* other than reopen, which changes the files only then, closes no cycle.
DepsExist ==
  /\ \A b \in Bucket, t \in Task :
       file[b][t] # None => \A d \in file[b][t].deps : Copies(d) # {}
  /\ \A w \in main \cup others : \A d \in w.rec.deps : Copies(d) # {}
MainClosesNoCycle ==
  cmd # None /\ cmd.verb # "reopen" =>
    \A w \in main :
      (\A t \in Task : Duplicated(t) => t = cmd.task) /\ ~ActiveCycle
        => ~CycleIn([file EXCEPT ![w.bucket][w.task] = w.rec])

Effects == ListIsPromised /\ DependentsAreKnown /\ DepsExist /\ MainClosesNoCycle

\* task-commands.md:548, task_create.go:268-271: dependencies of active tasks
\* never form a cycle.
NoActiveCycle == ~ActiveCycle
==============================================================================
