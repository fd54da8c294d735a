------------------------------ MODULE TaskImport ------------------------------
(***************************************************************************)
(* `ahm task import`: a batch of tasks that refer to each other is planned *)
(* as a whole under the record lock, and then written one file at a time:  *)
(* the records, the indexes, and in a store the state file with the marks  *)
(* of spent IDs. When a write fails, what was touched is put back, last    *)
(* file first.                                                             *)
(*                                                                         *)
(* Beside it work those who do not take the record lock: init and          *)
(* store path, which raise the marks under the store-state lock; prime and *)
(* index, which regenerate the indexes under none; and a user who adds or  *)
(* deletes records. The locks are taken as Mutex promises them.            *)
(***************************************************************************)
EXTENDS Naturals, Sequences, FiniteSets, SequencesExt, FiniteSetsExt

CONSTANTS
  MaxNumber,    \* bound: the highest task number
  MaxLetter,    \* bound: the letters of children (26 in the code)
  Status,       \* the statuses of tasks
  Batch,        \* the batches a user may import: sequences of entries
  None,         \* no file
  MaxMishaps    \* bound: failed writes, stops, and records changed by hand

Number == 1 .. MaxNumber
Letter == 1 .. MaxLetter

\* A task ID is a number and a letter, 0 for a top-level task. <<0, i>> is the
\* reference to the i-th entry of the batch, and <<0, 0>> no reference.
ID == Number \X ({0} \cup Letter)
Named(i) == <<0, i>>
NoRef == <<0, 0>>

Terminal == {"Completed", "Cancelled"}
Bucket == {"active", "cancelled", "completed"}
Record == [status : Status, deps : SUBSET ID]
Path == Bucket \X ID

\* An entry of a batch: its parent, what it depends on, its status.
Reference == ID \cup ({0} \X Nat)
BatchEntry == [parent : Reference, deps : SUBSET Reference, status : Status]

ASSUME ConstantsAssumption ==
  /\ MaxNumber \in Nat
  /\ MaxLetter \in Nat
  /\ MaxMishaps \in Nat
  /\ "Open" \in Status
  /\ Batch \subseteq Seq(BatchEntry)
  /\ None \notin Record

VARIABLES
  inStore,    \* the records are in a store (it never changes)
  file,       \* file[p]: the record at path p, or None
  index,      \* index[b]: the tasks that the index of bucket b lists
  marks,      \* the state file: next_id and child_suffix_marks
  stLock,     \* who has the store-state lock: "import", "init" or "nobody"
  pc,         \* the step of the import
  plan,       \* the records to write: path and content, in the input order
  list,       \* list[b]: what it will write to the index of b
  backup,     \* the snapshot: index and marks as they were
  todo,       \* the targets it has still to write
  touched,    \* the targets it has written, in order
  result,     \* what the command reports
  before,     \* history: the records of others, as the import must leave them,
              \* and the indexes at its start
  floor,      \* history: the highest marks anyone was told are persistent
  dirty,      \* history: a regeneration wrote the indexes since the start
  mishaps

disk == <<file, index, marks>>
mem  == <<plan, list, backup, todo, touched>>
vars == <<inStore, disk, stLock, pc, mem, result, before, floor,
          dirty, mishaps>>

Marks == [next : 0 .. MaxNumber + 1, mark : [Number -> {0} \cup Letter]]
NoMarks == [next |-> 0, mark |-> [n \in Number |-> 0]]
Writing == {"snapshot", "write", "undo"}
PC == {"idle", "wantState", "end"} \cup Writing

\* The records present, and the IDs they reserve (forEachRecordID).
Present == {p \in Path : file[p] # None}
Taken == {p[2] : p \in Present}
Copies(t) == {b \in Bucket : file[<<b, t>>] # None}
ListedIn(f, b) == {t \in ID : f[<<b, t>>] # None}

\* The targets of a batch: its records, the indexes and the state file, in the
\* order in which they are written.
Target == Path \cup {<<"index", b>> : b \in Bucket} \cup {<<"state", "file">>}
SortedBuckets == <<"active", "cancelled", "completed">>

TypeOK ==
  /\ inStore \in BOOLEAN
  /\ file \in [Path -> Record \cup {None}]
  /\ index \in [Bucket -> SUBSET ID]
  /\ marks \in Marks
  /\ stLock \in {"import", "init", "nobody"}
  /\ pc \in PC
  /\ plan \in Seq([path : Path, rec : Record])
  /\ list \in [Bucket -> SUBSET ID]
  /\ backup \in [index : [Bucket -> SUBSET ID], marks : Marks]
  /\ todo \in Seq(Target)
  /\ touched \in Seq(Target)
  /\ result \in {"none", "imported", "failed", "incomplete"}
  /\ before \in [file : [Path -> Record \cup {None}], index : [Bucket -> SUBSET ID]]
  /\ floor \in Marks
  /\ dirty \in BOOLEAN
  /\ mishaps \in 0 .. MaxMishaps

Empty == [b \in Bucket |-> {}]

\* A store or a project with a task and children of it, or without; its state
\* file may be one that kept no marks.
Init ==
  /\ inStore \in BOOLEAN
  /\ \E S \in SUBSET {t \in ID : t[1] = 1} :
       /\ S # {} => <<1, 0>> \in S
       /\ file = [p \in Path |-> IF p[1] = "active" /\ p[2] \in S
                              THEN [status |-> "Open", deps |-> {}] ELSE None]
  /\ index = [b \in Bucket |-> ListedIn(file, b)]
  /\ marks = NoMarks
  /\ stLock = "nobody"
  /\ pc = "idle"
  /\ plan = <<>> /\ list = Empty /\ todo = <<>> /\ touched = <<>>
  /\ backup = [index |-> Empty, marks |-> NoMarks]
  /\ result = "none"
  /\ before = [file |-> file, index |-> index]
  /\ floor = NoMarks
  /\ dirty = FALSE
  /\ mishaps = 0

------------------------------------------------------------------------------
(* planTaskImport *)

Higher(a, b) == IF a >= b THEN a ELSE b
Top(batch) == {i \in DOMAIN batch : batch[i].parent = NoRef}

\* nextTaskIDForPaths for the first entry without a parent; those after it get
\* the numbers that follow, because the tasks planned so far count.
FirstNumber ==
  Higher(IF inStore THEN marks.next ELSE 0,
         Max({0} \cup {t[1] : t \in {u \in Taken : u[2] = 0}}) + 1)
NumberOf(batch, i) == FirstNumber + Cardinality({j \in Top(batch) : j < i})

\* The number of entry i: its own, or that of its parent.
Family(batch, i) ==
  IF i \in Top(batch) THEN NumberOf(batch, i)
  ELSE LET p == batch[i].parent IN
       IF p[1] = 0 THEN NumberOf(batch, p[2]) ELSE p[1]

\* The children of the same parent planned before entry i.
Elder(batch, i) ==
  {j \in DOMAIN batch \ Top(batch) : j < i /\ Family(batch, j) = Family(batch, i)}

\* Mutant: each child gets the letter that is free before the batch.
LetterAlone(batch, i) ==
  LET n == Family(batch, i)
      used == {l \in Letter : <<n, l>> \in Taken}
  IN IF inStore
     THEN Higher(marks.mark[n], Max({0} \cup used)) + 1
     ELSE Min({MaxLetter + 1} \cup (Letter \ used))

\* nextChildTaskIDForPaths: in a store past the mark, in a project the first
\* free letter.
LetterOf(batch, i) ==
  LET n == Family(batch, i)
      used == {l \in Letter : <<n, l>> \in Taken}
      free == Letter \ used
      elders == Cardinality(Elder(batch, i))
  IN IF inStore
     THEN Higher(marks.mark[n], Max({0} \cup used)) + 1 + elders
     ELSE Min({MaxLetter + 1} \cup {l \in free : Cardinality({k \in free : k < l}) = elders})

IDOf(batch, i) ==
  IF i \in Top(batch) THEN <<NumberOf(batch, i), 0>>
  ELSE <<Family(batch, i), LetterOf(batch, i)>>

\* resolve: a reference into the batch, or to a task with one record.
Resolved(batch, ref) == IF ref[1] = 0 THEN IDOf(batch, ref[2]) ELSE ref
Resolvable(batch, ref) ==
  IF ref[1] = 0 THEN ref[2] \in DOMAIN batch ELSE Cardinality(Copies(ref)) = 1
StatusOf(batch, ref) ==
  IF ref[1] = 0 THEN batch[ref[2]].status
  ELSE file[<<CHOOSE b \in Copies(ref) : TRUE, ref>>].status

BucketForStatus(s) ==
  CASE s = "Completed" -> "completed"
    [] s = "Cancelled" -> "cancelled"
    [] OTHER           -> "active"

Planned(batch) ==
  [i \in DOMAIN batch |->
     [path |-> <<BucketForStatus(batch[i].status), IDOf(batch, i)>>,
      rec  |-> [status |-> batch[i].status,
                deps |-> {Resolved(batch, d) : d \in batch[i].deps}]]]

ParentAccepted(batch, i) ==
  LET p == batch[i].parent IN
  p # NoRef => /\ Resolvable(batch, p)
               /\ IF p[1] = 0 THEN p[2] \in Top(batch) ELSE p[2] = 0

DepAccepted(batch, i, d) ==
  /\ Resolvable(batch, d)
  /\ d # Named(i)
  /\ StatusOf(batch, d) = "Cancelled" => batch[i].status \in Terminal

\* The records f and those of the plan ws: some unfinished tasks each wait for
\* another of them. The records alone never do here: nothing reopens a task.
Cyclic(f, ws) ==
  LET recs == {[id |-> p[2], rec |-> f[p]] : p \in {q \in Path : f[q] # None}}
                \cup {[id |-> w.path[2], rec |-> w.rec] : w \in Range(ws)}
      open == {r \in recs : r.rec.status \notin Terminal}
  IN \E S \in SUBSET open :
       S # {} /\ \A r \in S : r.rec.deps \cap {s.id : s \in S} # {}

\* One refused entry refuses the batch. (Numbers and letters have their bounds.)
Accepted(batch) ==
  /\ \A i \in DOMAIN batch : ParentAccepted(batch, i)
  /\ \A i \in DOMAIN batch : Family(batch, i) \in Number /\ IDOf(batch, i) \in ID
  /\ \A i \in DOMAIN batch : \A d \in batch[i].deps : DepAccepted(batch, i, d)
  /\ \A w \in Range(Planned(batch)) : file[w.path] = None
  /\ ~Cyclic(file, Planned(batch))

------------------------------------------------------------------------------
(* The import: one command at a time, because it has the record lock *)

Records(ws) == [i \in DOMAIN ws |-> ws[i].path]
Indexes == [i \in DOMAIN SortedBuckets |-> <<"index", SortedBuckets[i]>>]
Targets(ws) ==
  Records(ws) \o Indexes \o (IF inStore THEN << <<"state", "file">> >> ELSE <<>>)

\* taskImport: the tasks are read afresh and the whole batch is planned before
\* anything is written.
Start(batch) ==
  /\ pc = "idle"
  /\ Accepted(batch)
  /\ plan' = Planned(batch)
  /\ list' = [b \in Bucket |-> ListedIn(file, b) \cup
                 {w.path[2] : w \in {v \in Range(Planned(batch)) : v.path[1] = b}}]
  /\ pc' = IF inStore THEN "wantState" ELSE "snapshot"
  /\ before' = [before EXCEPT !.index = index]
  /\ dirty' = FALSE
  /\ UNCHANGED <<inStore, disk, stLock, backup, todo, touched, result, floor, mishaps>>

\* Mutant: the import does not wait for the store-state lock.
LockNoState ==
  /\ pc = "wantState"
  /\ pc' = "snapshot"
  /\ UNCHANGED <<inStore, disk, stLock, mem, result, before, floor, dirty,
                 mishaps>>

\* writeTaskImport: in a store the state file is read, written and put back under
\* the store-state lock.
LockState ==
  /\ pc = "wantState"
  /\ stLock = "nobody"
  /\ stLock' = "import"
  /\ pc' = "snapshot"
  /\ UNCHANGED <<inStore, disk, mem, result, before, floor, dirty, mishaps>>

\* Mutant: the snapshot takes what is there.
SnapshotAny ==
  /\ pc = "snapshot"
  /\ backup' = [index |-> index, marks |-> marks]
  /\ todo' = Targets(plan)
  /\ pc' = "write"
  /\ UNCHANGED <<inStore, disk, stLock, plan, list, touched, result, before,
                 floor, dirty, mishaps>>

\* A record that has appeared at a path of the batch since the plan ends the
\* command. The files are read one after the other; what that could let through
\* is a regeneration, which the history variable dirty excludes.
Snapshot ==
  /\ pc = "snapshot"
  /\ IF \E w \in Range(plan) : file[w.path] # None
     THEN /\ pc' = "end"
          /\ result' = "failed"
          /\ UNCHANGED <<backup, todo>>
     ELSE /\ pc' = "write"
          /\ backup' = [index |-> index, marks |-> marks]
          /\ todo' = Targets(plan)
          /\ UNCHANGED result
  /\ UNCHANGED <<inStore, disk, stLock, plan, list, touched, before, floor,
                 dirty, mishaps>>

\* Mutant: the number after the next one is recorded.
RaisedTwice(m, S) ==
  [next |-> Higher(m.next, Max({0} \cup {t[1] : t \in {u \in S : u[2] = 0}}) + 2),
   mark |-> m.mark]

\* The marks m raised to what the IDs S imply: highestTaskNumber,
\* childSuffixMarksFromRecords.
Raised(m, S) ==
  [next |-> Higher(m.next, Max({0} \cup {t[1] : t \in {u \in S : u[2] = 0}}) + 1),
   mark |-> [n \in Number |->
              Higher(m.mark[n], Max({0} \cup {l \in Letter : <<n, l>> \in S}))]]

\* The write of one target: the record, the index rendered from the plan, or the
\* state file read and raised.
WriteTarget(x) ==
  CASE x[1] = "index" -> /\ index' = [index EXCEPT ![x[2]] = list[x[2]]]
                         /\ UNCHANGED <<file, marks>>
    [] x[1] = "state" -> /\ marks' = Raised(marks, Taken \cup UNION Range(list))
                         /\ UNCHANGED <<file, index>>
    [] OTHER          -> /\ file' = [file EXCEPT ![x] = (CHOOSE w \in Range(plan) : w.path = x).rec]
                         /\ UNCHANGED <<index, marks>>

\* Putting one target back: as the snapshot has it, or gone.
Restore(x) ==
  CASE x[1] = "index" -> /\ index' = [index EXCEPT ![x[2]] = backup.index[x[2]]]
                         /\ UNCHANGED <<file, marks>>
    [] x[1] = "state" -> /\ marks' = backup.marks
                         /\ UNCHANGED <<file, index>>
    [] OTHER          -> /\ file' = [file EXCEPT ![x] = None]
                         /\ UNCHANGED <<index, marks>>

WriteNext ==
  /\ pc = "write" /\ todo # <<>>
  /\ WriteTarget(Head(todo))
  /\ todo' = Tail(todo)
  /\ touched' = Append(touched, Head(todo))
  /\ UNCHANGED <<inStore, stLock, pc, plan, list, backup, result, before,
                 floor, dirty, mishaps>>

\* Mutant: a target is counted as touched only when its write succeeds.
TouchedLate ==
  /\ pc = "write" /\ todo # <<>> /\ mishaps < MaxMishaps
  /\ mishaps' = mishaps + 1
  /\ WriteTarget(Head(todo)) \/ UNCHANGED disk
  /\ pc' = "undo"
  /\ touched' = <<>>
  /\ todo' = Reverse(touched)
  /\ result' = "failed"
  /\ UNCHANGED <<inStore, stLock, plan, list, backup, before, floor,
                 dirty>>

\* A write fails: before its rename, or after it when the directory cannot be
\* synced. The target counts as touched either way.
WriteFails ==
  /\ pc = "write" /\ todo # <<>> /\ mishaps < MaxMishaps
  /\ mishaps' = mishaps + 1
  /\ WriteTarget(Head(todo)) \/ UNCHANGED disk
  /\ pc' = "undo"
  /\ touched' = <<>>
  /\ todo' = Reverse(Append(touched, Head(todo)))
  /\ result' = "failed"
  /\ UNCHANGED <<inStore, stLock, plan, list, backup, before, floor, dirty>>

Undo ==
  /\ pc = "undo" /\ todo # <<>>
  /\ Restore(Head(todo))
  /\ todo' = Tail(todo)
  /\ UNCHANGED <<inStore, stLock, pc, plan, list, backup, touched, result, before, floor, dirty, mishaps>>

\* A restoration fails; the others are still tried, and the report says so. (One
\* of them: a bound.)
UndoFails ==
  /\ pc = "undo" /\ todo # <<>> /\ result = "failed"
  /\ Restore(Head(todo)) \/ UNCHANGED disk
  /\ todo' = Tail(todo)
  /\ result' = "incomplete"
  /\ UNCHANGED <<inStore, stLock, pc, plan, list, backup, touched, before,
                 floor, dirty, mishaps>>

\* The batch is written, or put back.
Finish ==
  /\ pc \in {"write", "undo"} /\ todo = <<>>
  /\ pc' = "end"
  /\ result' = IF pc = "write" THEN "imported" ELSE result
  /\ floor' = IF pc = "write" THEN marks ELSE floor
  /\ UNCHANGED <<inStore, disk, stLock, mem, before, dirty, mishaps>>

\* Both locks are released, and what the command had in memory is gone.
Leave ==
  /\ pc' = "idle"
  /\ stLock' = IF stLock = "import" THEN "nobody" ELSE stLock
  /\ plan' = <<>> /\ list' = Empty /\ todo' = <<>> /\ touched' = <<>>
  /\ backup' = [index |-> Empty, marks |-> NoMarks]
  /\ result' = "none"
  /\ before' = [file |-> file, index |-> index]
  /\ dirty' = FALSE
  /\ UNCHANGED <<inStore, disk, floor>>

End == pc = "end" /\ Leave /\ UNCHANGED mishaps

\* The wait for the store-state lock ends without it.
GiveUp == pc = "wantState" /\ Leave /\ UNCHANGED mishaps

\* A kill. The locks of a dead owner are free at once (Mutex).
Crash == pc \in Writing /\ mishaps < MaxMishaps /\ mishaps' = mishaps + 1 /\ Leave

------------------------------------------------------------------------------
(* Those who do not take the record lock *)

\* init and store path raise the marks to what the records present imply. (What
\* their early scan means for create is in TaskIds.)
InitLock ==
  /\ inStore /\ stLock = "nobody"
  /\ stLock' = "init"
  /\ UNCHANGED <<inStore, disk, pc, mem, result, before, floor, dirty, mishaps>>

InitWrite ==
  /\ stLock = "init"
  /\ marks' = Raised(marks, Taken)
  /\ floor' = marks'
  /\ stLock' = "nobody"
  /\ UNCHANGED <<inStore, file, index, pc, mem, result, before, dirty, mishaps>>

\* prime and index regenerate the indexes. (One step here: what they read may be
\* out of date when they write it, and they write file by file: TaskLifecycle.)
Regenerate ==
  /\ index' = [b \in Bucket |-> ListedIn(file, b)]
  /\ dirty' = (pc # "idle")
  /\ UNCHANGED <<inStore, file, marks, stLock, pc, mem, result, before, floor, mishaps>>

\* A user, or git pull, adds or deletes a record: between two imports, or while
\* one waits for the store-state lock with its plan made. Whose record it is then
\* is in before.
HandChange(p, rec) ==
  /\ pc \in {"idle", "wantState"} /\ mishaps < MaxMishaps
  /\ mishaps' = mishaps + 1
  /\ file' = [file EXCEPT ![p] = rec]
  /\ before' = [before EXCEPT !.file[p] = rec]
  /\ UNCHANGED <<inStore, index, marks, stLock, pc, mem, result, floor, dirty>>

HandAdd ==
  \E p \in Path : /\ file[p] = None /\ p[1] = "active"
                  /\ HandChange(p, [status |-> "Open", deps |-> {}])
HandDelete == \E p \in Present : HandChange(p, None)

Next ==
  \/ \E batch \in Batch : Start(batch)
  \/ LockState \/ GiveUp \/ Snapshot
  \/ WriteNext \/ WriteFails \/ Undo \/ UndoFails \/ Finish \/ End
  \/ Crash
  \/ InitLock \/ InitWrite \/ Regenerate
  \/ HandAdd \/ HandDelete

Spec == Init /\ [][Next]_vars

------------------------------------------------------------------------------
(* Properties *)

\* planTaskImport: the IDs of a batch are new and all different, in a store past
\* the marks; every parent and dependency is a task or an entry of the batch; and
\* no dependency cycle is closed, not even through a task that had been deleted
\* and whose ID the batch now takes.
SoundPlan(ws) ==
  LET new == {w.path[2] : w \in Range(ws)} IN
  /\ Cardinality(new) = Len(ws)
  /\ new \cap Taken = {}
  /\ \A t \in new :
       /\ inStore => IF t[2] = 0 THEN t[1] >= marks.next ELSE t[2] > marks.mark[t[1]]
       /\ <<t[1], 0>> \in Taken \cup new
  /\ \A w \in Range(ws) : w.rec.deps \subseteq (Taken \cup new) \ {w.path[2]}
  /\ ~Cyclic(file, ws)
PlansAreSound == [][pc = "idle" /\ pc' # "idle" => SoundPlan(plan')]_vars

\* writeTaskImportLocked: an import that reports success has written every record,
\* index and mark of the batch; one that reports a failure without an incomplete
\* rollback leaves records and indexes as they were, wherever it failed, also
\* where a write failed after its rename. Indexes that an unlocked regeneration
\* wrote in between are excepted.
AllOrNothing ==
  /\ result = "imported" =>
       \A w \in Range(plan) :
         /\ file[w.path] = w.rec
         /\ ~dirty => w.path[2] \in index[w.path[1]]
         /\ inStore => LET t == w.path[2] IN
              IF t[2] = 0 THEN t[1] < marks.next ELSE t[2] <= marks.mark[t[1]]
  /\ pc = "end" /\ result = "failed" =>
       /\ file = before.file
       /\ ~dirty => index = before.index

\* Neither the writes nor the rollback, complete or not, change or remove a record
\* that is not the batch's, also one that appeared at a path of the batch while
\* the import waited for the store-state lock.
OthersUntouched ==
  \A p \in Path : before.file[p] # None => file[p] = before.file[p]

\* The rollback puts the state file back from its snapshot: no mark that init or
\* an earlier import made persistent may be lost by that.
MarksKept ==
  /\ marks.next >= floor.next
  /\ \A n \in Number : marks.mark[n] >= floor.mark[n]

------------------------------------------------------------------------------
(* Why it holds: the inductive invariant *)

\* In a store the marks are the import's alone from its snapshot to its end.
LocksFit ==
  /\ stLock # "nobody" \/ pc = "wantState" => inStore
  /\ inStore /\ pc \in Writing \cup {"end"} => stLock = "import"

ResultFits ==
  /\ pc \in {"idle", "wantState", "snapshot", "write"} => result = "none"
  /\ pc = "undo" => result \in {"failed", "incomplete"}

\* The plan has one record per ID, its lists name it, and its paths are free of
\* the records of others once the snapshot has found them free.
PlanFits ==
  /\ \A v, w \in Range(plan) : v.path[2] = w.path[2] => v = w
  /\ \A w \in Range(plan) : w.path[2] \in list[w.path[1]]
  /\ pc \in {"write", "undo"} => \A w \in Range(plan) : before.file[w.path] = None

TargetsFit ==
  /\ pc \in {"idle", "wantState", "snapshot"} => touched = <<>>
  /\ pc = "write" => Range(touched) \cup Range(todo) = Range(Targets(plan))
  /\ pc = "undo" => Range(todo) \subseteq Range(Targets(plan))
  /\ result = "imported" => Range(touched) = Range(Targets(plan))

\* The marks m cover the ID t.
Covers(m, t) == IF t[2] = 0 THEN t[1] < m.next ELSE t[2] <= m.mark[t[1]]

\* What is written has the content that the plan gives it.
WrittenStands ==
  pc = "write" \/ result = "imported" =>
    \A x \in Range(touched) :
      /\ \A w \in Range(plan) : x = w.path => file[w.path] = w.rec
      /\ \A b \in Bucket : x = <<"index", b>> /\ ~dirty => index[b] = list[b]
      /\ x = <<"state", "file">> => \A w \in Range(plan) : Covers(marks, w.path[2])

\* Outside the targets S, files and indexes are as the import found them.
SameBut(S) ==
  /\ \A p \in Path : p \notin S => file[p] = before.file[p]
  /\ ~dirty => \A b \in Bucket : <<"index", b>> \notin S => index[b] = before.index[b]

\* What is not written, or has been put back, is as it was.
RestStands ==
  /\ pc \in {"idle", "wantState", "snapshot"} => file = before.file
  /\ pc \in {"wantState", "snapshot"} /\ ~dirty => index = before.index
  /\ pc \in {"write", "undo"} /\ ~dirty => backup.index = before.index
  /\ pc = "write" => SameBut(Range(touched))
  /\ pc = "undo" /\ result = "failed" => SameBut(Range(todo))
  /\ pc = "end" /\ result = "failed" => SameBut({})

AtLeast(m, n) == /\ m.next >= n.next
                 /\ \A i \in Number : m.mark[i] >= n.mark[i]

\* The snapshot of the marks is no older than what anyone was told.
SnapshotIsCurrent == pc \in {"write", "undo"} => AtLeast(backup.marks, floor)

IInv ==
  /\ TypeOK /\ LocksFit /\ ResultFits /\ PlanFits /\ TargetsFit /\ WrittenStands
  /\ RestStands /\ SnapshotIsCurrent /\ OthersUntouched /\ MarksKept
==============================================================================
