----------------------------- MODULE StoreMigrate -----------------------------
(***************************************************************************)
(* `ahm store migrate --to home|project`: the move of a project's task     *)
(* records between the project and the store, one file operation at a      *)
(* time, with the task commands that work on either layout, a user of Git, *)
(* and a stop between any two operations.                                  *)
(*                                                                         *)
(* The committed configuration says where the records are. A command reads *)
(* it once, before it waits for the record lock of the layout it names,    *)
(* and goes on in that layout whatever the configuration says by then; a   *)
(* migration holds that one lock, and writes the configuration last. So    *)
(* two commands may be in their sections, with a lock each: `crossed` has  *)
(* the commands that were not alone in theirs, and `astray` tells why. A   *)
(* task command is one step here (TaskLifecycle has its operations), and   *)
(* so are the writes of the index files of one layout.                     *)
(***************************************************************************)
EXTENDS Naturals, FiniteSets

CONSTANTS
  Cmd,           \* ahm commands
  Nobody,        \* the owner of a free lock
  Task,          \* task IDs
  Bucket,        \* record directories
  Data,          \* contents of a record
  None,          \* no file
  Git,           \* the project root is a Git repository
  MaxMishaps     \* bound: commands that stop, and checkouts

Layout == {"project", "home"}
Path == Bucket \X Task

ASSUME ConstantsAssumption ==
  /\ Nobody \notin Cmd
  /\ "active" \in Bucket
  /\ None \notin Data
  /\ Git \in BOOLEAN
  /\ MaxMishaps \in Nat

VARIABLES
  config,     \* tasks_location of the configuration, "none" without one
  file,       \* file[l][p]: the record at path p in layout l, or None
  clean,      \* the paths whose record in the project is the one in Git's HEAD
  marks,      \* the task IDs that the store's state file remembers
  index,      \* index[l]: what the indexes of l list (a set of paths, if any)
  ignore,     \* the layout that the project's .gitignore is written for
  lock,       \* lock[l]: the owner of the record lock of l
  pc,         \* pc[c]: the step c performs next
  conf,       \* conf[c]: the configuration c has read, "shared" in a command of
              \* another clone or one with --project: it works in the store
  to,         \* to[c]: the destination of migration c
  force,      \* force[c]: it was given --force
  left,       \* left[c]: the paths it has found and not moved yet
  cur,        \* cur[c]: the path it is moving (at most one)
  data,       \* data[c]: what it has read there
  list,       \* list[c]: the paths its indexes will list
  half,       \* history: the destination of an unforced migration that stopped
              \* half-way, until a record changes or another one is admitted;
              \* "none" else, where a task has records in two buckets, and
              \* where the migration was crossed
  crossed,    \* history: the commands under way that have been in their section
              \* beside another one
  astray,     \* history: those that got the lock of a layout that was not the
              \* configured one, or were in their section beside such a command
  mishaps

files == <<config, file, clean, marks, index, ignore>>
mem   == <<conf, to, force, left, cur, data, list>>
strays == <<crossed, astray>>
vars  == <<files, lock, pc, mem, half, strays, mishaps>>

\* The steps of a migration before it moves a record, while it does, and after.
Moving == {"list", "move", "write", "remove"}
After  == {"marks", "clean", "index", "ignore", "commit"}
InLock == {"work", "scan", "check", "tidy"} \cup Moving \cup After
PC == {"idle", "wait", "unlock"} \cup InLock

\* taskFilePathsFor: the records of a layout, and their IDs.
Present(l) == {p \in Path : file[l][p] # None}
IDs(l) == {t \in Task : \E b \in Bucket : <<b, t>> \in Present(l)}

TypeOK ==
  /\ config \in Layout \cup {"none"}
  /\ file \in [Layout -> [Path -> Data \cup {None}]]
  /\ clean \in SUBSET Present("project")
  /\ marks \in SUBSET Task
  /\ index \in [Layout -> SUBSET SUBSET Path]
  /\ ignore \in Layout \cup {"none"}
  /\ lock \in [Layout -> Cmd \cup {Nobody}]
  /\ pc \in [Cmd -> PC]
  /\ conf \in [Cmd -> Layout \cup {"none", "shared"}]
  /\ to \in [Cmd -> Layout]
  /\ force \in [Cmd -> BOOLEAN]
  /\ left \in [Cmd -> SUBSET Path]
  /\ cur \in [Cmd -> SUBSET Path]
  /\ data \in [Cmd -> Data \cup {None}]
  /\ list \in [Cmd -> SUBSET Path]
  /\ half \in Layout \cup {"none"}
  /\ crossed \in SUBSET Cmd
  /\ astray \in SUBSET Cmd
  /\ mishaps \in 0 .. MaxMishaps
  /\ \A c \in Cmd : pc[c] \in {"write", "remove"} =>
       data[c] # None /\ \E p \in Path : cur[c] = {p}

\* A repository without records, with any configuration or none.
Init ==
  /\ config \in Layout \cup {"none"}
  /\ file = [l \in Layout |-> [p \in Path |-> None]]
  /\ clean = {}
  /\ marks = {}
  /\ index = [l \in Layout |-> {}]
  /\ ignore = config
  /\ lock = [l \in Layout |-> Nobody]
  /\ pc = [c \in Cmd |-> "idle"]
  /\ conf = [c \in Cmd |-> "none"]
  /\ to = [c \in Cmd |-> "home"]
  /\ force = [c \in Cmd |-> FALSE]
  /\ left = [c \in Cmd |-> {}]
  /\ cur = [c \in Cmd |-> {}]
  /\ data = [c \in Cmd |-> None]
  /\ list = [c \in Cmd |-> {}]
  /\ half = "none"
  /\ crossed = {}
  /\ astray = {}
  /\ mishaps = 0

------------------------------------------------------------------------------
Goto(c, there) == pc' = [pc EXCEPT ![c] = there]
Step(c, here, there) == pc[c] = here /\ Goto(c, there)

\* resolveTaskLocation: a repository without a configuration is a new project,
\* which lives in the store. So does what another clone works on.
Location(cf) == IF cf = "project" THEN "project" ELSE "home"

\* The layout whose lock c takes, and the source of migration c.
Lay(c) == Location(conf[c])
\* Mutant: the source is the layout that the configuration names.
FromConfigured(c) == Lay(c)

From(c) == IF to[c] = "home" THEN "project" ELSE "home"

\* Some task has records in two buckets, here or there.
Twins == \E p, q \in Present("project") \cup Present("home") : p # q /\ p[2] = q[2]

Forget(c) ==
  /\ conf' = [conf EXCEPT ![c] = "none"]
  /\ to' = [to EXCEPT ![c] = "home"]
  /\ force' = [force EXCEPT ![c] = FALSE]
  /\ left' = [left EXCEPT ![c] = {}]
  /\ cur' = [cur EXCEPT ![c] = {}]
  /\ data' = [data EXCEPT ![c] = None]
  /\ list' = [list EXCEPT ![c] = {}]

------------------------------------------------------------------------------
(* The record lock of one layout *)

\* A command reads the configuration, and then waits for the lock. What it was
\* asked to do is chosen once it has the lock: nothing depends on it before.
Start(c) ==
  /\ Step(c, "idle", "wait")
  /\ \E cf \in {config, "shared"} : conf' = [conf EXCEPT ![c] = cf]
  /\ UNCHANGED <<files, lock, to, force, left, cur, data, list, half, strays, mishaps>>

Inside == {d \in Cmd : pc[d] \in InLock}

\* The lock is that of the layout it resolved; nothing resolves it again.
Lock(c, there) ==
  /\ Step(c, "wait", there)
  /\ lock[Lay(c)] = Nobody
  /\ lock' = [lock EXCEPT ![Lay(c)] = c]
  /\ crossed' = crossed \cup (IF Inside = {} THEN {} ELSE Inside \cup {c})
  /\ astray' = astray \cup (IF Lay(c) # Location(config) \/ astray \cap Inside # {}
                            THEN Inside \cup {c} ELSE {})
  /\ UNCHANGED <<files, conf, left, cur, data, list, half, mishaps>>

LockForTask(c) ==
  /\ Lock(c, "work")
  /\ UNCHANGED <<to, force>>

\* Another clone moves records of its own, which are not in this model.
LockForMigrate(c) ==
  /\ conf[c] # "shared"
  /\ Lock(c, "scan")
  /\ \E l \in Layout : to' = [to EXCEPT ![c] = l]
  /\ \E f \in BOOLEAN : force' = [force EXCEPT ![c] = f]

\* The command is over.
Leave(c) ==
  /\ Goto(c, "idle")
  /\ lock' = [lock EXCEPT ![Lay(c)] = Nobody]
  /\ crossed' = crossed \ {c}
  /\ astray' = astray \ {c}
  /\ Forget(c)

\* The wait for the lock times out.
GiveUp(c) ==
  /\ Step(c, "wait", "idle")
  /\ Forget(c)
  /\ UNCHANGED <<files, lock, half, strays, mishaps>>

Unlock(c) ==
  /\ pc[c] = "unlock"
  /\ Leave(c)
  /\ UNCHANGED <<files, half, mishaps>>

------------------------------------------------------------------------------
(* Task commands *)

\* A content that is written to the project may be the committed one.
Touch(l, p, gone) ==
  IF l = "project" THEN clean' \in {clean \ ({p} \cup gone), (clean \ gone) \cup {p}}
                   ELSE UNCHANGED clean

\* What every one of them does to layout l: a record is written, another path of
\* its task removed, and the indexes are regenerated.
Save(c, l, p, gone, d) ==
  /\ Step(c, "work", "unlock")
  /\ file' = [file EXCEPT ![l] = [q \in Path |-> IF q = p THEN d
                                                 ELSE IF q \in gone THEN None
                                                 ELSE file[l][q]]]
  /\ index' = [index EXCEPT ![l] = {(Present(l) \ gone) \cup {p}}]
  /\ Touch(l, p, gone)
  /\ half' = "none"

\* task create: an ID that no record of the layout has, and in the store none that
\* the state file remembers.
Create(c) ==
  LET l == Lay(c) IN
  /\ \E t \in Task \ IDs(l), d \in Data :
       /\ l = "home" => t \notin marks
       /\ Save(c, l, <<"active", t>>, {}, d)
       /\ marks' = IF l = "home" THEN marks \cup {t} ELSE marks
  /\ UNCHANGED <<config, ignore, lock, mem, strays, mishaps>>

\* Every other task command: new content, another bucket, or both.
Change(c) ==
  LET l == Lay(c) IN
  /\ \E p, q \in Path, d \in Data :
       /\ p[2] = q[2]
       /\ {b \in Bucket : <<b, p[2]>> \in Present(l)} = {p[1]}
       /\ Save(c, l, q, {p} \ {q}, d)
  /\ UNCHANGED <<config, marks, ignore, lock, mem, strays, mishaps>>

\* A command that is refused.
Idle(c) ==
  /\ Step(c, "work", "unlock")
  /\ UNCHANGED <<files, lock, mem, half, strays, mishaps>>

------------------------------------------------------------------------------
(* migrateTaskRecords, before the first record moves *)

\* There is a configuration, c works in the destination, and the source is empty:
\* only the derived files of the source are cleaned up.
Scan(c) ==
  /\ pc[c] = "scan"
  /\ Goto(c, IF Present(From(c)) = {} /\ config # "none" /\ Lay(c) = to[c]
             THEN "tidy" ELSE "check")
  /\ left' = [left EXCEPT ![c] = Present(From(c))]
  /\ UNCHANGED <<files, lock, conf, to, force, cur, data, list, half, strays, mishaps>>

\* finishSourceCleanup.
Tidy(c) ==
  /\ Step(c, "tidy", "unlock")
  /\ index' = [index EXCEPT ![From(c)] = {}]
  /\ UNCHANGED <<config, file, clean, marks, ignore, lock, mem, half, strays, mishaps>>

\* refuseUncommittedRecords: records only the working tree has are not moved away.
Uncommitted(c) ==
  /\ Git
  /\ to[c] = "home"
  /\ left[c] # {}
  /\ ~(Present("project") \subseteq clean)

\* Mutant: only the other buckets are searched for the ID.
ConflictsElsewhere(c) ==
  \E p \in left[c], b \in Bucket : b # p[1] /\ <<b, p[2]>> \in Present(to[c])

\* Mutant: any record that is there already is a conflict.
ConflictsAnyCopy(c) ==
  \E p \in left[c], b \in Bucket : <<b, p[2]>> \in Present(to[c])

\* refuseRecordConflicts: the destination has other bytes at the path of a record,
\* or its ID in another bucket.
Conflicts(c) ==
  \E p \in left[c] :
    /\ p \in Present(From(c))
    /\ \/ file[to[c]][p] \notin {None, file[From(c)][p]}
       \/ \E b \in Bucket \ {p[1]} : <<b, p[2]>> \in Present(to[c])

Refused(c) == ~force[c] /\ (Uncommitted(c) \/ Conflicts(c))

Refuse(c) ==
  /\ Step(c, "check", "unlock")
  /\ Refused(c)
  /\ UNCHANGED <<files, lock, mem, half, strays, mishaps>>

Admit(c) ==
  /\ Step(c, "check", "list")
  /\ ~Refused(c)
  /\ half' = "none"
  /\ UNCHANGED <<files, lock, mem, strays, mishaps>>

------------------------------------------------------------------------------
(* moveTaskRecords, copyRecord *)

List(c) ==
  /\ Step(c, "list", "move")
  /\ left' = [left EXCEPT ![c] = Present(From(c))]
  /\ UNCHANGED <<files, lock, conf, to, force, cur, data, list, half, strays, mishaps>>

\* A record that has arrived before is only removed.
ReadRecord(c) ==
  /\ pc[c] = "move"
  /\ \E p \in left[c] \cap Present(From(c)) :
       /\ Goto(c, IF file[to[c]][p] = file[From(c)][p] THEN "remove" ELSE "write")
       /\ cur' = [cur EXCEPT ![c] = {p}]
       /\ data' = [data EXCEPT ![c] = file[From(c)][p]]
  /\ UNCHANGED <<files, lock, conf, to, force, left, list, half, strays, mishaps>>

\* A record that vanished is skipped.
SkipRecord(c) ==
  /\ pc[c] = "move"
  /\ \E p \in left[c] \ Present(From(c)) : left' = [left EXCEPT ![c] = @ \ {p}]
  /\ UNCHANGED <<files, lock, pc, conf, to, force, cur, data, list, half, strays, mishaps>>

WriteRecord(c) ==
  /\ Step(c, "write", "remove")
  /\ \E p \in cur[c] : /\ file' = [file EXCEPT ![to[c]][p] = data[c]]
                       /\ Touch(to[c], p, {})
  /\ UNCHANGED <<config, marks, index, ignore, lock, mem, half, strays, mishaps>>

RemoveRecord(c) ==
  /\ Step(c, "remove", "move")
  /\ \E p \in cur[c] : file' = [file EXCEPT ![From(c)][p] = None]
  /\ clean' = IF From(c) = "project" THEN clean \ cur[c] ELSE clean
  /\ left' = [left EXCEPT ![c] = @ \ cur[c]]
  /\ cur' = [cur EXCEPT ![c] = {}]
  /\ data' = [data EXCEPT ![c] = None]
  /\ UNCHANGED <<config, marks, index, ignore, lock, conf, to, force,
                 list, half, strays, mishaps>>

Moved(c) ==
  /\ left[c] = {}
  /\ Step(c, "move", "marks")
  /\ UNCHANGED <<files, lock, mem, half, strays, mishaps>>

------------------------------------------------------------------------------
(* migrateTaskRecords, after the last record has moved *)

\* Mutant: the marks are only taken from records that moved just now.
WriteMarksOfMoved(c) ==
  /\ Step(c, "marks", "clean")
  /\ IF to[c] = "home"
     THEN /\ marks' = marks \cup {p[2] : p \in left[c]}
          /\ list' = [list EXCEPT ![c] = Present("home")]
     ELSE UNCHANGED <<marks, list>>
  /\ UNCHANGED <<config, file, clean, index, ignore, lock, conf, to, force,
                 left, cur, data, half, strays, mishaps>>

\* initializeTaskIDMarks: nothing is read, and there are no marks, in a project.
WriteMarks(c) ==
  /\ Step(c, "marks", "clean")
  /\ IF to[c] = "home"
     THEN /\ marks' = marks \cup IDs("home")
          /\ list' = [list EXCEPT ![c] = Present("home")]
     ELSE UNCHANGED <<marks, list>>
  /\ UNCHANGED <<config, file, clean, index, ignore, lock, conf, to, force,
                 left, cur, data, half, strays, mishaps>>

\* removeSourceIndexes.
CleanSource(c) ==
  /\ Step(c, "clean", "index")
  /\ index' = [index EXCEPT ![From(c)] = {}]
  /\ UNCHANGED <<config, file, clean, marks, ignore, lock, mem, half, strays, mishaps>>

\* regenerateMigratedIndexes, from the tasks read for the marks if there are any.
WriteIndexes(c) ==
  /\ Step(c, "index", "ignore")
  /\ index' = [index EXCEPT ![to[c]] = {IF to[c] = "home" THEN list[c] ELSE Present(to[c])}]
  /\ UNCHANGED <<config, file, clean, marks, ignore, lock, mem, half, strays, mishaps>>

\* Mutant: the configuration is committed before the last write.
WriteConfigEarly(c) ==
  /\ Step(c, "ignore", "commit")
  /\ ignore' = to[c]
  /\ config' = to[c]
  /\ UNCHANGED <<file, clean, marks, index, lock, mem, half, strays, mishaps>>

\* writeMigratedGitignores.
WriteIgnore(c) ==
  /\ Step(c, "ignore", "commit")
  /\ ignore' = to[c]
  /\ UNCHANGED <<config, file, clean, marks, index, lock, mem, half, strays, mishaps>>

\* writeMigratedConfig: the commit point.
WriteConfig(c) ==
  /\ Step(c, "commit", "unlock")
  /\ config' = to[c]
  /\ UNCHANGED <<file, clean, marks, index, ignore, lock, mem, half, strays, mishaps>>

------------------------------------------------------------------------------
(* The environment *)

\* The command dies or an operation fails; its lock becomes free (Mutex). What it
\* did stays.
Stop(c) ==
  /\ pc[c] \in InLock
  /\ mishaps < MaxMishaps
  /\ mishaps' = mishaps + 1
  /\ Leave(c)
  /\ half' = IF pc[c] \notin Moving \cup After THEN half
              ELSE IF force[c] \/ Twins \/ c \in crossed THEN "none" ELSE to[c]
  /\ UNCHANGED files

\* A user commits the project's records.
GitCommit ==
  /\ Git
  /\ clean' = Present("project")
  /\ clean # clean'
  /\ UNCHANGED <<config, file, marks, index, ignore, lock, pc, mem, half, strays, mishaps>>

\* A checkout or a pull writes a record to the project, while no command is in its
\* section.
GitCheckout ==
  /\ Git
  /\ Inside = {}
  /\ \E p \in Path, d \in Data :
       /\ file["project"][p] # d
       /\ file' = [file EXCEPT !["project"][p] = d]
       /\ clean' = clean \cup {p}
  /\ half' = "none"
  /\ mishaps < MaxMishaps
  /\ mishaps' = mishaps + 1
  /\ UNCHANGED <<config, marks, index, ignore, lock, pc, mem, strays>>

\* It removes a record from the project, while no command is at work on one.
GitRemove ==
  /\ Git
  /\ \A c \in Inside : pc[c] = "move"
  /\ \E p \in Present("project") :
       /\ file' = [file EXCEPT !["project"][p] = None]
       /\ clean' = clean \ {p}
  /\ half' = "none"
  /\ mishaps < MaxMishaps
  /\ mishaps' = mishaps + 1
  /\ UNCHANGED <<config, marks, index, ignore, lock, pc, mem, strays>>

TaskCommand(c) == LockForTask(c) \/ Create(c) \/ Change(c) \/ Idle(c)

Prepare(c) == LockForMigrate(c) \/ Scan(c) \/ Tidy(c) \/ Refuse(c) \/ Admit(c)

Transfer(c) ==
  \/ List(c) \/ ReadRecord(c) \/ SkipRecord(c)
  \/ WriteRecord(c) \/ RemoveRecord(c) \/ Moved(c)

Finish(c) ==
  \/ WriteMarks(c) \/ CleanSource(c) \/ WriteIndexes(c)
  \/ WriteIgnore(c) \/ WriteConfig(c)

Next ==
  \/ \E c \in Cmd : \/ TaskCommand(c) \/ Prepare(c) \/ Transfer(c) \/ Finish(c)
                    \/ Start(c) \/ GiveUp(c) \/ Unlock(c) \/ Stop(c)
  \/ GitCommit
  \/ GitCheckout
  \/ GitRemove

Spec == Init /\ [][Next]_vars

------------------------------------------------------------------------------
(* Properties *)

\* c is in its section, and has been alone since it got its lock.
Alone(c) == pc[c] \in InLock /\ c \notin crossed

Migrates(c) == pc[c] \in Moving \cup After

\* No step of a migration without --force that is alone, wherever an earlier one
\* stopped, takes away a content that is not in the other layout too.
ContentSurvives ==
  [][\A c \in Cmd : Migrates(c) /\ Alone(c) /\ ~force[c] /\ pc'[c] # pc[c] =>
       \A l \in Layout, p \in Path :
         file[l][p] # None => \E m \in Layout : file'[m][p] = file[l][p]]_vars

\* No command that is alone, with or without --force and wherever it stopped,
\* leaves a task that had a record without one.
RecordsSurvive ==
  [][\A c \in Cmd : Alone(c) /\ pc'[c] # pc[c] =>
       IDs("project") \cup IDs("home") \subseteq (IDs("project") \cup IDs("home"))']_vars

\* Two commands are in their sections only after one got the lock of a layout that
\* was not the configured one: the two locks work as one as long as nobody waits
\* through the commit of a migration or comes from another clone.
OneAtATime ==
  astray \cap Inside = {} => \A c, d \in Inside : c = d

\* store_migrate.go:21-24, 30-33: a record is removed from the source only after it
\* has been written to the destination, and every other command waits until the
\* configuration is committed. So it is in the destination when it is removed.
ArrivesBeforeItLeaves ==
  [][\A c \in Cmd : RemoveRecord(c) => \A p \in cur[c] : file[to[c]][p] # None]_vars

\* A migration that commits, and has been alone, leaves one layout: nothing in its
\* source, right indexes in its destination, and in the store marks that cover
\* every record.
FinishedMove ==
  [][\A c \in Cmd : WriteConfig(c) /\ Alone(c) =>
       /\ Present(From(c)) = {} /\ index[From(c)] = {}
       /\ index[to[c]] = {Present(to[c])} /\ ignore = to[c]
       /\ to[c] = "home" => IDs("home") \subseteq marks]_vars

\* store_migrate.go:20-23: a migration that stopped half-way is finished by
\* running it again. Alone, it is not refused, as long as no record changed since.
RepeatIsAdmitted ==
  [][\A c \in Cmd : Refuse(c) /\ Alone(c) => half # to[c]]_vars
==============================================================================
