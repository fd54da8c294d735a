# Verification of ahm

ahm keeps task records and architecture decision records (ADRs) as Markdown
files, in the project (`.ahm/`) or in a store in the user's home directory that
several clones of a project share. There is no server: every command is a
process of its own that reads files, decides and writes files, and any number
of commands may run at the same time, on purpose (several agents work on one
project) or not (a hook, a second terminal). What keeps the records right is a
lock made of a directory, the order of the writes, and scans that cope with
what an earlier command left behind when it died.

This directory models that part of ahm in TLA+, checks it with TLC and proves
the main results with TLAPS. All paths below are under `internal/ahm/`.

## 1. The system

### 1.1 Components

| Component | Files | State it keeps | Operations |
|---|---|---|---|
| Named lock | `lock.go` | a directory per lock, an owner token in it, its modification time | acquire, wait, heartbeat, release, reclaim a stale lock |
| Task IDs and marks | `task_id_counter.go`, `task_create.go`, `install.go`, `store.go` | `next_id` and `child_suffix_marks` in the store's state file | choose a number or a child letter, persist a mark, initialise the marks |
| Lifecycle verbs | `task_status.go`, `task_find.go` | status, reason and bucket of a record | accept, start, complete, cancel, reopen, block, unblock |
| Dependencies | `task_deps.go`, `validation_deps.go` | `depends_on` of a record | dep add, dep remove, cycle check, tree |
| Record writes | `task_create.go`, `task_edit.go`, `task_comment.go` | the record file: fields and body | create, edit, comment |
| Generated indexes | `indexes.go`, `prime.go`, `cli.go` | one index file per bucket, a root index, an ADR index | regenerate all or the task indexes |
| Store registry | `store.go`, `store_unregister.go`, `store_list.go` | `registry.json`, one `state.json` per project | register, move path, unregister, list |
| Store migration | `store_migrate.go` | both layouts, the configuration, `.gitignore` | move all records between project and store |
| Task import | `task_import.go` | a batch of records | plan, write, roll back |
| ADRs | `adrs.go`, `adr_commands.go` | ADR files and their index | create, status changes, supersede |
| Atomic writes | `write.go`, `fsync_*.go` | temporary files | write-and-rename, clean up stale temporaries |
| Layout and identity | `workflow_paths.go`, `root.go`, `identity.go`, `git.go` | none | find the root, the mode, the project key, the paths |
| Record formats | `tasks.go`, `markdown_sections.go`, `task_acceptance.go`, `task_enum.go` | none | parse, render, scan buckets |
| Init and configuration | `install.go`, `metadatacache.go`, `recordcache.go` | `.ahm/config.json`, `.gitignore` | init |
| Listing and reports | `task_list.go`, `validation*.go`, `status.go`, `prime.go` | none | queues and findings from an unlocked scan |
| Command line and output | `cli.go`, `output.go` | none | parse, render |

### 1.2 How they interact

- A mutating task or ADR command takes the *record lock* of its project
  (`withWorkflowRecordLock`), reads the records afresh, refuses or plans, writes
  its files one after the other, regenerates the task indexes and releases.
- The state file and the registry are read, changed and written under the
  *store-state lock* of the store (`withStoreStateLock`). `task create` takes it
  while it has the record lock; nothing takes the record lock while it has the
  store-state lock, so the two cannot deadlock.
- `init`, `prime` and `index` regenerate indexes without the record lock;
  `init` and `store path` write the state file with the store-state lock alone.
- The layout (project or store, and where) is resolved once per command,
  *before* the lock is taken. `store migrate` changes it.
- Nothing is journalled. A command that dies leaves what it had written, and
  its locks, which a later command reclaims when they look stale.

### 1.3 What is hard, and what correct means

| Component | Hard because | Correct when |
|---|---|---|
| Named lock | each step of acquire, heartbeat, release and reclaim is one system call, and the rename that claims a stale lock works on a path, not on the lock that was judged stale | two processes never work in one section; the lock of a working process is not taken away; every acquire returns; a lock whose owner died is reclaimed |
| Task IDs | the scan, the choice, the record write and the mark write are separate; other writers of the marks do not take the record lock; records disappear by hand | a create never overwrites a record; two creates never share an ID; the marks never fall; in the store a spent ID never returns |
| Lifecycle verbs | a bucket move is a write and a removal; `complete` also rewrites other tasks; the state a verb meets may be what a crash or a user left | no record is lost; a finished verb leaves one copy in the right bucket; `complete` unblocks exactly what it satisfied |
| Dependencies | legality depends on statuses that later commands change | no command closes a cycle of active tasks |
| Record writes | the text of an edit is older than the lock it is saved under | without `--force` an edit keeps every comment and the reason of a cancellation |
| Scans and reports | the buckets are listed one after the other while records move | a report is right about every task that was left alone |
| Indexes | patched from memory, written one by one, and by unlocked writers too | they say what the buckets hold when a command ends; stale ones heal |
| Registry | two files per change, machine-wide | every project with state can be found again; entries of other projects survive |
| Migration | five kinds of files in two places, no transaction | every record is in exactly one layout, the one the configuration names, or a second run gets it there |
| Import | a batch, with rollback from a snapshot | all or nothing, and nothing of others is lost |
| ADRs | two records per supersession | references agree, or the same command repairs them |
| Atomic writes | temporary files of live and of dead writers look alike | a reader sees the old or the new file; no live writer's file is removed |

The hazards of `PROJECT.json` list these one by one, at their lines.

## 2. The modules

| Module | What it is |
|---|---|
| `Mutex` | what a named lock promises: one owner, work by the owner only, an owner that no longer works may lose it |
| `NamedLock` | `lock.go`, one file-system operation per action |
| `NamedLockProofs` | its theorems |
| `TaskIds` | ID allocation and the state file, with both locks as `Mutex`es |
| `TaskIdsProofs` | its theorems |
| `TaskLifecycle` | the records of a project, the commands that change them, the indexes |
| `DepCycles` | the search for dependency cycles, one call, dependency or return per action |
| `TaskLifecycleProofs` | its theorems, and those about the readers of `TaskScan` and the search of `DepCycles` |
| `TaskScan` | `TaskLifecycle` with a reader beside it that takes no lock: reports, queues, regeneration |
| `TaskBody` | the body of one record: comment log, cancellation reason, edits |
| `TaskImport` | the import of a batch: plan, snapshot, writes, rollback |
| `TaskImportProofs` | its theorems |
| `StoreMigrate` | the move of the records between project and store, with commands on either layout |
| `StoreMigrateProofs` | its theorems |
| `RegistryMap` | what the store registry promises: a map that changes one entry in one step |
| `StoreRegistry` | the registry and the state files, one file operation per action |
| `StoreRegistryProofs` | its theorems |
| `AdrLifecycle` | ADR files, the commands on them, and users who change them by hand |
| `AdrLifecycleProofs` | its theorems |
| `AtomicFile` | what an atomic write promises, power loss included |
| `AtomicWrite` | `write.go`, one file operation per action |
| `RecordFileProofs` | the theorems of `AtomicWrite` and `TaskBody`: how the file of a record is replaced, and what its body keeps |
| `MC...` | instances for TLC (symmetry, batches, headings, bounds; `MCDependencies` is `TaskLifecycle` or `DepCycles`, `MCRecordFile` is `AtomicWrite` or `TaskBody`; other values are in the `.cfg` files) |

They build on each other by what they promise. `NamedLock` implements `Mutex`
(checked and proved) until one of its races is lost (2.1), and an owner that
sleeps for half an hour in its section counts as having left it. The modules above
it take a `Mutex`, so what they say is said of runs in which neither happens;
`lock_race` shows that the code does not rule them out. `TaskIds` uses its two locks as `Mutex` allows and no
more (`UsesLocks`, proved too: each lock variable and the commands in its section
satisfy `Mutex!Spec`). `TaskLifecycle` assumes that one command at a time is in the
record section, which is `Mutex`'s `OnlyOwnerWorks`, and that an ID given to
`create` is new, which is `TaskIds`' `AllocatedIsFree`. `TaskScan` extends it:
its steps are `TaskLifecycle`'s `Next` and those of one reader. `TaskBody` looks
at one record, whose commands the same lock puts one after the other.
`StoreRegistry` implements `RegistryMap` and `AtomicWrite` implements
`AtomicFile` (both checked and proved); that a file is written in one step is what the
other modules take from there, except that they do not lose power.

### 2.1 NamedLock

`dir` is the directory at the lock path: its identity, who made it, its token
file, and whether its modification time is older than
`workflowLockStaleAfter`. `aside[p]` is the quarantine `p` renamed it into.
`pc[p]` is the next system call of process `p`:

| Code | Actions |
|---|---|
| `acquireNamedLock`, `tryAcquireNamedLock` | `Start`, `Mkdir`, `Busy`, `WriteToken`, `WriteTokenFails`, `UndoMkdir`, `Deadline` |
| `heartbeatLock` | `Heartbeat` |
| the release closure, `removeWorkflowLockIfOwned` | `Release`, `ReleaseCheck`, `ReleaseRename`, `ReleaseVerify`, `ReleaseFails` |
| `removeStaleWorkflowLock` | `FirstStat`, `SecondStat`, `ReadToken` |
| `removeWorkflowLockIfOwned` for a claim | `ClaimCheck`, `ClaimRename`, `ClaimVerify`, `ClaimFails` |
| `reclaimLegacyWorkflowLock` | `LegacyStat`, `LegacyRename`, `LegacyVerify`, `ClaimFails` |
| clocks, crashes, new commands | `GoStale`, `Expire`, `Crash`, `Restart` |

Time is reduced to the comparisons the code makes: `stale` (older than half an
hour), `steady` (the second stat sees the modification time of the first),
`expired` (the ten seconds are over). Two constants choose the environment:

- `MaySuspend`: an owner may be suspended in its section until its lock looks
  stale. Six heartbeat intervals fit into the threshold, so this takes a laptop
  that sleeps.
- `MayFail`: writes, `MkdirTemp` and `Rename` may fail.

The operations work on a path. Between a process's last look at the directory
and what it does next (rename it, read or write its token, remove what it made)
the directory may be another one, and nothing in the code excludes it, so every
such interleaving is in the model. Three history variables tell the cases apart:
`overtaken` are the processes that are about to act blindly on a lock made since
they last looked; `raced` says that one of them did, and thereby took the lock of
another or marked it as its own; `slept` are the owners whose lock looked stale
while they had it. A lost race is not the end of a behaviour, only of what is
promised: the safety properties speak of the time before it, liveness of all of
it, and `ReplacementSurvives` is the claim of `lock.go:291-294` that there are no
such races.

The suffixes of quarantine directories and the tokens are random and taken as
unique while in use. Directory identities (`os.SameFile`) are reused as soon as
they are free. A quarantine that a crash leaves is never looked at again.

### 2.2 TaskIds

The records present, `next` and `mark` (the state file), the two locks, and per
command its job (`create`, `init`, `path`) and what it has in memory. An ID is
a number and a letter. `seen` is what a command scanned; `forEachRecordID`
consults both the tasks read first and the files that exist at that moment,
hence `Present`.

| Code | Actions |
|---|---|
| `taskCreateParsed`, `taskCreateParsedLocked` | `StartCreate`, `LockRecords`, `CheckFree`, `WriteRecord`, `UnlockRecords` |
| `nextTaskIDForPaths` | `ReadCounter`, `ScanNumbers` |
| `nextChildTaskIDForPaths` | `ScanLetters`, `ReadMark` in the store, `FirstFreeLetter` in a project |
| `initializeTaskIDMarks` | `StartInit` (its early scan) |
| `storePath`, `recordStoreProject` | `StartPath` |
| `mutateProjectStateLocked`, `updateStoreProject` | `LockState`, `ReadState`, `WriteState`, `FreeState` |
| error returns | `GiveUp`, `GiveUpAll` |
| environment | `HandDelete`, `Crash`, `Reclaim` (a waiter reclaims the lock of a dead owner) |

`fate` and `known` are history: whether a `create` wrote a record for an ID,
whether the state file was written to remember it, and what was remembered when
a command took the record lock.

A record scan is one step although it is a directory walk; the hand deletions
that could fall into it fall before or after it here. Losing the state file is
the hole that ARCHITECTURE.md names, and it is not modelled. `store migrate`
and `task import` raise marks with the same functions; they are not commands of
this module (TaskImport, StoreMigrate). The registry entry that
`updateStoreProject` writes after the state file is in StoreRegistry, the index
writes of `create` are in TaskLifecycle.

### 2.3 TaskLifecycle

`file[bucket][task]` is a record (status, dependencies, whether it has a
reason) or `None`; `index[bucket]` is what the bucket's index lists. A
mutating command has the record lock from its fresh read to its end, so it is
one *plan* made in one step (`StatusVerb`, `Create`, `DepAdd`, `DepRemove`,
`Edit`, with every refusal of the code as a guard) and then carried out one
file operation at a time: `WriteMain`, `RemoveOld`, `WriteOther` for each
dependent, `WriteIndex` for each bucket, `End`. `Stop` may end it between any
two. `HandMove` and `HandResolve` are users who move a record, or remove one of
two copies as the error message tells them to, while no command runs.
The readers outside the lock are in TaskScan.

Abstractions: a command that refuses or has nothing to do changes nothing and
is no step. Dependents are written in any order (the code: sorted). The root
index and the ADR index are not there. Records that cannot be parsed are
skipped by the code's scans and are not there. The cycle check keeps one copy
of a duplicated task, whichever an unstable sort puts last (`ByID`); that the
search behind it says yes exactly when there is a cycle (`Cyclic`) is
`EmptyReportMeansNoCircle` of 2.11. Parents
and children of tasks place no constraint on the verbs.

### 2.4 StoreMigrate

`file[layout][path]` is a record in the project or in the store, `config` the
layout that `.ahm/config.json` names; `marks`, `index` and `ignore` are the
derived files. `clean` is the set of project records that Git has. Every
command reads the configuration (`Start`), then waits for the record lock of
the layout it has read (`LockForTask`, `LockForMigrate`). A migration follows
`migrateTaskRecords` one file operation at a time:

| Code | Actions |
|---|---|
| the shortcut, `finishSourceCleanup` | `Scan`, `Tidy` |
| `refuseUncommittedRecords`, `refuseRecordConflicts` | `Refuse`, `Admit` |
| `moveTaskRecords`, `copyRecord` | `List`, `ReadRecord`, `WriteRecord`, `RemoveRecord`, `SkipRecord`, `Moved` |
| `initializeTaskIDMarks` | `WriteMarks` |
| `removeSourceIndexes`, `regenerateMigratedIndexes`, `writeMigratedGitignores`, `writeMigratedConfig` | `CleanSource`, `WriteIndexes`, `WriteIgnore`, `WriteConfig` |
| task commands, one step each | `Create`, `Change`, `Idle` |
| kills and failed operations, at any point | `Stop` |
| a user of Git | `GitCommit`, `GitCheckout`, `GitRemove` |

The lock itself is `Mutex`: an orphan is free at once. The layout of a command may be
out of date: it is read before the lock, so a command that waited while a
migration committed goes on in the layout that the records have left. It may also
be the store's whatever the configuration says, for a command with `--project` or
of another clone (`conf` is then `"shared"`). Both are in the model, so two
commands can be in their sections, each with the lock of its layout. `astray` is
history: the commands that got a lock that was not the configured layout's, and
those beside which the configuration changed. `crossed` is history too: the
commands that were in their section together with another one. What the code
promises, it promises a command that is `Alone`, that is in its section and has not
been crossed; what two at once can do to each other is `migrate_race`. `half`
says that an unforced migration stopped, and no record has changed since.

Left out: the registry entry (`recordStoreMigration`) and the check of the
directory name, empty directories, the dry run. The index files of one layout
are one step, and so are the two `.gitignore` files. A checkout happens while
no command is in its section; a removal by Git also while those that are there
are between two records of a move, which is the case that `moveTaskRecords` skips.

### 2.5 TaskScan

`scan` is what `taskFilePathsFor` and the reading of the files have got so far:
the buckets still to list, the files still to read, the records found, whether
a listed file was gone. `ListBucket` lists the buckets in the order of
`taskBuckets`; `ReadFile` reads in the order of the paths, except that the files
of one bucket come in any order. A scan ends as a report (`Report`: `status`,
`doctor`, the queues of `prime` and `task next`) or goes on to a regeneration
(`RegenBegin`, `RegenWrite`, `RegenStop`: `prime`, `index`, `init`), which
renders all indexes and writes them one by one. `Findings` are the rules of
`validation_buckets.go`, `validation_deps.go` and `filterTasks`, as sets, except the
cycles: which of several overlapping ones are listed depends on the search, and a
task that changed may hide a cycle of others that did not. What is said of cycles is
that the graph searched is the right one: the tasks left alone wait for each
other in what was found as they do in the files (`Waiting`). With DepCycles this
means that a listed cycle of such tasks is real, and that the report is not empty
if there is one. `moved`
and `rewritten` are history: the tasks with a file that came or went, or was
replaced, since the scan began. One reader at a time; duplicate files of one ID
in one bucket, children of Tracking tasks, titles and acceptance notes are left
out.

### 2.6 TaskBody

A body is a sequence of lines: headings of level 2 and 3, and texts, one token
each. `Sections`, `End` and `SectionContent` are `locateHeadingSections`;
`Dropped`, `AllCarried` and `Carries` the guard of `task edit`, which pairs the
sections of a name by their positions (`to` in `AllCarried`); `Appended`,
`WithReason` and `WithSection` the three rewrites. Commands on the record
follow each other under its lock and are one step each (`Comment`, `Cancel`,
`EditBody`, `EditSection`, with and without `--force`). The body that an author has read
(`draft`) may be older: `EditBody` makes his text of it, up to one line more,
less or other, or two parts swapped, and the guard compares it with the body as
it is then. `log` and `reason` are history: the comments (by number) and the
reason that nobody gave up with `--force`. Comments begin with their
time, so the model takes their lines to be distinct (the same words twice in
one second are out) and supposes that no author writes or copies one. Code
blocks, which hide headings, blank lines, and comments whose own text has a
heading are left out (section 5).

### 2.7 TaskImport

`file`, `index` and `marks` as in the modules above; a batch is a sequence of
entries with a parent, dependencies and a status, which refer to tasks or to
other entries.

| Code | Actions |
|---|---|
| `planTaskImport` | `Start` with `Planned` and `Accepted` |
| `writeTaskImport` | `LockState`, `GiveUp` |
| `writeTaskImportLocked` | `Snapshot`, `WriteNext`, `WriteFails` (before or after the rename), `Finish` |
| the deferred rollback | `Undo`, `UndoFails` |
| kills | `Crash` |
| `initializeTaskIDMarks`, `storePath` beside it | `InitLock`, `InitWrite` |
| `regenerateIndexes` beside it | `Regenerate` (one step) |
| users | `HandAdd`, `HandDelete` |

A regeneration is one step here because TaskScan has its interleavings. Records
change by hand while no import writes, or before its snapshot: what is changed
under a running import is in the way of any program. `dirty` is history (an
unlocked regeneration wrote meanwhile) and exempts the indexes.

### 2.8 StoreRegistry

`registry` maps project keys to a directory and observed paths, `state` and
`records` are the directories that have a state file and task records. A
command resolves its directory without a lock (`Begin`), waits, and reads and
writes under the store-state lock: `ReadToWrite`, `WriteState`, `WriteRegistry`
(`updateStoreProject`), `ReadToRemove`, `WriteRegistry` (`unregister`).
`WriteRecords` is a task command in the directory it resolved, before it
records anything. `Stop` is an error return or a kill between any two. A
directory name is a key and the rule that named it, today's or an earlier one;
observed paths and remotes are handled alike, so only paths are there. `hidden`
is history: the projects unregistered from a directory that today's rule would
not find again.

### 2.9 AdrLifecycle

A record has a kind (with front matter, legacy, or unreadable: its front matter
malformed between its delimiters, or not closed), a status, the
number of its successor, the link of its supersession note and the records it
says it supersedes; a name is a number and a slug, and the number past
`MaxNumber` stands for 1000, whose four digits no command reads back. A command
holds the record lock from its read to its end: `Create`, `SetStatus` and
`Supersede` decide in one step, then `WriteNew`, `WriteStatus`, `WriteOld`,
`WriteSuccessor` and `WriteIndex` follow, with `CannotRewrite` for a file that is
gone or not closed and `Stop` for a failed write or a kill. A file that was spoilt
between its delimiters is rewritten like any other, as `rewriteADR` does. Users set
plain statuses, spoil and repair a file, bring one from a branch, delete one. Of the index only the
lines of superseded records are kept.

### 2.10 AtomicWrite

One path and the inodes it may name. `base`, `moved` and `synced` are what a
power loss may leave: the entry on the disk, the renames since, the files whose
content is on the disk. `CreateTemp`, `Write`, `Sync`, `Rename`, `SyncDir` are
`writeFileAtomic` (permissions and close are folded into the step before);
`Find` and `Clean` are `cleanupStaleTempsIn`, whose age test and removal are two
steps; `GetsOld` lets five minutes pass, also for a writer that sleeps.
`anchored` says whether the directory's own entry is on the disk.

### 2.11 DepCycles

The recursion of `taskDependencyCycles` as a state machine over an arbitrary graph:
`byID` the unfinished tasks with their dependencies, `path` the calls that are
running, `left` what each has still to follow, `visited` and `cycles` as in the code.
`EnterRoot` is the outer loop, `EnterDependency` and `SkipDependency` the calls
for dependencies, `ReportCircle` the circle found, `Return` the end of a call.
Roots and dependencies come in any order. Of 1 with the dependencies 2 and 3, 2 with 3, 3 with
1, the code lists 1, 2, 3 and not 1, 3: a circle need not be listed. What
the callers rely on is weaker and is what is stated: a listed circle is one, and
every circle contains the last step of a listed one (`ReportsCutEveryCircle`).
Import also asks whether its own tasks are among those listed, which is the same
question only if the records before it had no circle, as it supposes.

## 3. The runs

| Run | Instance | What it shows |
|---|---|---|
| `lock` | 2 processes, 2 tokens, 2 identities, sleeping owners, failures | until a race is lost: mutual exclusion, nobody who was awake loses a lock, a release is of one's own lock, `Mutex` is implemented; lost races and their consequences included: acquire returns, orphans are reclaimed |
| `lock_race` | 2 processes, no failures | a live lock is renamed away and deleted by a process that checked its predecessor |
| `ids` | 2 commands, numbers to 1, letters to 2 in the store and 3 in the project, failures | no ID in use is given out; in the store no spent one; marks never fall; the locks are used as `Mutex` |
| `task_deps` | 3 tasks, 8 kinds of command, 1 mishap; every graph of 3 tasks, finished ones among them | no lost record, right placement, unblocking, indexes, cycles; what the search reports are circles, every circle has a step in common with the report, the search is never stuck |
| `task_scan` | 2 tasks, create, complete, dep add and dep remove, an unlocked reader, 1 mishap | reports and queues are right about what was left alone; stale indexes heal |
| `task_cycle` | 2 tasks | reopen closes an active cycle |
| `migrate` | 2 commands, 2 tasks, 2 buckets, 2 contents, 1 mishap (bounded as told below) | for a command that is alone, also after and between commands with stale layouts and in the shared store: nothing is lost, a commit leaves one layout in order, a stopped migration can be repeated; two meet only after one got a lock that was not the configured layout's |
| `migrate_race` | 2 commands, 1 task, no mishaps | two opposite migrations each remove the copy that the other has written |
| `registry` | 2 commands, 2 projects, 1 path, 1 stop | no lost update, registered directories have state, records stay in sight, `RegistryMap` is implemented |
| `import` | batches of 2, numbers to 2, letters to 2, 2 mishaps | plans are sound, all or nothing, others' records and marks survive |
| `adr` | 3 numbers, 2 slugs, 1 stop, 1 change by hand | numbers and successors are unambiguous, references backed, a stopped supersession can be finished |
| `record_file` | 2 writers, 4 files, 3 mishaps; bodies of 4 lines, 2 comments, 4 headings | `AtomicFile` is implemented; comments and reasons survive edits prepared before them |

`task_deps` and `record_file` check two modules each that do not interact: a
behaviour is one of the first or one of the second (`view` in `MCDependencies` and
`MCRecordFile`).

**Bounds.** The lock races involve one process that is judged, one that claims
and one that acquired in between. Two processes make all of these, as the one that
is judged may die or sleep, and the claimer, or a new command in its place, be the
one that acquires. Two tokens are enough because at most one lock is in use beside one
that is read. What the run says of safety is proved for any number of all three.
For IDs, two commands are one that is overtaken
and one that overtakes, restarted any number of times; the bound on numbers
only ends the run (a number above it is refused as the 27th letter is), and two
letters are enough for a mark above the records present. Its safety part is proved
for every bound. Three tasks are a task, a dependent and another dependency of
it, or a cycle of three. A mishap is a crash, a failed operation or a hand
move; one of them is enough for a command to meet what an earlier one left. That
no record is lost and that verbs place their task is proved for any number.

In `migrate` a command by itself has two records to work on, in two tasks or two
buckets (a move that stops between two records, an ID in two places), with two
contents (a conflict); two commands at the same time have one record, in the active
bucket, and no mishap behind them (`Bound` in `MCStoreMigrate`). What two have done
to it is then the start of what one does. The mishap is a stop or a checkout: all
that matters of an earlier migration is in the files, and the run starts the next one
from every such state. The theorems of section 4 hold for all numbers at once.

Three tasks for the search make circles that overlap (1, 2, 3 and 1, 3 above), lie
inside one another or are apart. Two tasks for a scan are one that moves and one
that stays, a task and its dependency, or, as dependencies are added and removed
meanwhile, a circle that a scan pieces together and that never was. Two comments are a log with an order, four lines a log of two and a
section after it, or two protected sections. Two imported entries make every
relation within a batch (parent, dependency, both orders), and the batches of
`MCTaskImport` name tasks outside it; two mishaps are a failed write and a failed
restoration, or a hand edit before a failure. Two projects show that entries of
others are left alone, two commands that one is overtaken. Three ADR numbers are
a record, its successor and the successor's. Two writers and three mishaps are a
write that is overtaken, a sleeper whose temporary file is cleaned away, and a
power loss after both.

**Deadlock** is checked in every run but `adr` and `record_file`: there is always a
command to start. Those two stop when the bound on numbers or files and the
bound on mishaps are used up together.

**Fairness.** `NamedLock`: a process whose next step is enabled takes it
(`WF_vars(Run(p))`, written with `pc`, which moves in each such step), because a waiter polls in a loop and nothing it does blocks; clocks
advance (`Expire`, `GoStale`). Nothing is assumed of crashes, restarts, new
commands or heartbeats. `OrphanIsReclaimed` in addition supposes that crashes
and failed renames stop and that somebody goes on waiting for the lock: one
waiter gives up after ten seconds, long before a lock is stale. `TaskScan`: a command carries its
plan on, and a regeneration that has begun to write goes on. `IndexesHeal` supposes that
regenerations go on being started and mutations stop, as its premise says.

## 4. What is proved

`tlapm` checks every proof, for all values of the constants that satisfy the
modules' named assumptions (sentinels are not ordinary values, booleans are
booleans, bounds are natural numbers).

**NamedLock.** With no assumption on timing, for any number of processes, tokens
and identities: `TypeCorrect`, and, until a race is lost, `HoldersKeepTheirLock`,
`Exclusive`, `ReleasesAreTruthful` and `Refinement` (`Spec => ImplementsMutex`). They
say that there is no other way to break the lock: whoever loses one loses it to a
process that was overtaken between two of its own system calls, or slept.
Mutual exclusion alone is not inductive: a waiter may be about to rename a lock
that has become somebody else's. `IInv` adds that a process that was not overtaken
works on its own directory when it sets a lock up or removes it
(`WorksOnItsOwn`), that a token names the maker of the directory it is in
wherever that is renamed to (`TokenNamesMaker`), that only a lock whose maker has
left or slept looks stale (`OnlyOrphansAreStale`), and that a waiter that was not
overtaken claims such a lock, or one whose token it will find replaced
(`ClaimsTargetOrphans`).

**TaskIds.** `CreateOverwritesNothing`, `NoSpentIdReturns`, `MarksOnlyRise` and
`LocksAreUsed` (`Spec => UsesLocks`), for any number of commands and any bounds, in the store and in the project,
with crashes, failures and hand deletions. `IInv` has, besides the properties:
a command in a section has its lock (`OwnersHoldLocks`), what it holds in
memory fits its step (`Progress`), the copy of the state file it is about to
write back is current (`CopyIsCurrent`), no letter was taken since its scan
(`ScanIsCurrent`), and the IDs it must avoid are covered by what it will choose
from (`KnownIsCovered`). That the locks are used as `Mutex` allows follows from
`OwnersHoldLocks`: a step moves one command (`OneCommandMoves`), so it is one
action of `Mutex` for each of the two locks, or leaves that lock and the
commands in its section alone.

**TaskLifecycle.** `NothingIsLost` and `VerbsPlaceTasks`, for any set of tasks,
any subset of the commands and any number of crashes and hand edits. Once a
plan is made its safety depends on the plan alone: the copy a removal leaves
was written before (`PlanIsSafe`), a verb's task has no copies outside the plan
(`VerbIsUnderWay`), and `complete` does not write its own task a second time
because no task awaits itself (`NoTaskAwaitsItself`).
What the plan *does* is a second invariant over the first (`Effects`): the lists
rendered for the indexes are the listing of the files except where a write or
removal of the plan is still to come (`ListIsPromised`), and every blocked
dependent of a completed task is among the writes or waits for another task
(`DependentsAreKnown`). From it follow `IndexesAreTrue` and
`CompletionUnblocks`. `CyclesComeFromReopen` is the argument about graphs: a
cycle of unfinished tasks that a step closes goes through an edge that the step
adds or a task that it brings back; the cycle check refuses the first, and only
`reopen` does the second.

**TaskScan.** `ScansAreTrue`, for any number of tasks and any commands beside the
reader. The invariant is that of `TaskLifecycle` and `ScanStands`: in a bucket
already listed, a task that did not move is on the list still to be read or
among what was found exactly where it has a file, and what was found is what is
there unless the task was rewritten. The rest is about the reports alone: each
finding is decided by the tasks it is about (`FindingsAgree`), so two scans that
agree on these agree on the finding, and likewise on the circles.

**DepCycles.** For any graph and any order: `ReportedCirclesAreReal`,
`NoCircleIsMissed`, and from both `EmptyReportMeansNoCircle`. The path is a chain of
dependencies without repetition (`PathIsChain`); a dependency that was followed is
visited, or the next task on the path, or closes a listed circle (`Followed`); and
every set of visited tasks is cut by the report (`VisitedIsCut`). The last is kept
when a call returns because a task visited before it cannot wait for it, except by
a step that closes a listed circle.

**StoreMigrate.** For any commands, tasks, buckets, contents and number of mishaps,
with stale layouts and the shared store: `OneCommandAtATime` (two commands are in
their sections only after one got the lock of a layout that was not the configured
one), and for a command that is alone in its section, whatever others did to the
records before, `NoTaskIsLost` (`RecordsSurvive`), `NoContentIsLost` (`ContentSurvives`),
`CommitsAreFinished` (`FinishedMove`) and `RepeatsAreAdmitted`. Two different locks
are in play, so that they exclude each other is a fact about the configuration: a
command in its section has the lock of its layout (`OwnersHoldLocks`), and that
layout is the one the configuration names unless the command is astray
(`OthersAreCurrent`); commands that meet have been crossed (`TogetherIsCrossed`), and
one of them is astray (`StrayTogether`). A record that is being removed has arrived
(`RemovedHasArrived`), and stays there as long as nobody else is at work.
The other three rest on what a migration found and did standing until it ends
(`MoveInv`), under every step that may come between: its own, those of commands
outside their sections, and Git's while it is between two records
(`StepsBeside`). The records that are left cover the source (`ScanStands`), a
copy that was read is the file (`CopyStands`), what let an unforced migration in
is still true, namely that no record conflicts and everything is committed
(`AdmissionStands`), and so is every step after the moves (`FinishStands`). A
migration that stops leaves just the facts of its admission behind
(`HalfStands`), hence nothing a repetition would be refused for.

**StoreRegistry.** For any commands, projects and paths: `RegisteredHasState`,
`RecordsAreFound` and `Refinement` (`Spec => ImplementsMap`). Two properties of
the files alone are not inductive, because a command holds copies of them: the
invariant adds that whoever is inside has the store-state lock (`InsideHasLock`),
that its copy of the registry is then the file (`ReadIsFresh`), that it works
for the project it resolved (`KnowsItsProject`), and what the resolution before the
lock, which may be out of date, still guarantees (`ResolutionStands`).

**AtomicWrite.** `Refinement` (`Spec => ImplementsFile`), power loss and slow
writers included. The abstract file maps to the content under the path and the
contents a power loss may bring back. The invariant says that what the path
names, now or after a power loss, is completely on the disk (`PlacedIsWhole`),
and that the temporary file of a writer is nobody else's and never the one at
the path (`TempIsOwn`): a file is synced before its rename, so the rename puts
only whole files in place.

**TaskBody.** `AuditTrailKept`, for any headings, texts, comments and bodies of
any length. That the comments are in the log in order says nothing of a comment
written twice, or of one in a draft that is not made yet; `BodyInv` adds that a
comment has at most one place in the body and in the draft, and none before it
is made (`Once`, `Tracked`). Its place can then be followed. `task comment` and
`task cancel` replace what is between two positions (`Spliced`), and the log
after such a splice is the log before it, moved if the splice lies before it
(`SpliceBefore`), stretched or shortened if it lies inside (`SpliceInside`),
untouched if it lies behind (`SpliceAfter`). For an edit nothing is known but
the guard. Its pairs preserve the order of the sections and leave none out, so
the first section of level 2 named Comments is paired with the first one of the
new body, which is where `task comment` will append (`EditKeepsLog`), and the
first section for a reason with the first (`EditKeepsReason`). TLC checks
`BodyInv` too when it is put in `RecordFile.cfg`.

**AdrLifecycle.** All of the module's properties, for any numbers and slugs, any
number of stops and changes by hand. The invariant has one condition for the
files and one for the command under way. The files: two records never share a
number unless users merged one in (`NumbersAreUnique`), a record that is
superseded by another says so in its note (`SuccessorsAreNamed`), following
successors leads into no circle (`NoCircle`). The command: what it decided
before its first write stays true until its last (`CommandStands`), because no other
command has the lock.

**TaskImport.** All of the module's properties, for any set of batches of any
length, in the store and in the project. `SoundPlans` needs no invariant but
types: that the IDs of a batch differ is a fact about counting (the number of
an entry grows with the entries before it, the letter with its elder siblings;
in a project the letters are the free ones in order). For the rest the
invariant follows the list of targets: those written have the plan's content
(`WrittenStands`), all others are as the import found them (`RestStands`), and
what is still to be put back is always among the targets (`TargetsFit`), whose
paths were free when the snapshot was taken (`PlanFits`), so that neither a write
nor a rollback meets a record of others. The state file is put back from
a snapshot that is no older than any mark persisted since
(`SnapshotIsCurrent`), because the import has the store-state lock from before
the snapshot to the end (`LocksFit`).

**Model-checked only.** Liveness (`AcquireReturns`, `OrphanIsReclaimed`,
`IndexesHeal`), which is out of the prover's reach. Every safety and action
property and every refinement of a passing run is stated by a theorem, and so
are the type invariants of `StoreMigrate`, `StoreRegistry`, `AdrLifecycle` and
`AtomicWrite`, which are in no run. What happens
after a lost race of the lock, and to commands that meet in a migration, is told in
section 5.

## 5. Where code and documents disagree

Three runs end in a violation and are the findings of `PROJECT.json`: `lock_race`,
`task_cycle` (a dependency that `dep add` accepts while one task is completed closes
a cycle when that task is reopened; `task-commands.md:548` says that cycles are
refused) and `migrate_race`. The others have no run.

*Locks and IDs*

- `lock.go:291-294` says that ownership is compared "on both sides of the
  rename, so a stale observer or former owner never deletes a replacement lock".
  `removeWorkflowLockIfOwned` renames the lock away before the second comparison
  and deletes the quarantine on a mismatch too. Two processes are enough: a
  waiter that saw a stale token deletes the lock that was acquired between its
  first comparison and its rename, and two processes are in their sections
  (`lock_race`).
- `lock.go:193-197` takes the token read after the two stats as that of the stale
  lock. A lock that was acquired between the second stat and the read is then
  claimed by its own token, and both comparisons succeed. This is a second race, of
  the ones that `raced` covers.
- `ARCHITECTURE.md:145-157` says that a number is not reissued while the state
  file survives. `task create` writes the record (`task_create.go:156`) and then
  the mark (`:163`). Stopped in between, and the record deleted by hand, the ID is
  given out again. `NothingSpentIsReissued` counts an ID as spent with its mark.

*Records*

- `task create --status Completed` (or `Cancelled`) writes the record to the
  active bucket; `docs/references/glossary.md:44` has a task in the bucket of its
  status. `--status Blocked` records no reason. `VerbPlacesItsTask` therefore
  speaks of the verbs, which repair the placement.
- `prime`, `index` and `init` write indexes without the record lock, so a
  mutation can end with a stale index. `task-commands.md:142` says a mutation
  refreshes the indexes. `IndexesFollowFiles` is checked without, `IndexesHeal`
  with them.
- A `complete` that dies after its own record was written leaves dependents
  Blocked, and running it again is a no-op (ADR 030:34).
- `task_status.go:369`: `cancel` rewrites the first section named Cancellation
  Reason, at level 2 or 3. If an author put a `### Cancellation Reason` into the
  comment log, it runs to the end of the log, and `cancel` deletes the comments
  after it without a word; `task edit` refuses the same change.
- The guard of `task edit` and `task comment` skip code blocks. A body with an
  unclosed fence hides the log that `task comment` then appends at the end, and
  every later comment opens a section of its own, which the guard does not see
  either. A comment text with a heading of level 2 (`--body-file`) ends the log
  at that place.
- `prime` and `index` fail with an error if the only task they listed moves
  before they read it; `status`, `doctor` and `prime` beside a command may report
  a missing dependency or a duplicate that was never there at one moment.
  `ScanIsTrue` says which findings are reliable.

*Migration, registry and import*

- `store_migrate.go:597-599` says that `copyRecord` overwrites only what the
  check admitted or `--force` allows. A migration to the store holds the lock of
  the project; a command with `--project`, or of a clone whose configuration
  already names the store, has the lock in the store directory, and the record
  it writes between check and copy is overwritten without `--force`. Such a
  migration is not `Alone`, and `ContentSurvives` does not speak of it.
- The layout is resolved before the lock (`cli.go:83-103`), so a command that
  waited for a migration goes on in the layout the records have left. Two
  migrations in opposite directions can then hold different locks, each take the
  other's copy for one that has arrived, and remove both (`migrate_race`).
  `store_migrate.go:30-33` says every other command still serializes on the lock
  of the migration.
- `store_migrate.go:20-23`: repeating the command always finishes a half-finished
  move. It is refused after a command has changed a record that had been copied
  and not removed, has given the ID of a moved record to a new one (in a
  project), or where a task had records in two buckets. `RepeatIsAdmitted`
  shows that in every other case it is admitted.
- `init` reads the configuration and writes it back without a lock, so it can
  undo the commit of a migration.
- Reversing a migration that stopped before its commit, when there are no
  records, takes the `finishSourceCleanup` shortcut and leaves the `.gitignore`
  and indexes of the other layout.
- `docs/references/cli/commands.md:402`: after `store unregister` "a later `store
  path` in the same project re-registers the same key and directory". An entry whose directory an
  earlier naming rule gave is registered again under another directory, and its
  records are out of sight (`hidden` in `RecordsStayInSight`).
- A command with `--project` resolves the directory, and if an `unregister`
  comes in between, its own observation brings the entry back.
- An import plans, then waits for the store-state lock, and does not look again:
  a record that appeared at its path by hand meanwhile makes it fail, and is left
  alone. Its rollback may put an index back that is older than what an unlocked
  regeneration wrote; a killed import leaves part of its batch, whose dangling
  references a later task with that number satisfies.

*ADRs and files*

- ADR 009:56 says that numbers are never reused. The number of the highest
  record is given again once its file is deleted by hand, and a "superseded by"
  that named it then names another decision. `SuccessionIsSound` supposes that
  nobody deleted or merged files.
- `adrs.go:274`: after 999 `adr create` reports success for a file with four
  digits, which no command reads, and does so again for the next one.
- `adr accept` and the other verbs, repeated after a stop between the record and
  the index, answer "already" and leave the index as it is (`adr_commands.go:317`).
  A stopped `supersede` can be finished by repeating it as long as the successor
  is still accepted. `upsertADRMoreInformationLine` removes every line that
  contains the old record's number. Temporary files of ADR writes are never
  cleaned up.
- `write.go:114-118` says that no live writer has a temporary file older than five
  minutes. One that slept has; its write then fails and the target is intact.
  A directory that a command creates is not synced, so a power loss may take it
  with the acknowledged file in it (`anchored`).

## 6. Plan

The components of section 1 that change files have their modules. What is left,
in this order:

1. `StoreMigrate`: the registry entry and the check of the directory name, which
   `StoreRegistry` has, in one model with the move.
2. `TaskBody` with code blocks, once as the code has them and once without the
   divergence of section 5.

**Not modelled.** Rendering and parsing of front matter, Markdown and JSON,
acceptance notes, link checking, search, sorting and filters of lists, argument
parsing and output: sequential string processing of one file or one result,
where a unit test reaches every case. `root.go`, `git.go` and the normalisation
of remotes in `identity.go` are pure functions of the file system and of Git.
The directories and `.gitignore` files that `init` and `prime` create are
idempotent single writes.
