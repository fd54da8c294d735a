------------------------------- MODULE TaskIds -------------------------------
(***************************************************************************)
(* How ahm gives out task IDs: `task create`, `init` and `store path` on   *)
(* the record directory and the state file of one project, with the two    *)
(* named locks they take (each one a Mutex, which NamedLock implements).   *)
(* Between any two steps another command runs, the process dies, or        *)
(* somebody deletes a record by hand.                                      *)
(*                                                                         *)
(* An ID is a number and a letter: <<3, 0>> is task 003, <<3, 2>> is its    *)
(* child 003b.                                                             *)
(***************************************************************************)
EXTENDS Naturals, FiniteSetsExt

CONSTANTS
  Cmd,        \* ahm commands that run on this project
  Nobody,     \* the owner of a free lock
  Home,       \* the records live in the store (else in the project)
  MaxNumber,  \* bound: no task number above it is given out
  MaxLetter,  \* the last child letter: z is 26
  MayFail     \* file operations and lock waits may fail

ASSUME ConstantsAssumption ==
  /\ Nobody \notin Cmd
  /\ Home \in BOOLEAN
  /\ MayFail \in BOOLEAN
  /\ MaxNumber \in Nat \ {0}
  /\ MaxLetter \in Nat

VARIABLES
  records,  \* the IDs of the record files present, whatever their bucket
  next,     \* next_id of the state file, 0 when there is none
  mark,     \* child_suffix_marks of the state file, 0 when there is none
  recLock,  \* the owner of the project's record lock
  stLock,   \* the owner of the store-state lock
  pc,       \* pc[c]: the step c performs next
  job,      \* job[c]: what command c is
  parent,   \* parent[c]: the number of the parent of c's new task, or 0
  base,     \* base[c]: the counter c read, or the highest letter it found
  id,       \* id[c]: the ID c allocated, or NoId
  copy,     \* copy[c]: the marks c read from the state file
  seen,     \* seen[c]: the records a create found when it had the record lock,
            \* and those an init found before it took a lock
  fate,     \* history: the IDs task create wrote a record for, and those the
            \* state file was written to remember
  known     \* history: known[c]: the IDs spent when c took the record lock,
            \* until it has chosen its own

state == <<records, next, mark>>
locks == <<recLock, stLock>>
ghost == <<fate, known>>
vars == <<state, locks, pc, job, parent, base, id, copy, seen, ghost>>

Number == 1 .. MaxNumber
Letter == 1 .. MaxLetter
ID == Number \X (Letter \cup {0})
NoId == <<0, 0>>

Marks == [next : 0 .. MaxNumber + 1, mark : [Number -> Letter \cup {0}]]
NoMarks == [next |-> 0, mark |-> [n \in Number |-> 0]]

\* The steps of a command inside the section of each lock.
RecSection == {"locked", "scan", "readMark", "stat", "write"}
StSection  == {"readState", "writeState", "freeState"}
PC == {"idle", "wantRec", "wantState", "unlock"} \cup RecSection \cup StSection

OwnsRecords(c) ==
  \/ pc[c] \in RecSection \cup {"unlock"}
  \/ job[c] = "create" /\ pc[c] \in StSection \cup {"wantState"}
OwnsState(c) == pc[c] \in StSection

Spent == {i \in ID : fate[i] = "spent"}

TypeOK ==
  /\ records \in SUBSET ID
  /\ next \in 0 .. MaxNumber + 1
  /\ mark \in [Number -> Letter \cup {0}]
  /\ recLock \in Cmd \cup {Nobody}
  /\ stLock \in Cmd \cup {Nobody}
  /\ pc \in [Cmd -> PC]
  /\ job \in [Cmd -> {"none", "create", "init", "path"}]
  /\ parent \in [Cmd -> Number \cup {0}]
  /\ base \in [Cmd -> Nat]
  /\ id \in [Cmd -> ID \cup {NoId}]
  /\ copy \in [Cmd -> Marks]
  /\ seen \in [Cmd -> SUBSET ID]
  /\ fate \in [ID -> {"new", "written", "spent"}]
  /\ known \in [Cmd -> SUBSET ID]

\* A store may hold records of a binary that kept no marks.
Init ==
  /\ records \in SUBSET ID
  /\ next = 0
  /\ mark = [n \in Number |-> 0]
  /\ recLock = Nobody
  /\ stLock = Nobody
  /\ pc = [c \in Cmd |-> "idle"]
  /\ job = [c \in Cmd |-> "none"]
  /\ parent = [c \in Cmd |-> 0]
  /\ base = [c \in Cmd |-> 0]
  /\ id = [c \in Cmd |-> NoId]
  /\ copy = [c \in Cmd |-> NoMarks]
  /\ seen = [c \in Cmd |-> {}]
  /\ fate = [i \in ID |-> "new"]
  /\ known = [c \in Cmd |-> {}]

------------------------------------------------------------------------------
Goto(c, there) == pc' = [pc EXCEPT ![c] = there]
Step(c, here, there) == pc[c] = here /\ Goto(c, there)

Higher(a, b) == IF a >= b THEN a ELSE b

\* highestTaskNumber: child records do not count.
HighestNumber(recs) == Max({0} \cup {n \in Number : <<n, 0>> \in recs})

\* The letters of the children present, and the highest of them.
Letters(recs, n) == {l \in Letter : <<n, l>> \in recs}
HighestLetter(recs, n) == Max({0} \cup Letters(recs, n))

\* The command is over: everything it held in memory is gone.
Forget(c) ==
  /\ job' = [job EXCEPT ![c] = "none"]
  /\ parent' = [parent EXCEPT ![c] = 0]
  /\ base' = [base EXCEPT ![c] = 0]
  /\ id' = [id EXCEPT ![c] = NoId]
  /\ copy' = [copy EXCEPT ![c] = NoMarks]
  /\ seen' = [seen EXCEPT ![c] = {}]
  /\ known' = [known EXCEPT ![c] = {}]

------------------------------------------------------------------------------
(* task create *)

\* The parent is resolved before the lock is taken, and not again under it; that
\* it has no second copy is.
StartCreate(c) ==
  /\ Step(c, "idle", "wantRec")
  /\ \E n \in {0} \cup {m \in Number : <<m, 0>> \in records} :
       parent' = [parent EXCEPT ![c] = n]
  /\ job' = [job EXCEPT ![c] = "create"]
  /\ UNCHANGED <<state, locks, base, id, copy, seen, ghost>>

\* Mutant: the command does not wait for the record lock.
LockNothing(c) ==
  /\ Step(c, "wantRec", "locked")
  /\ seen' = [seen EXCEPT ![c] = records]
  /\ known' = [known EXCEPT ![c] = Spent]
  /\ UNCHANGED <<state, locks, job, parent, base, id, copy, fate>>

LockRecords(c) ==
  /\ Step(c, "wantRec", "locked")
  /\ recLock = Nobody
  /\ recLock' = c
  /\ seen' = [seen EXCEPT ![c] = records]
  /\ known' = [known EXCEPT ![c] = Spent]
  /\ UNCHANGED <<state, stLock, job, parent, base, id, copy, fate>>

\* forEachRecordID: the tasks read first, and the files there now.
Present(c) == seen[c] \cup records

\* readTaskIDCounter, for a top-level task.
ReadCounter(c) ==
  /\ parent[c] = 0
  /\ Step(c, "locked", "scan")
  /\ base' = [base EXCEPT ![c] = IF Home THEN next ELSE 0]
  /\ UNCHANGED <<state, locks, job, parent, id, copy, seen, ghost>>

\* nextTaskIDForPaths.
ScanNumbers(c) ==
  /\ pc[c] = "scan"
  /\ LET n == Higher(base[c], HighestNumber(Present(c)) + 1) IN
       IF n \in Number
       THEN /\ Goto(c, "stat")
            /\ id' = [id EXCEPT ![c] = <<n, 0>>]
       ELSE /\ Goto(c, "unlock")       \* the bound
            /\ UNCHANGED id
  /\ UNCHANGED <<state, locks, job, parent, base, copy, seen, ghost>>

\* nextChildTaskIDForPaths, in the store: the letters present first ...
ScanLetters(c) ==
  /\ Home
  /\ parent[c] # 0
  /\ Step(c, "locked", "readMark")
  /\ base' = [base EXCEPT ![c] = HighestLetter(Present(c), parent[c])]
  /\ UNCHANGED <<state, locks, job, parent, id, copy, seen, ghost>>

\* Mutant: the first letter that is free, as in a project.
FirstFreeInStore(c) ==
  /\ pc[c] = "readMark"
  /\ \E l \in Letter \ Letters(Present(c), parent[c]) :
       /\ \A k \in Letter \ Letters(Present(c), parent[c]) : l <= k
       /\ Goto(c, "stat")
       /\ id' = [id EXCEPT ![c] = <<parent[c], l>>]
  /\ UNCHANGED <<state, locks, job, parent, base, copy, seen, ghost>>

\* Mutant: the letter after z is given out too.
PastTheLast(c) ==
  /\ Step(c, "readMark", "stat")
  /\ id' = [id EXCEPT ![c] = <<parent[c], Higher(mark[parent[c]], base[c]) + 1>>]
  /\ UNCHANGED <<state, locks, job, parent, base, copy, seen, ghost>>

\* ... then the mark, and the letter after the higher of the two.
ReadMark(c) ==
  /\ pc[c] = "readMark"
  /\ LET l == Higher(mark[parent[c]], base[c]) + 1 IN
       IF l \in Letter
       THEN /\ Goto(c, "stat")
            /\ id' = [id EXCEPT ![c] = <<parent[c], l>>]
       ELSE /\ Goto(c, "unlock")       \* all child slots used
            /\ UNCHANGED id
  /\ UNCHANGED <<state, locks, job, parent, base, copy, seen, ghost>>

\* In a project the first free letter is given out, spent or not.
FirstFreeLetter(c) ==
  /\ ~Home
  /\ parent[c] # 0
  /\ pc[c] = "locked"
  /\ LET free == Letter \ Letters(Present(c), parent[c]) IN
       IF free # {}
       THEN /\ Goto(c, "stat")
            /\ id' = [id EXCEPT ![c] = <<parent[c], Min(free)>>]
       ELSE /\ Goto(c, "unlock")
            /\ UNCHANGED id
  /\ UNCHANGED <<state, locks, job, parent, base, copy, seen, ghost>>

\* os.Stat: a file that is already there is refused. It looks in the active
\* bucket only, so a record of the ID elsewhere may go unseen. What the command
\* read before is not used again.
CheckFree(c) ==
  /\ \/ Step(c, "stat", "write")
     \/ id[c] \in records /\ Step(c, "stat", "unlock")
  /\ seen' = [seen EXCEPT ![c] = {}]
  /\ base' = [base EXCEPT ![c] = 0]
  /\ known' = [known EXCEPT ![c] = {}]
  /\ UNCHANGED <<state, locks, job, parent, id, copy, fate>>

\* writeOwned. The marks move only once the record exists.
WriteRecord(c) ==
  /\ Step(c, "write", IF Home THEN "wantState" ELSE "unlock")
  /\ records' = records \cup {id[c]}
  /\ fate' = [fate EXCEPT ![id[c]] = IF @ = "new" THEN "written" ELSE @]
  /\ UNCHANGED <<next, mark, locks, job, parent, base, id, copy, seen, known>>

\* A file operation fails, or a lock wait times out: the command stops with an
\* error and releases what it holds. A record already written stays.
GiveUp(c) ==
  /\ MayFail
  /\ \/ pc[c] \in RecSection \cup {"readState", "writeState"}
     \/ pc[c] = "wantState" /\ job[c] = "create"
  /\ Goto(c, IF OwnsState(c) THEN "freeState" ELSE "unlock")
  /\ UNCHANGED <<state, locks, job, parent, base, id, copy, seen, ghost>>

\* The wait for a command's first lock times out, or the release of its last
\* one fails: the command is over and the lock, if it has it, stays.
GiveUpAll(c) ==
  /\ MayFail
  /\ \/ pc[c] \in {"wantRec", "unlock"}
     \/ pc[c] \in {"wantState", "freeState"} /\ job[c] # "create"
  /\ Goto(c, "idle")
  /\ Forget(c)
  /\ UNCHANGED <<state, locks, fate>>

UnlockRecords(c) ==
  /\ Step(c, "unlock", "idle")
  /\ recLock' = Nobody
  /\ Forget(c)
  /\ UNCHANGED <<state, stLock, fate>>

------------------------------------------------------------------------------
(* init and store path *)

\* initializeTaskIDMarks: the records are scanned before the lock is taken, and
\* install holds no record lock.
StartInit(c) ==
  /\ Home
  /\ Step(c, "idle", "wantState")
  /\ job' = [job EXCEPT ![c] = "init"]
  /\ seen' = [seen EXCEPT ![c] = records]
  /\ UNCHANGED <<state, locks, parent, base, id, copy, ghost>>

\* storePath, and init's recordStoreInstall.
StartPath(c) ==
  /\ Step(c, "idle", "wantState")
  /\ job' = [job EXCEPT ![c] = "path"]
  /\ UNCHANGED <<state, locks, parent, base, id, copy, seen, ghost>>

------------------------------------------------------------------------------
(* The state file, under the store-state lock *)

\* Mutant: the read-modify-write does not wait for the store-state lock.
LockNoState(c) ==
  /\ Step(c, "wantState", "readState")
  /\ UNCHANGED <<state, locks, job, parent, base, id, copy, seen, ghost>>

LockState(c) ==
  /\ Step(c, "wantState", "readState")
  /\ stLock = Nobody
  /\ stLock' = c
  /\ UNCHANGED <<state, recLock, job, parent, base, id, copy, seen, ghost>>

ReadState(c) ==
  /\ Step(c, "readState", "writeState")
  /\ copy' = [copy EXCEPT ![c] = [next |-> next, mark |-> mark]]
  /\ UNCHANGED <<state, locks, job, parent, base, id, seen, ghost>>

\* Mutant: the counter is the ID just spent, not the one after it.
RaisedToSpent(m, i) ==
  IF i[2] = 0
  THEN [m EXCEPT !.next = Higher(@, i[1])]
  ELSE [m EXCEPT !.mark[i[1]] = Higher(@, i[2])]

\* The marks m after ID i was spent (higherTaskIDCounter, raiseChildSuffixMark).
Raised(m, i) ==
  IF i[2] = 0
  THEN [m EXCEPT !.next = Higher(@, i[1] + 1)]
  ELSE [m EXCEPT !.mark[i[1]] = Higher(@, i[2])]

\* The marks m after init found the records early, before it took the lock, and
\* the records late under it: the number is scanned again, the letters are not.
Implied(m, early, late) ==
  [next |-> Higher(m.next, HighestNumber(early \cup late) + 1),
   mark |-> [n \in Number |-> Higher(m.mark[n], HighestLetter(early, n))]]

\* writeProjectState: what store path read, or what is on disk if it is higher.
Merged(m) ==
  [next |-> Higher(m.next, next),
   mark |-> [n \in Number |-> Higher(m.mark[n], mark[n])]]

Written(c) ==
  CASE job[c] = "create" -> Raised(copy[c], id[c])
    [] job[c] = "init"   -> Implied(copy[c], seen[c], records)
    [] OTHER             -> Merged(copy[c])

\* The IDs the write is meant to remember.
Remembered(c) ==
  CASE job[c] = "create" -> {id[c]}
    [] job[c] = "init"   -> seen[c]
    [] OTHER             -> {}

\* mutateProjectStateLocked, or writeProjectState.
WriteState(c) ==
  /\ Step(c, "writeState", "freeState")
  /\ next' = Written(c).next
  /\ mark' = Written(c).mark
  /\ fate' = [i \in ID |-> IF i \in Remembered(c) THEN "spent" ELSE fate[i]]
  /\ UNCHANGED <<records, locks, job, parent, base, id, copy, seen, known>>

FreeState(c) ==
  /\ pc[c] = "freeState"
  /\ stLock' = Nobody
  /\ IF job[c] = "create"
     THEN /\ Goto(c, "unlock")
          /\ UNCHANGED <<job, parent, base, id, copy, seen, known>>
     ELSE /\ Goto(c, "idle")
          /\ Forget(c)
  /\ UNCHANGED <<state, recLock, fate>>

------------------------------------------------------------------------------
(* The environment *)

\* A user removes a record file.
HandDelete ==
  /\ \E i \in records : records' = records \ {i}
  /\ UNCHANGED <<next, mark, locks, pc, job, parent, base, id, copy, seen, ghost>>

\* The process dies; the locks it has stay. Cmd then stands for a new process.
Crash(c) ==
  /\ pc[c] # "idle"
  /\ Goto(c, "idle")
  /\ Forget(c)
  /\ UNCHANGED <<state, locks, fate>>

\* Mutant: a lock is reclaimed from a command that still runs.
ReclaimAny ==
  /\ \/ recLock' = Nobody /\ recLock # Nobody /\ UNCHANGED stLock
     \/ stLock' = Nobody /\ stLock # Nobody /\ UNCHANGED recLock
  /\ UNCHANGED <<state, pc, job, parent, base, id, copy, seen, ghost>>

\* A waiter reclaims the lock of a command that died holding it.
Reclaim ==
  /\ \/ /\ recLock \in Cmd
        /\ ~OwnsRecords(recLock)
        /\ recLock' = Nobody
        /\ UNCHANGED stLock
     \/ /\ stLock \in Cmd
        /\ ~OwnsState(stLock)
        /\ stLock' = Nobody
        /\ UNCHANGED recLock
  /\ UNCHANGED <<state, pc, job, parent, base, id, copy, seen, ghost>>

Create(c) ==
  \/ StartCreate(c) \/ LockRecords(c) \/ ReadCounter(c) \/ ScanNumbers(c)
  \/ ScanLetters(c) \/ ReadMark(c) \/ FirstFreeLetter(c) \/ CheckFree(c)
  \/ WriteRecord(c) \/ UnlockRecords(c)

Persist(c) ==
  LockState(c) \/ ReadState(c) \/ WriteState(c) \/ FreeState(c)

Next ==
  \/ \E c \in Cmd : \/ Create(c) \/ StartInit(c) \/ StartPath(c) \/ Persist(c)
                    \/ GiveUp(c) \/ GiveUpAll(c) \/ Crash(c)
  \/ HandDelete
  \/ Reclaim

Spec == Init /\ [][Next]_vars

------------------------------------------------------------------------------
(* Properties *)

\* The ID a command allocated is not that of a record present, in any bucket,
\* from its scan to its write: no other command creates it in between, and the
\* stat before the write (task_create.go:151-155) has nothing to refuse.
AllocatedIsFree ==
  \A c \in Cmd : pc[c] \in {"stat", "write"} => id[c] \notin records

\* In the store an ID that was spent before a command took the record lock is
\* not the one the command allocates, whether or not its record still exists
\* (ARCHITECTURE.md:145-150).
NothingSpentIsReissued ==
  Home => \A c \in Cmd : id[c] \notin known[c]

\* The state file remembers every spent ID.
Covers(m, i) == IF i[2] = 0 THEN i[1] < m.next ELSE i[2] <= m.mark[i[1]]
SpentIsCovered ==
  \A i \in Spent : Covers([next |-> next, mark |-> mark], i)

\* What makes the properties above inductive. A command inside a section has the
\* section's lock.
OwnersHoldLocks ==
  \A c \in Cmd : /\ OwnsRecords(c) => recLock = c
                 /\ OwnsState(c) => stLock = c

\* What a command is, and whether it has an ID yet, follows from where it is.
Progress ==
  \A c \in Cmd :
    /\ pc[c] \in RecSection \cup {"wantRec", "unlock"} => job[c] = "create"
    /\ pc[c] \in {"idle", "wantRec", "locked", "scan", "readMark"} => id[c] = NoId
    /\ pc[c] \in {"stat", "write"} => id[c] \in ID
    /\ job[c] = "create" /\ pc[c] \in StSection \cup {"wantState"} => id[c] \in ID
    /\ job[c] # "create" => id[c] = NoId
    /\ pc[c] = "scan" => parent[c] = 0
    /\ pc[c] = "readMark" => parent[c] # 0

\* The state a command is about to change is still the one it read.
CopyIsCurrent ==
  \A c \in Cmd : pc[c] = "writeState" => copy[c] = [next |-> next, mark |-> mark]

\* No letter is taken between the scan of the children and the read of the mark.
ScanIsCurrent ==
  \A c \in Cmd : pc[c] = "readMark" =>
    \A l \in Letters(records, parent[c]) : l <= base[c]

\* A command that has still to choose chooses past every ID it must avoid.
KnownIsCovered ==
  Home => \A c \in Cmd :
    pc[c] \in {"locked", "scan", "readMark"} =>
      \A i \in known[c] :
        /\ Covers([next |-> next, mark |-> mark], i)
        /\ pc[c] = "scan" /\ i[2] = 0 => i[1] < base[c]

IInv ==
  /\ TypeOK /\ OwnersHoldLocks /\ Progress /\ CopyIsCurrent
  /\ ScanIsCurrent /\ SpentIsCovered /\ KnownIsCovered
  /\ AllocatedIsFree /\ NothingSpentIsReissued

\* The marks only ever move up, whichever commands interleave.
MarksNeverFall ==
  [][/\ next' >= next
     /\ \A n \in Number : mark'[n] >= mark[n]]_<<next, mark>>

\* The commands use each lock as Mutex says: nobody works without it, and only
\* the owner's end frees it.
Rec == INSTANCE Mutex WITH
         Proc <- Cmd, owner <- recLock,
         working <- {c \in Cmd : OwnsRecords(c) /\ pc[c] \notin {"locked", "unlock"}}
St == INSTANCE Mutex WITH
        Proc <- Cmd, owner <- stLock,
        working <- {c \in Cmd : pc[c] = "writeState"}
UsesLocks == Rec!Spec /\ St!Spec
==============================================================================
