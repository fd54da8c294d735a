-------------------------- MODULE StoreMigrateProofs --------------------------
(***************************************************************************)
(* Proofs about StoreMigrate, for any commands, tasks, buckets, contents   *)
(* and number of mishaps, wherever commands wait and whoever works in the  *)
(* store. Two commands are in their sections only after one got the lock   *)
(* of a layout that was not the configured one. A command that is alone in *)
(* its section takes no task's last record; a migration that is takes no   *)
(* content's only copy, is finished when it commits, and is admitted when  *)
(* it repeats one that stopped half-way. What commands that are in their   *)
(* sections together do to each other, StoreMigrate_race shows.            *)
(***************************************************************************)
EXTENDS StoreMigrate, TLAPS

\* A command that ends forgets what it had in memory.
LEMMA ForgetTyped ==
  ASSUME TypeOK, NEW c \in Cmd, Forget(c), Goto(c, "idle")
  PROVE  /\ pc' \in [Cmd -> PC]
         /\ conf' \in [Cmd -> Layout \cup {"none", "shared"}]
         /\ to' \in [Cmd -> Layout]
         /\ force' \in [Cmd -> BOOLEAN]
         /\ left' \in [Cmd -> SUBSET Path]
         /\ cur' \in [Cmd -> SUBSET Path]
         /\ data' \in [Cmd -> Data \cup {None}]
         /\ list' \in [Cmd -> SUBSET Path]
         /\ \A d \in Cmd : pc'[d] \in {"write", "remove"} =>
              data'[d] # None /\ \E p \in Path : cur'[d] = {p}
<1>1. /\ pc' \in [Cmd -> PC]
      /\ pc'[c] = "idle"
      /\ \A d \in Cmd \ {c} : pc'[d] = pc[d] /\ cur'[d] = cur[d] /\ data'[d] = data[d]
  BY DEF Forget, Goto, TypeOK, PC
<1>2. ASSUME NEW d \in Cmd, pc'[d] \in {"write", "remove"}
      PROVE  data'[d] # None /\ \E p \in Path : cur'[d] = {p}
  BY <1>1, <1>2 DEF TypeOK
<1> QED
  BY <1>1, <1>2 DEF Forget, TypeOK, Layout

LEMMA LayoutTyped ==
  ASSUME TypeOK, NEW c \in Cmd
  PROVE  /\ Lay(c) \in Layout
         /\ From(c) \in Layout
         /\ to[c] \in Layout
         /\ From(c) # to[c]
         /\ \A l \in Layout : Present(l) \subseteq Path
BY DEF TypeOK, Lay, Location, From, Layout, Present

\* What a task command writes are contents and paths; only what is there is clean.
LEMMA SaveTyped ==
  ASSUME TypeOK, NEW c \in Cmd, NEW l \in Layout, NEW p \in Path,
         NEW gone \in SUBSET (Path \ {p}), NEW d \in Data, Save(c, l, p, gone, d)
  PROVE  /\ file' \in [Layout -> [Path -> Data \cup {None}]]
         /\ clean' \in SUBSET Present("project")'
         /\ index' \in [Layout -> SUBSET SUBSET Path]
         /\ pc' \in [Cmd -> PC]
         /\ half' \in Layout \cup {"none"}
         /\ \A e \in Cmd : pc'[e] \in {"write", "remove"} => pc[e] = pc'[e]
<1> DEFINE new == [q \in Path |-> IF q = p THEN d ELSE IF q \in gone THEN None ELSE file[l][q]]
<1>1. new \in [Path -> Data \cup {None}]
  BY DEF TypeOK
<1>2. file' = [file EXCEPT ![l] = new]
  BY DEF Save
<1>3. file' \in [Layout -> [Path -> Data \cup {None}]]
  BY <1>1, <1>2 DEF TypeOK
<1>4. index' \in [Layout -> SUBSET SUBSET Path]
  BY DEF Save, TypeOK, Present
<1>5. clean' \in SUBSET Present("project")'
  <2>1. CASE l = "project"
    <3>1. file'["project"] = new
      BY <2>1, <1>2 DEF TypeOK
    <3>2. \A q \in (clean \ gone) \cup {p} : q \in Path /\ new[q] # None
      BY <2>1, ConstantsAssumption DEF TypeOK, Present
    <3>3. clean' \subseteq (clean \ gone) \cup {p}
      BY <2>1 DEF Save, Touch
    <3> HIDE DEF new
    <3> QED
      BY <3>1, <3>2, <3>3 DEF Present
  <2>2. CASE l # "project"
    BY <2>2, <1>2 DEF Save, Touch, TypeOK, Present, Layout
  <2> QED
    BY <2>1, <2>2
<1> QED
  BY <1>3, <1>4, <1>5 DEF Save, Step, Goto, TypeOK, PC, InLock, Moving

LEMMA StraysTyped ==
  ASSUME TypeOK, NEW c \in Cmd, (\E there \in PC : Lock(c, there)) \/ Leave(c)
  PROVE  crossed' \in SUBSET Cmd /\ astray' \in SUBSET Cmd
BY DEF TypeOK, Lock, Leave, Inside

\* Type correctness: every step keeps the variables in their sets.
LEMMA TypeStep == TypeOK /\ [Next]_vars => TypeOK'
<1> SUFFICES ASSUME TypeOK, [Next]_vars
             PROVE  TypeOK'
  OBVIOUS
<1> USE ConstantsAssumption DEF strays
<1>1. ASSUME NEW c \in Cmd, TaskCommand(c) PROVE TypeOK'
  <2>1. CASE LockForTask(c)
    <3>1. "work" \in PC /\ Lock(c, "work")
      BY <2>1 DEF LockForTask, PC, InLock
    <3>2. crossed' \in SUBSET Cmd /\ astray' \in SUBSET Cmd
      BY <3>1, StraysTyped
    <3>3. lock' \in [Layout -> Cmd \cup {Nobody}] /\ pc' \in [Cmd -> PC]
      BY <3>1, LayoutTyped DEF Lock, Step, Goto, TypeOK
    <3> QED
      BY <2>1, <3>1, <3>2, <3>3 DEF LockForTask, Lock, Step, Goto, TypeOK, files, Present
  <2>2. CASE Create(c)
    <3>1. PICK t \in Task \ IDs(Lay(c)), d \in Data :
            /\ Save(c, Lay(c), <<"active", t>>, {}, d)
            /\ marks' = IF Lay(c) = "home" THEN marks \cup {t} ELSE marks
      BY <2>2 DEF Create
    <3>2. <<"active", t>> \in Path /\ {} \in SUBSET (Path \ {<<"active", t>>})
      BY DEF Path
    <3>3. marks' \in SUBSET Task
      BY <3>1 DEF TypeOK
    <3> QED
      BY <2>2, <3>1, <3>2, <3>3, SaveTyped, LayoutTyped DEF Create, TypeOK, mem
  <2>3. CASE Change(c)
    <3>1. PICK p \in Path, q \in Path, d \in Data : Save(c, Lay(c), q, {p} \ {q}, d)
      BY <2>3 DEF Change
    <3>2. {p} \ {q} \in SUBSET (Path \ {q})
      OBVIOUS
    <3> QED
      BY <2>3, <3>1, <3>2, SaveTyped, LayoutTyped DEF Change, TypeOK, mem
  <2>4. CASE Idle(c)
    BY <1>1, <2>4 DEF Idle, Step, Goto, TypeOK, PC, InLock, files, mem, Present
  <2> QED
    BY <1>1, <2>1, <2>2, <2>3, <2>4 DEF TaskCommand
<1>2. ASSUME NEW c \in Cmd, Prepare(c) PROVE TypeOK'
  <2>1. CASE LockForMigrate(c)
    <3>1. "scan" \in PC /\ Lock(c, "scan")
      BY <2>1 DEF LockForMigrate, PC, InLock
    <3>2. crossed' \in SUBSET Cmd /\ astray' \in SUBSET Cmd
      BY <3>1, StraysTyped
    <3>3. lock' \in [Layout -> Cmd \cup {Nobody}] /\ pc' \in [Cmd -> PC]
      BY <3>1, LayoutTyped DEF Lock, Step, Goto, TypeOK
    <3> QED
      BY <2>1, <3>1, <3>2, <3>3 DEF LockForMigrate, Lock, Step, Goto, TypeOK, files, Present
  <2>2. CASE Scan(c)
    BY <1>2, <2>2, LayoutTyped DEF Scan, Goto, TypeOK, PC, InLock, files, Present
  <2>3. CASE Tidy(c)
    BY <1>2, <2>3, LayoutTyped DEF Tidy, Step, Goto, TypeOK, PC, InLock, mem, Present
  <2>4. CASE Refuse(c)
    BY <1>2, <2>4 DEF Refuse, Step, Goto, TypeOK, PC, InLock, files, mem, Present
  <2>5. CASE Admit(c)
    BY <1>2, <2>5 DEF Admit, Step, Goto, TypeOK, PC, InLock, Moving, files, mem, Present
  <2> QED
    BY <1>2, <2>1, <2>2, <2>3, <2>4, <2>5 DEF Prepare
<1>3. ASSUME NEW c \in Cmd, Transfer(c) PROVE TypeOK'
  <2>1. CASE List(c)
    BY <1>3, <2>1, LayoutTyped DEF List, Step, Goto, TypeOK, PC, InLock, Moving, files, Present
  <2>2. CASE ReadRecord(c)
    <3>1. PICK p \in left[c] \cap Present(From(c)) :
            /\ Goto(c, IF file[to[c]][p] = file[From(c)][p] THEN "remove" ELSE "write")
            /\ cur' = [cur EXCEPT ![c] = {p}]
            /\ data' = [data EXCEPT ![c] = file[From(c)][p]]
      BY <2>2 DEF ReadRecord
    <3>2. p \in Path /\ file[From(c)][p] \in Data \cup {None} /\ file[From(c)][p] # None
      BY LayoutTyped DEF TypeOK, Present
    <3>3. /\ pc' \in [Cmd -> PC]
          /\ cur' \in [Cmd -> SUBSET Path]
          /\ data' \in [Cmd -> Data \cup {None}]
      BY <3>1, <3>2 DEF Goto, TypeOK, PC, InLock, Moving
    <3>4. ASSUME NEW d \in Cmd, pc'[d] \in {"write", "remove"}
          PROVE  data'[d] # None /\ \E q \in Path : cur'[d] = {q}
      <4>1. CASE d = c
        BY <4>1, <3>1, <3>2 DEF TypeOK
      <4>2. CASE d # c
        BY <4>2, <3>1, <3>4 DEF TypeOK, Goto
      <4> QED
        BY <4>1, <4>2
    <3> QED
      BY <2>2, <3>3, <3>4 DEF ReadRecord, TypeOK, files, Present
  <2>3. CASE SkipRecord(c)
    BY <1>3, <2>3 DEF SkipRecord, TypeOK, files, Present
  <2>4. CASE WriteRecord(c)
    <3>1. PICK p \in cur[c] : /\ file' = [file EXCEPT ![to[c]][p] = data[c]]
                             /\ Touch(to[c], p, {})
      BY <2>4 DEF WriteRecord
    <3>2. p \in Path /\ data[c] \in Data
      BY <2>4 DEF WriteRecord, Step, TypeOK
    <3>3. file' \in [Layout -> [Path -> Data \cup {None}]]
      BY <3>1, <3>2 DEF TypeOK
    <3>4. Present("project") \subseteq Present("project")'
      BY <3>1, <3>2 DEF TypeOK, Present
    <3>5. to[c] = "project" => p \in Present("project")'
      BY <3>1, <3>2, <3>3 DEF TypeOK, Present
    <3>6. clean' \in SUBSET Present("project")'
      BY <3>1, <3>4, <3>5 DEF Touch, TypeOK
    <3> QED
      BY <2>4, <3>3, <3>6 DEF WriteRecord, Step, Goto, TypeOK, PC, InLock, Moving, mem
  <2>5. CASE RemoveRecord(c)
    <3>1. PICK p \in Path : cur[c] = {p} /\ file' = [file EXCEPT ![From(c)][p] = None]
      <4>1. PICK q \in Path : cur[c] = {q}
        BY <2>5 DEF RemoveRecord, Step, TypeOK
      <4> QED
        BY <2>5, <4>1 DEF RemoveRecord
    <3>2. file' \in [Layout -> [Path -> Data \cup {None}]]
      BY <3>1, LayoutTyped DEF TypeOK
    <3>3. clean' \in SUBSET Present("project")'
      <4>1. CASE From(c) = "project"
        <5>1. \A q \in clean \ {p} : file'["project"][q] = file["project"][q]
          BY <3>1, <4>1 DEF TypeOK, Present, Layout
        <5> QED
          BY <5>1, <2>5, <3>1, <4>1 DEF RemoveRecord, TypeOK, Present
      <4>2. CASE From(c) # "project"
        BY <2>5, <3>1, <4>2, LayoutTyped DEF RemoveRecord, TypeOK, Present, Layout
      <4> QED
        BY <4>1, <4>2
    <3>4. /\ pc' \in [Cmd -> PC]
          /\ left' \in [Cmd -> SUBSET Path]
          /\ cur' \in [Cmd -> SUBSET Path]
          /\ data' \in [Cmd -> Data \cup {None}]
      BY <2>5 DEF RemoveRecord, Step, Goto, TypeOK, PC, InLock, Moving
    <3>5. ASSUME NEW d \in Cmd, pc'[d] \in {"write", "remove"}
          PROVE  data'[d] # None /\ \E q \in Path : cur'[d] = {q}
      <4>1. d # c
        BY <2>5, <3>5 DEF RemoveRecord, Step, Goto, TypeOK
      <4> QED
        BY <4>1, <2>5, <3>5 DEF RemoveRecord, Step, Goto, TypeOK
    <3> QED
      BY <2>5, <3>2, <3>3, <3>4, <3>5 DEF RemoveRecord, TypeOK
  <2>6. CASE Moved(c)
    BY <1>3, <2>6 DEF Moved, Step, Goto, TypeOK, PC, InLock, After, files, mem, Present
  <2> QED
    BY <1>3, <2>1, <2>2, <2>3, <2>4, <2>5, <2>6 DEF Transfer
<1>4. ASSUME NEW c \in Cmd, Finish(c) PROVE TypeOK'
  <2>1. CASE WriteMarks(c)
    <3>1. marks' \in SUBSET Task /\ list' \in [Cmd -> SUBSET Path]
      BY <2>1, LayoutTyped DEF WriteMarks, TypeOK, IDs, Layout
    <3> QED
      BY <2>1, <3>1 DEF WriteMarks, Step, Goto, TypeOK, PC, InLock, After, Present
  <2>2. CASE CleanSource(c)
    BY <1>4, <2>2, LayoutTyped DEF CleanSource, Step, Goto, TypeOK, PC, InLock, After, mem, Present
  <2>3. CASE WriteIndexes(c)
    BY <1>4, <2>3, LayoutTyped DEF WriteIndexes, Step, Goto, TypeOK, PC, InLock, After, mem, Present
  <2>4. CASE WriteIgnore(c)
    BY <1>4, <2>4, LayoutTyped DEF WriteIgnore, Step, Goto, TypeOK, PC, InLock, After, mem, Present
  <2>5. CASE WriteConfig(c)
    BY <1>4, <2>5, LayoutTyped DEF WriteConfig, Step, Goto, TypeOK, PC, InLock, mem, Present
  <2> QED
    BY <1>4, <2>1, <2>2, <2>3, <2>4, <2>5 DEF Finish
<1>5. ASSUME NEW c \in Cmd, Start(c) PROVE TypeOK'
  BY <1>5 DEF Start, Step, Goto, TypeOK, PC, Layout, files, Present
<1>6. ASSUME NEW c \in Cmd, GiveUp(c) PROVE TypeOK'
  BY <1>6, ForgetTyped DEF GiveUp, Step, TypeOK, files, Present
<1>7. ASSUME NEW c \in Cmd, Unlock(c) PROVE TypeOK'
  BY <1>7, ForgetTyped, LayoutTyped, StraysTyped DEF Unlock, Leave, TypeOK, files, Present
<1>8. ASSUME NEW c \in Cmd, Stop(c) PROVE TypeOK'
  <2>1. mishaps' \in 0 .. MaxMishaps
    BY <1>8 DEF Stop, TypeOK
  <2>2. half' \in Layout \cup {"none"}
    BY <1>8, LayoutTyped DEF Stop, TypeOK
  <2> QED
    BY <1>8, <2>1, <2>2, ForgetTyped, LayoutTyped, StraysTyped DEF Stop, Leave, TypeOK, files, Present
<1>9. CASE GitCommit
  BY <1>9 DEF GitCommit, TypeOK, mem, Present
<1>10. CASE GitCheckout
  <2>1. PICK p \in Path, d \in Data : /\ file' = [file EXCEPT !["project"][p] = d]
                                     /\ clean' = clean \cup {p}
    BY <1>10 DEF GitCheckout
  <2>2. file' \in [Layout -> [Path -> Data \cup {None}]]
    BY <2>1 DEF TypeOK
  <2>3. /\ \A q \in Path \ {p} : file'["project"][q] = file["project"][q]
        /\ file'["project"][p] = d
    BY <2>1 DEF TypeOK, Layout
  <2>4. clean' \in SUBSET Present("project")'
    BY <2>1, <2>3 DEF TypeOK, Present
  <2>5. mishaps' \in 0 .. MaxMishaps
    BY <1>10 DEF GitCheckout, TypeOK
  <2> QED
    BY <1>10, <2>2, <2>4, <2>5 DEF GitCheckout, TypeOK, mem
<1>11. CASE GitRemove
  <2>1. PICK p \in Present("project") : /\ file' = [file EXCEPT !["project"][p] = None]
                                       /\ clean' = clean \ {p}
    BY <1>11 DEF GitRemove
  <2>2. file' \in [Layout -> [Path -> Data \cup {None}]]
    BY <2>1 DEF TypeOK, Present
  <2>3. \A q \in Path \ {p} : file'["project"][q] = file["project"][q]
    BY <2>1 DEF TypeOK, Layout, Present
  <2>4. clean' \in SUBSET Present("project")'
    BY <2>1, <2>3 DEF TypeOK, Present
  <2>5. mishaps' \in 0 .. MaxMishaps
    BY <1>11 DEF GitRemove, TypeOK
  <2> QED
    BY <1>11, <2>2, <2>4, <2>5 DEF GitRemove, TypeOK, mem
<1>12. CASE UNCHANGED vars
  BY <1>12 DEF vars, files, mem, TypeOK, Present
<1> QED
  BY <1>1, <1>2, <1>3, <1>4, <1>5, <1>6, <1>7, <1>8, <1>9, <1>10, <1>11, <1>12 DEF Next
THEOREM TypeCorrect == Spec => []TypeOK
<1>1. Init => TypeOK
  BY ConstantsAssumption DEF Init, TypeOK, PC, Layout, Present, Path
<1> QED
  BY <1>1, TypeStep, PTL DEF Spec

------------------------------------------------------------------------------
(***************************************************************************)
(* One at a time. There are two record locks; they exclude each other as   *)
(* long as a command in its section has the lock of the layout that the    *)
(* configuration names, since only a command in its section changes that.  *)
(***************************************************************************)

\* A command in its section, or about to leave it, has its lock.
OwnersHoldLocks ==
  \A c \in Cmd : pc[c] \in InLock \cup {"unlock"} => lock[Lay(c)] = c

\* The commands in their sections went astray together.
StrayTogether == \A c, d \in Inside : c \in astray => d \in astray

\* One that did not works in the layout that the configuration names.
OthersAreCurrent == \A c \in Inside : c \notin astray => Lay(c) = Location(config)

\* Two commands in their sections have crossed.
TogetherIsCrossed == \A c, d \in Inside : c # d => c \in crossed

\* Only who has a lock has crossed another or gone astray.
StraysHaveLocks == \A c \in crossed \cup astray : pc[c] \in InLock \cup {"unlock"}

LockInv ==
  OwnersHoldLocks /\ StrayTogether /\ OthersAreCurrent /\ TogetherIsCrossed /\ StraysHaveLocks

\* A command that is alone removes a record only when it has arrived.
RemovedHasArrived ==
  \A c \in Cmd : Alone(c) /\ pc[c] = "remove" => \A p \in cur[c] : file[to[c]][p] # None

IInv == TypeOK /\ LockInv /\ RemovedHasArrived

LEMMA AloneUnlessAstray == IInv => OneAtATime
BY DEF IInv, LockInv, OwnersHoldLocks, OthersAreCurrent, OneAtATime, Inside

LEMMA AloneInSection ==
  ASSUME IInv, NEW c \in Cmd, Alone(c), NEW d \in Cmd \ {c}
  PROVE  pc[d] \notin InLock
BY DEF IInv, LockInv, TogetherIsCrossed, Alone, Inside

\* The steps that leave the locks and the configuration alone: a command in its
\* section stays in it, or is about to leave it.
StaysInside(c) ==
  /\ pc[c] \in InLock
  /\ \E there \in InLock \cup {"unlock"} : Goto(c, there)
  /\ UNCHANGED <<config, lock, conf, crossed, astray>>

LEMMA InsideSteps ==
  ASSUME TypeOK, NEW c \in Cmd,
         \/ Create(c) \/ Change(c) \/ Idle(c)
         \/ Scan(c) \/ Tidy(c) \/ Refuse(c) \/ Admit(c)
         \/ List(c) \/ ReadRecord(c) \/ WriteRecord(c) \/ RemoveRecord(c) \/ Moved(c)
         \/ WriteMarks(c) \/ CleanSource(c) \/ WriteIndexes(c) \/ WriteIgnore(c)
  PROVE  StaysInside(c)
<1> USE DEF StaysInside, Step, InLock, Moving, After, files, mem, strays
<1>1. CASE Create(c)
  BY <1>1 DEF Create, Save
<1>2. CASE Change(c)
  BY <1>2 DEF Change, Save
<1>3. CASE Idle(c) \/ Scan(c) \/ Tidy(c) \/ Refuse(c) \/ Admit(c)
  BY <1>3 DEF Idle, Scan, Tidy, Refuse, Admit
<1>4. CASE List(c) \/ WriteRecord(c) \/ RemoveRecord(c) \/ Moved(c)
  BY <1>4 DEF List, WriteRecord, RemoveRecord, Moved
<1>5. CASE ReadRecord(c)
  BY <1>5 DEF ReadRecord
<1>6. CASE WriteMarks(c) \/ CleanSource(c) \/ WriteIndexes(c) \/ WriteIgnore(c)
  BY <1>6 DEF WriteMarks, CleanSource, WriteIndexes, WriteIgnore
<1> QED
  BY <1>1, <1>2, <1>3, <1>4, <1>5, <1>6

\* The locks and the layouts, step by step.
LEMMA LockStep ==
  ASSUME IInv, [Next]_vars
  PROVE  LockInv'
<1> TypeOK /\ LockInv
  BY DEF IInv
<1> USE ConstantsAssumption
<1>1. ASSUME NEW c \in Cmd, StaysInside(c) PROVE LockInv'
  <2>1. /\ pc[c] \in InLock /\ pc'[c] \in InLock \cup {"unlock"}
        /\ \A d \in Cmd \ {c} : pc'[d] = pc[d]
    BY <1>1 DEF StaysInside, Goto, TypeOK
  <2>2. Inside' \subseteq Inside /\ c \in Inside
    BY <2>1 DEF Inside
  <2>3. OwnersHoldLocks'
    BY <1>1, <2>1 DEF LockInv, OwnersHoldLocks, StaysInside, Lay
  <2>4. StrayTogether' /\ OthersAreCurrent' /\ TogetherIsCrossed'
    BY <1>1, <2>2 DEF LockInv, StrayTogether, OthersAreCurrent, TogetherIsCrossed, StaysInside, Lay
  <2>5. StraysHaveLocks'
    BY <1>1, <2>1 DEF LockInv, StraysHaveLocks, StaysInside, TypeOK
  <2> QED
    BY <2>3, <2>4, <2>5 DEF LockInv
<1>2. ASSUME UNCHANGED <<config, lock, pc, conf, crossed, astray>> PROVE LockInv'
  BY <1>2 DEF LockInv, OwnersHoldLocks, StrayTogether, OthersAreCurrent, TogetherIsCrossed,
     StraysHaveLocks, Inside, Lay
<1>3. ASSUME NEW c \in Cmd, LockForTask(c) \/ LockForMigrate(c)
      PROVE  LockInv'
  <2>1. PICK there \in {"work", "scan"} : Lock(c, there)
    BY <1>3 DEF LockForTask, LockForMigrate
  <2>2. /\ pc[c] = "wait" /\ pc'[c] \in InLock
        /\ \A d \in Cmd \ {c} : pc'[d] = pc[d]
        /\ UNCHANGED <<config, conf>>
    BY <2>1 DEF Lock, Step, Goto, TypeOK, InLock, files
  <2>3. Inside' = Inside \cup {c} /\ c \notin Inside
    BY <2>2 DEF Inside, InLock, Moving, After
  <2>4. c \notin crossed /\ c \notin astray
    BY <2>2 DEF LockInv, StraysHaveLocks, InLock, Moving, After
  <2>5. OwnersHoldLocks'
    <3>1. lock[Lay(c)] = Nobody /\ lock' = [lock EXCEPT ![Lay(c)] = c]
      BY <2>1 DEF Lock
    <3> QED
      BY <2>2, <3>1, LayoutTyped DEF LockInv, OwnersHoldLocks, TypeOK, Lay
  <2>6. TogetherIsCrossed'
    <3>1. crossed' = crossed \cup (IF Inside = {} THEN {} ELSE Inside \cup {c})
      BY <2>1 DEF Lock
    <3> QED
      BY <2>3, <3>1 DEF LockInv, TogetherIsCrossed
  <2>7. StrayTogether' /\ OthersAreCurrent'
    <3>1. astray' = astray \cup (IF Lay(c) # Location(config) \/ astray \cap Inside # {}
                                 THEN Inside \cup {c} ELSE {})
      BY <2>1 DEF Lock
    <3>2. \A d \in Cmd : Lay(d)' = Lay(d) /\ Location(config)' = Location(config)
      BY <2>2 DEF Lay
    <3>3. CASE Lay(c) # Location(config) \/ astray \cap Inside # {}
      BY <2>3, <3>1, <3>3 DEF StrayTogether, OthersAreCurrent
    <3>4. CASE Lay(c) = Location(config) /\ astray \cap Inside = {}
      <4>1. \A d \in Inside' : d \notin astray'
        BY <2>3, <2>4, <3>1, <3>4
      <4>2. \A d \in Inside' : d \in Cmd /\ Lay(d) = Location(config)
        BY <2>3, <3>4 DEF LockInv, OthersAreCurrent, Inside
      <4> QED
        BY <3>2, <4>1, <4>2 DEF StrayTogether, OthersAreCurrent
    <3> QED
      BY <3>3, <3>4
  <2>8. StraysHaveLocks'
    <3>1. crossed' \cup astray' \subseteq crossed \cup astray \cup Inside \cup {c}
      BY <2>1 DEF Lock
    <3> QED
      BY <2>2, <3>1 DEF LockInv, StraysHaveLocks, Inside, TypeOK
  <2> QED
    BY <2>5, <2>6, <2>7, <2>8 DEF LockInv
<1>4. ASSUME NEW c \in Cmd, WriteConfig(c) PROVE LockInv'
  <2>1. /\ pc[c] = "commit" /\ pc'[c] = "unlock"
        /\ \A d \in Cmd \ {c} : pc'[d] = pc[d]
        /\ UNCHANGED <<lock, conf, crossed, astray>>
    BY <1>4 DEF WriteConfig, Step, Goto, TypeOK, mem, strays
  <2>2. Inside' = Inside \ {c} /\ c \in Inside
    BY <2>1 DEF Inside, InLock, Moving, After
  <2>3. OwnersHoldLocks' /\ StraysHaveLocks'
    BY <2>1 DEF LockInv, OwnersHoldLocks, StraysHaveLocks, InLock, After, Lay, TypeOK
  <2>4. StrayTogether' /\ TogetherIsCrossed'
    BY <2>1, <2>2 DEF LockInv, StrayTogether, TogetherIsCrossed
  <2>5. OthersAreCurrent'
    <3>1. CASE c \in astray
      BY <2>1, <2>2, <3>1 DEF LockInv, StrayTogether, OthersAreCurrent
    <3>2. CASE c \notin astray
      <4>1. astray \cap Inside = {}
        BY <2>2, <3>2 DEF LockInv, StrayTogether
      <4>2. Inside' = {}
        BY <2>2, <4>1, AloneUnlessAstray DEF OneAtATime
      <4> QED
        BY <4>2 DEF OthersAreCurrent
    <3> QED
      BY <3>1, <3>2
  <2> QED
    BY <2>3, <2>4, <2>5 DEF LockInv
<1>5. ASSUME NEW c \in Cmd, Start(c) \/ GiveUp(c) PROVE LockInv'
  <2>1. /\ pc[c] \in {"idle", "wait"} /\ pc'[c] \in {"idle", "wait"}
        /\ \A d \in Cmd \ {c} : pc'[d] = pc[d] /\ Lay(d)' = Lay(d)
        /\ UNCHANGED <<config, lock, crossed, astray>>
    BY <1>5 DEF Start, GiveUp, Forget, Step, Goto, TypeOK, Lay, files, strays
  <2>2. Inside' = Inside /\ c \notin Inside
    BY <2>1 DEF Inside, InLock, Moving, After
  <2>3. c \notin crossed \cup astray
    BY <2>1 DEF LockInv, StraysHaveLocks, InLock, Moving, After
  <2>4. OwnersHoldLocks' /\ StraysHaveLocks'
    BY <2>1, <2>3 DEF LockInv, OwnersHoldLocks, StraysHaveLocks, InLock, Moving, After, TypeOK
  <2>5. StrayTogether' /\ TogetherIsCrossed' /\ OthersAreCurrent'
    BY <2>1, <2>2 DEF LockInv, StrayTogether, TogetherIsCrossed, OthersAreCurrent, Inside
  <2> QED
    BY <2>4, <2>5 DEF LockInv
<1>6. ASSUME NEW c \in Cmd, Unlock(c) \/ Stop(c) PROVE LockInv'
  <2>1. /\ pc[c] \in InLock \cup {"unlock"} /\ Leave(c) /\ UNCHANGED config
    BY <1>6 DEF Unlock, Stop, files
  <2>2. /\ pc'[c] = "idle"
        /\ \A d \in Cmd \ {c} : pc'[d] = pc[d] /\ Lay(d)' = Lay(d)
        /\ crossed' = crossed \ {c} /\ astray' = astray \ {c}
        /\ lock' = [lock EXCEPT ![Lay(c)] = Nobody]
    BY <2>1 DEF Leave, Forget, Goto, TypeOK, Lay
  <2>3. Inside' = Inside \ {c}
    BY <2>2 DEF Inside, InLock, Moving, After
  <2>4. OwnersHoldLocks'
    <3>1. ASSUME NEW d \in Cmd, pc'[d] \in InLock \cup {"unlock"} PROVE lock'[Lay(d)'] = d
      <4>1. d # c /\ lock[Lay(d)] = d /\ lock[Lay(c)] = c /\ Lay(d)' = Lay(d)
        BY <2>1, <2>2, <3>1 DEF LockInv, OwnersHoldLocks, InLock, Moving, After
      <4> QED
        BY <2>2, <4>1, LayoutTyped DEF TypeOK
    <3> QED
      BY <3>1 DEF OwnersHoldLocks
  <2>5. StrayTogether' /\ TogetherIsCrossed' /\ OthersAreCurrent' /\ StraysHaveLocks'
    BY <2>1, <2>2, <2>3 DEF LockInv, StrayTogether, TogetherIsCrossed, OthersAreCurrent,
       StraysHaveLocks, Inside, TypeOK
  <2> QED
    BY <2>4, <2>5 DEF LockInv
<1>7. CASE \/ GitCommit \/ GitCheckout \/ GitRemove \/ UNCHANGED vars
          \/ \E c \in Cmd : SkipRecord(c)
  BY <1>2, <1>7 DEF GitCommit, GitCheckout, GitRemove, SkipRecord, vars, files, mem, strays
<1> QED
  BY <1>1, <1>3, <1>4, <1>5, <1>6, <1>7, InsideSteps
  DEF Next, TaskCommand, Prepare, Transfer, Finish

------------------------------------------------------------------------------
(* Records *)

\* The step of one command.
Acts(c) ==
  \/ TaskCommand(c) \/ Prepare(c) \/ Transfer(c) \/ Finish(c)
  \/ Start(c) \/ GiveUp(c) \/ Unlock(c) \/ Stop(c)

\* A write of a record, by a task command or by a migration, keeps its task.
LEMMA SaveKeepsTasks ==
  ASSUME TypeOK, NEW c \in Cmd, NEW l \in Layout, NEW p \in Path, NEW d \in Data,
         NEW gone \in SUBSET {q \in Path : q[2] = p[2]}, Save(c, l, p, gone, d)
  PROVE  \A m \in Layout : IDs(m) \subseteq IDs(m)'
<1>1. SUFFICES ASSUME NEW m \in Layout, NEW t \in Task, NEW b \in Bucket,
                      file[m][<<b, t>>] # None, <<b, t>> \in Path
               PROVE  \E e \in Bucket : <<e, t>> \in Path /\ file'[m][<<e, t>>] # None
  BY DEF IDs, Present
<1>2. PICK e \in Bucket, u \in Task : p = <<e, u>>
  BY DEF Path
<1>3. file' = [file EXCEPT ![l] = [q \in Path |-> IF q = p THEN d
                                                 ELSE IF q \in gone THEN None
                                                 ELSE file[l][q]]]
  BY DEF Save
<1>4. CASE m # l
  BY <1>1, <1>3, <1>4 DEF TypeOK
<1>5. CASE m = l /\ (<<b, t>> = p \/ <<b, t>> \in gone)
  <2>1. t = u
    BY <1>2, <1>5
  <2>2. file'[m][p] = d
    BY <1>3, <1>5 DEF TypeOK
  <2> QED
    BY <1>2, <2>1, <2>2, ConstantsAssumption
<1>6. CASE m = l /\ <<b, t>> # p /\ <<b, t>> \notin gone
  <2>1. file'[m][<<b, t>>] = file[m][<<b, t>>]
    BY <1>1, <1>3, <1>6 DEF TypeOK
  <2> QED
    BY <1>1, <2>1
<1> QED
  BY <1>4, <1>5, <1>6

\* No step of a command that is alone takes the last record of a task. The removal
\* is the one that could: the record has arrived.
LEMMA NoStepLosesATask ==
  ASSUME IInv, NEW c \in Cmd, Alone(c), Acts(c)
  PROVE  IDs("project") \cup IDs("home") \subseteq (IDs("project") \cup IDs("home"))'
<1> DEFINE Kept == IDs("project") \cup IDs("home") \subseteq (IDs("project") \cup IDs("home"))'
<1> USE DEF IInv
<1>1. ASSUME Create(c) PROVE Kept
  <2>1. PICK t \in Task, d \in Data : Save(c, Lay(c), <<"active", t>>, {}, d)
    BY <1>1 DEF Create
  <2>2. <<"active", t>> \in Path
    BY ConstantsAssumption DEF Path
  <2> QED
    BY <2>1, <2>2, SaveKeepsTasks, LayoutTyped DEF Layout
<1>2. ASSUME Change(c) PROVE Kept
  <2>1. PICK p \in Path, q \in Path, d \in Data :
          p[2] = q[2] /\ Save(c, Lay(c), q, {p} \ {q}, d)
    BY <1>2 DEF Change
  <2>2. {p} \ {q} \in SUBSET {r \in Path : r[2] = q[2]}
    BY <2>1
  <2> QED
    BY <2>1, <2>2, SaveKeepsTasks, LayoutTyped DEF Layout
<1>3. ASSUME WriteRecord(c) PROVE Kept
  <2>1. PICK p \in Path : cur[c] = {p} /\ file' = [file EXCEPT ![to[c]][p] = data[c]]
    <3>1. PICK p \in Path : cur[c] = {p}
      BY <1>3 DEF WriteRecord, Step, TypeOK
    <3> QED
      BY <1>3, <3>1 DEF WriteRecord
  <2>2. data[c] # None
    BY <1>3 DEF WriteRecord, Step, TypeOK
  <2>3. \A l \in Layout, q \in Path : file[l][q] # None => file'[l][q] # None
    BY <2>1, <2>2 DEF TypeOK
  <2> QED
    BY <2>3 DEF IDs, Present, Layout
<1>4. ASSUME RemoveRecord(c) PROVE Kept
  <2>1. PICK p \in Path : cur[c] = {p} /\ file' = [file EXCEPT ![From(c)][p] = None]
    <3>1. PICK p \in Path : cur[c] = {p}
      BY <1>4 DEF RemoveRecord, Step, TypeOK
    <3> QED
      BY <1>4, <3>1 DEF RemoveRecord
  <2>2. file[to[c]][p] # None
    BY <1>4, <2>1 DEF RemoveRecord, Step, RemovedHasArrived
  <2>3. file' = [file EXCEPT ![From(c)] = [@ EXCEPT ![p] = None]]
    BY <2>1
  <2>4. \A l \in Layout, q \in Path :
          file[l][q] # None => \E m \in Layout : file'[m][q] # None
    <3>1. \A l \in Layout, q \in Path : l # From(c) \/ q # p => file'[l][q] = file[l][q]
      BY <2>1, LayoutTyped DEF TypeOK
    <3> QED
      BY <2>2, <3>1, LayoutTyped
  <2> QED
    BY <2>4 DEF IDs, Present, Layout
<1>5. CASE file' = file
  BY <1>5 DEF IDs, Present
<1>6. ASSUME \/ LockForTask(c) \/ Idle(c) \/ Prepare(c) \/ Finish(c)
             \/ List(c) \/ ReadRecord(c) \/ SkipRecord(c) \/ Moved(c)
             \/ Start(c) \/ GiveUp(c) \/ Unlock(c) \/ Stop(c)
      PROVE  file' = file
  BY <1>6 DEF LockForTask, LockForMigrate, Lock, Idle, Prepare, Finish, Scan, Tidy, Refuse,
     Admit, List, ReadRecord, SkipRecord, Moved, WriteMarks, CleanSource, WriteIndexes,
     WriteIgnore, WriteConfig, Start, GiveUp, Unlock, Stop, files
<1> HIDE DEF IInv
<1>7. Kept
  BY <1>1, <1>2, <1>3, <1>4, <1>5, <1>6 DEF Acts, TaskCommand, Transfer
<1> QED
  BY <1>7

LEMMA StepsInSection ==
  ASSUME NEW c \in Cmd, Acts(c), pc[c] \notin InLock
  PROVE  Start(c) \/ GiveUp(c) \/ Unlock(c) \/ LockForTask(c) \/ LockForMigrate(c)
BY DEF Acts, TaskCommand, Prepare, Transfer, Finish, Stop, Create, Change, Save, Idle, Scan,
   Tidy, Refuse, Admit, List, ReadRecord, SkipRecord, WriteRecord, RemoveRecord, Moved,
   WriteMarks, CleanSource, WriteIndexes, WriteIgnore, WriteConfig, Step, InLock, Moving, After

\* A command only moves itself; it leaves a removal by removing or by stopping, and
\* comes to one from a read or a write.
LEMMA OthersStay ==
  ASSUME TypeOK, NEW c \in Cmd, NEW d \in Cmd, Acts(d), pc'[c] # pc[c]
  PROVE  d = c
BY DEF Acts, TaskCommand, Prepare, Transfer, Finish, Start, GiveUp, Unlock, Stop, LockForTask,
   LockForMigrate, Lock, Create, Change, Save, Idle, Scan, Tidy, Refuse, Admit, List, ReadRecord,
   SkipRecord, WriteRecord, RemoveRecord, Moved, WriteMarks, CleanSource, WriteIndexes,
   WriteIgnore, WriteConfig, Leave, Step, Goto, TypeOK, files, mem, InLock, Moving, After

LEMMA OutOfRemove ==
  ASSUME TypeOK, NEW c \in Cmd, Acts(c), pc[c] = "remove"
  PROVE  pc'[c] # "remove"
BY DEF Acts, TaskCommand, Prepare, Transfer, Finish, Start, GiveUp, Unlock, Stop, LockForTask,
   LockForMigrate, Lock, Create, Change, Save, Idle, Scan, Tidy, Refuse, Admit, List, ReadRecord,
   SkipRecord, WriteRecord, RemoveRecord, Moved, WriteMarks, CleanSource, WriteIndexes,
   WriteIgnore, WriteConfig, Leave, Step, Goto, TypeOK, files, mem, InLock, Moving, After

LEMMA IntoRemove ==
  ASSUME TypeOK, NEW c \in Cmd, Acts(c), pc[c] # "remove", pc'[c] = "remove"
  PROVE  WriteRecord(c) \/ ReadRecord(c)
BY DEF Acts, TaskCommand, Prepare, Transfer, Finish, Start, GiveUp, Unlock, Stop, LockForTask,
   LockForMigrate, Lock, Create, Change, Save, Idle, Scan, Tidy, Refuse, Admit, List, ReadRecord,
   SkipRecord, WriteRecord, RemoveRecord, Moved, WriteMarks, CleanSource, WriteIndexes,
   WriteIgnore, WriteConfig, Leave, Step, Goto, TypeOK, files, mem, InLock, Moving, After

\* A command that is alone was alone before.
LEMMA AloneBefore ==
  ASSUME TypeOK, [Next]_vars, NEW c \in Cmd, pc[c] \in InLock, Alone(c)'
  PROVE  Alone(c)
<1>1. ASSUME NEW d \in Cmd, Leave(d) PROVE c # d /\ crossed' = crossed \ {d}
  BY <1>1 DEF Leave, Goto, Alone, TypeOK, InLock, Moving, After
<1>2. crossed \subseteq crossed' \/ \E d \in Cmd : Leave(d)
  <2>1. ASSUME NEW d \in Cmd, Acts(d), ~Leave(d) PROVE crossed \subseteq crossed'
    BY <2>1 DEF Acts, TaskCommand, Prepare, Transfer, Finish, Start, GiveUp, Unlock, Stop,
       LockForTask, LockForMigrate, Lock, Create, Change, Idle, Scan, Tidy, Refuse, Admit,
       List, ReadRecord, SkipRecord, WriteRecord, RemoveRecord, Moved, WriteMarks, CleanSource,
       WriteIndexes, WriteIgnore, WriteConfig, strays
  <2>2. CASE GitCommit \/ GitCheckout \/ GitRemove \/ UNCHANGED vars
    BY <2>2 DEF GitCommit, GitCheckout, GitRemove, vars, strays
  <2> QED
    BY <2>1, <2>2 DEF Next, Acts
<1> QED
  BY <1>1, <1>2 DEF Alone

\* While a record is being removed nobody else writes, so it stays where it arrived.
LEMMA ArrivedStep ==
  ASSUME IInv, [Next]_vars
  PROVE  RemovedHasArrived'
<1> USE DEF IInv
<1>1. SUFFICES ASSUME NEW c \in Cmd, Alone(c)', pc'[c] = "remove", NEW p \in cur'[c]
               PROVE  file'[to'[c]][p] # None
  BY DEF RemovedHasArrived
<1>2. CASE pc[c] = "remove"
  <2> pc[c] \in InLock /\ Alone(c)
    BY <1>1, <1>2, AloneBefore DEF InLock, Moving
  <2>1. \A d \in Cmd : d # c => pc[d] \notin InLock
    BY AloneInSection
  <2>2. ASSUME NEW d \in Cmd, Acts(d)
        PROVE  file'[to'[c]][p] # None
    <3>1. d # c
      BY <1>1, <1>2, <2>2, OutOfRemove
    <3>2. pc[d] \notin InLock
      BY <2>1, <3>1
    <3>3. Start(d) \/ GiveUp(d) \/ Unlock(d) \/ LockForTask(d) \/ LockForMigrate(d)
      BY <2>2, <3>2, StepsInSection DEF Acts
    <3>4. file' = file /\ to'[c] = to[c] /\ cur'[c] = cur[c]
      BY <3>1, <3>3 DEF Start, GiveUp, Unlock, Leave, LockForTask, LockForMigrate, Lock, Forget,
         files, TypeOK
    <3> QED
      BY <1>1, <1>2, <3>4 DEF RemovedHasArrived
  <2>3. CASE GitCommit \/ UNCHANGED vars
    BY <1>1, <1>2, <2>3 DEF GitCommit, vars, files, mem, RemovedHasArrived
  <2>4. CASE GitCheckout \/ GitRemove
    BY <1>2, <2>4 DEF GitCheckout, GitRemove, Inside
  <2> QED
    BY <2>2, <2>3, <2>4 DEF Next, Acts
<1>3. CASE pc[c] # "remove"
  <2>1. CASE WriteRecord(c)
    <3>1. PICK q \in Path : cur[c] = {q}
      BY <2>1 DEF WriteRecord, Step, TypeOK
    <3>2. file' = [file EXCEPT ![to[c]][q] = data[c]] /\ to' = to /\ cur' = cur
      BY <2>1, <3>1 DEF WriteRecord, mem
    <3>3. p = q /\ data[c] # None
      BY <1>1, <2>1, <3>1, <3>2 DEF WriteRecord, Step, TypeOK
    <3>4. file'[to[c]][q] = data[c]
      BY <3>2 DEF TypeOK
    <3> QED
      BY <3>2, <3>3, <3>4
  <2>2. CASE ReadRecord(c)
    <3>1. PICK q \in left[c] \cap Present(From(c)) :
            /\ Goto(c, IF file[to[c]][q] = file[From(c)][q] THEN "remove" ELSE "write")
            /\ cur' = [cur EXCEPT ![c] = {q}]
      BY <2>2 DEF ReadRecord
    <3>2. p = q /\ file[to[c]][q] = file[From(c)][q]
      BY <1>1, <3>1 DEF Goto, TypeOK
    <3> QED
      BY <2>2, <3>1, <3>2 DEF ReadRecord, Present, files
  <2>3. WriteRecord(c) \/ ReadRecord(c)
    <3>1. PICK d \in Cmd : Acts(d)
      BY <1>1, <1>3 DEF Next, Acts, GitCommit, GitCheckout, GitRemove, vars
    <3>2. d = c
      BY <1>1, <1>3, <3>1, OthersStay
    <3> QED
      BY <1>1, <1>3, <3>1, <3>2, IntoRemove
  <2> QED
    BY <2>1, <2>2, <2>3
<1> QED
  BY <1>2, <1>3

THEOREM Inductive == Spec => []IInv
<1>1. Init => IInv
  <2>1. Init => TypeOK
    BY ConstantsAssumption DEF Init, TypeOK, PC, Layout, Present, Path
  <2> QED
    BY <2>1 DEF Init, IInv, LockInv, OwnersHoldLocks, StrayTogether, OthersAreCurrent,
       TogetherIsCrossed, StraysHaveLocks, RemovedHasArrived, Inside, InLock, Moving, After
<1>2. IInv /\ [Next]_vars => IInv'
  BY TypeStep, LockStep, ArrivedStep DEF IInv
<1> QED
  BY <1>1, <1>2, PTL DEF Spec

\* Two commands are in their sections only after one of them, or one that was there
\* with them, got the lock of a layout that was not the configured one.
THEOREM OneCommandAtATime == Spec => []OneAtATime
BY AloneUnlessAstray, Inductive, PTL

\* No command that is alone in its section takes the last record of a task, wherever
\* it and others stopped, and whatever others did to each other before.
THEOREM NoTaskIsLost == Spec => RecordsSurvive
<1>1. ASSUME IInv, [Next]_vars, NEW c \in Cmd, Alone(c), pc'[c] # pc[c]
      PROVE  IDs("project") \cup IDs("home") \subseteq (IDs("project") \cup IDs("home"))'
  <2>1. PICK d \in Cmd : Acts(d)
    BY <1>1 DEF Next, Acts, GitCommit, GitCheckout, GitRemove, vars
  <2>2. d = c
    BY <1>1, <2>1, OthersStay DEF IInv
  <2> QED
    BY <1>1, <2>1, <2>2, NoStepLosesATask
<1>2. IInv /\ [Next]_vars
        => [\A c \in Cmd : Alone(c) /\ pc'[c] # pc[c] =>
              IDs("project") \cup IDs("home")
                \subseteq (IDs("project") \cup IDs("home"))']_vars
  BY <1>1
<1> QED
  BY Inductive, <1>2, PTL DEF Spec, RecordsSurvive

------------------------------------------------------------------------------
(***************************************************************************)
(* What a migration that is alone found and did stands until it ends: Git  *)
(* changes records only while it is between two of them.                   *)
(***************************************************************************)

\* A record that both layouts have at one path is the same record.
Agree == \A p \in Path : \/ file["project"][p] = None
                         \/ file["home"][p] = None
                         \/ file["project"][p] = file["home"][p]

\* All that a migration to l would take away is committed.
Committed(l) == Git /\ l = "home" => Present("project") \subseteq clean

\* The records found by the scan are those of the source; later, those still to be
\* moved are among those left.
ScanStands(c) ==
  /\ pc[c] = "check" => left[c] = Present(From(c))
  /\ pc[c] \in {"move", "write", "remove"} => Present(From(c)) \subseteq left[c]

\* What has been read is what is there, and is removed where it has arrived.
CopyStands(c) ==
  \A p \in cur[c] :
    /\ pc[c] \in {"write", "remove"} => file[From(c)][p] = data[c]
    /\ pc[c] = "remove" => file[to[c]][p] = data[c]

\* What let a migration without --force in is true to its end.
AdmissionStands(c) ==
  Migrates(c) /\ ~force[c] => Agree /\ Committed(to[c])

\* Every step after the moves stands until the commit.
FinishStands(c) ==
  /\ pc[c] \in After => Present(From(c)) = {}
  /\ pc[c] \in After \ {"marks"} /\ to[c] = "home" =>
       IDs("home") \subseteq marks /\ list[c] = Present("home")
  /\ pc[c] \in After \ {"marks", "clean"} => index[From(c)] = {}
  /\ pc[c] \in {"ignore", "commit"} => index[to[c]] = {Present(to[c])}
  /\ pc[c] = "commit" => ignore = to[c]

\* A migration that stopped half-way left nothing that would be refused.
HalfStands ==
  half # "none" => Agree /\ ~Twins /\ Committed(half) /\ \A c \in Cmd : ~Migrates(c)

Stands(c) == ScanStands(c) /\ CopyStands(c) /\ AdmissionStands(c) /\ FinishStands(c)

MoveInv ==
  /\ HalfStands
  /\ \A c \in Cmd : Alone(c) => Stands(c)

\* A step that leaves c and the files alone.
Apart(c) ==
  /\ UNCHANGED <<file, clean, marks, index, ignore, half>>
  /\ pc'[c] = pc[c] /\ to'[c] = to[c] /\ force'[c] = force[c] /\ left'[c] = left[c]
  /\ cur'[c] = cur[c] /\ data'[c] = data[c] /\ list'[c] = list[c]

\* While a command is alone in its section, the steps are its own, those of commands that
\* do nothing to it, and those of Git.
LEMMA StepsBeside ==
  ASSUME IInv, [Next]_vars, NEW c \in Cmd, Alone(c)
  PROVE  Acts(c) \/ Apart(c) \/ GitCommit \/ (GitRemove /\ pc[c] = "move")
<1> USE DEF IInv
<1>1. ASSUME NEW d \in Cmd \ {c}, Acts(d)
      PROVE  Apart(c)
  <2>1. pc[d] \notin InLock
    BY AloneInSection
  <2>2. Start(d) \/ GiveUp(d) \/ Unlock(d) \/ LockForTask(d) \/ LockForMigrate(d)
    BY <1>1, <2>1, StepsInSection
  <2> QED
    BY <2>2 DEF Apart, Start, GiveUp, Unlock, Leave, LockForTask, LockForMigrate, Lock, Forget,
       Step, Goto, files, TypeOK
<1>2. CASE UNCHANGED vars
  BY <1>2 DEF Apart, vars, files, mem
<1>3. c \in Inside
  BY DEF Alone, Inside
<1>4. ~GitCheckout /\ (GitRemove => pc[c] = "move")
  BY <1>3 DEF GitCheckout, GitRemove
<1> QED
  BY <1>1, <1>2, <1>4 DEF Next, Acts

\* A command comes into its section to work or to scan.
LEMMA FirstSteps ==
  ASSUME TypeOK, [Next]_vars, NEW c \in Cmd, pc[c] \notin InLock
  PROVE  pc'[c] \notin InLock \ {"work", "scan"}
<1>1. CASE pc'[c] = pc[c]
  BY <1>1
<1>2. CASE pc'[c] # pc[c]
  <2>1. Acts(c)
    BY <1>2, OthersStay DEF Next, Acts, GitCommit, GitCheckout, GitRemove, vars
  <2> QED
    BY <2>1, StepsInSection DEF Start, GiveUp, Unlock, Leave, LockForTask, LockForMigrate,
       Lock, Step, Goto, TypeOK, InLock, Moving, After
<1> QED
  BY <1>1, <1>2

LEMMA FirstStands ==
  ASSUME TypeOK, [Next]_vars, NEW c \in Cmd, pc[c] \notin InLock
  PROVE  Stands(c)'
BY FirstSteps DEF Stands, ScanStands, CopyStands, AdmissionStands, FinishStands, Migrates,
   InLock, Moving, After

\* The one path a command is at.
LEMMA CurrentPath ==
  ASSUME TypeOK, NEW c \in Cmd, pc[c] \in {"write", "remove"}
  PROVE  \E p \in Path : cur[c] = {p} /\ data[c] # None
BY DEF TypeOK

\* Both layouts, one of them the source and one the destination.
LEMMA SourceAndDestination ==
  ASSUME TypeOK, NEW c \in Cmd
  PROVE  \/ to[c] = "home" /\ From(c) = "project"
         \/ to[c] = "project" /\ From(c) = "home"
BY DEF TypeOK, From, Layout

\* A record written where it was free or the same.
LEMMA WriteEffect ==
  ASSUME TypeOK, NEW c \in Cmd, WriteRecord(c), CopyStands(c)
  PROVE  \E p \in Path :
           /\ cur[c] = {p} /\ data[c] # None /\ file[From(c)][p] = data[c]
           /\ \A l \in Layout, q \in Path :
                file'[l][q] = IF l = to[c] /\ q = p THEN data[c] ELSE file[l][q]
<1>1. pc[c] = "write"
  BY DEF WriteRecord, Step
<1>2. PICK p \in Path : cur[c] = {p} /\ data[c] # None
  BY <1>1, CurrentPath
<1>3. file' = [file EXCEPT ![to[c]][p] = data[c]]
  BY <1>2 DEF WriteRecord
<1>4. file[From(c)][p] = data[c]
  BY <1>1, <1>2 DEF CopyStands
<1> QED
  BY <1>2, <1>3, <1>4 DEF TypeOK

\* A record removed where the other layout has the same.
LEMMA RemoveEffect ==
  ASSUME TypeOK, NEW c \in Cmd, RemoveRecord(c), CopyStands(c)
  PROVE  \E p \in Path :
           /\ cur[c] = {p} /\ file[From(c)][p] = data[c] /\ file[to[c]][p] = data[c]
           /\ \A l \in Layout, q \in Path :
                file'[l][q] = IF l = From(c) /\ q = p THEN None ELSE file[l][q]
<1>1. pc[c] = "remove"
  BY DEF RemoveRecord, Step
<1>2. PICK p \in Path : cur[c] = {p}
  BY <1>1, CurrentPath
<1>3. file' = [file EXCEPT ![From(c)][p] = None]
  BY <1>2 DEF RemoveRecord
<1>4. file[From(c)][p] = data[c] /\ file[to[c]][p] = data[c]
  BY <1>1, <1>2 DEF CopyStands
<1> QED
  BY <1>2, <1>3, <1>4, LayoutTyped DEF TypeOK

\* Git removes a record of the project.
LEMMA GitRemoveEffect ==
  ASSUME TypeOK, GitRemove
  PROVE  \E p \in Path :
           /\ clean' = clean \ {p}
           /\ \A l \in Layout, q \in Path :
                file'[l][q] = IF l = "project" /\ q = p THEN None ELSE file[l][q]
<1>1. PICK p \in Present("project") : /\ file' = [file EXCEPT !["project"][p] = None]
                                     /\ clean' = clean \ {p}
  BY DEF GitRemove
<1>2. p \in Path
  BY <1>1 DEF Present
<1> QED
  BY <1>1, <1>2 DEF TypeOK

------------------------------------------------------------------------------
\* The scan and what it left.
LEMMA ScanStandsStep ==
  ASSUME IInv, [Next]_vars, NEW c \in Cmd, Alone(c), ScanStands(c), CopyStands(c)
  PROVE  ScanStands(c)'
<1> USE DEF IInv
<1>1. pc[c] \in InLock
  BY DEF Alone
<1>2. CASE Apart(c)
  BY <1>2 DEF ScanStands, Apart, Present, From
<1>3. CASE GitCommit
  BY <1>3 DEF GitCommit, mem, ScanStands, Present, From
<1>4. CASE GitRemove /\ pc[c] = "move"
  <2>1. Present(From(c))' \subseteq Present(From(c))
    BY <1>4, GitRemoveEffect, LayoutTyped DEF Present, From, GitRemove, mem
  <2> QED
    BY <1>4, <2>1 DEF GitRemove, mem, ScanStands
<1>5. CASE Acts(c)
  <2>1. CASE Create(c) \/ Change(c) \/ Idle(c) \/ Tidy(c) \/ Refuse(c) \/ Admit(c) \/ Moved(c)
             \/ Finish(c) \/ Stop(c)
    <3>1. pc'[c] \notin {"check", "move", "write", "remove"}
      BY <2>1 DEF Create, Change, Save, Idle, Tidy, Refuse, Admit, Moved, Finish, WriteMarks,
         CleanSource, WriteIndexes, WriteIgnore, WriteConfig, Stop, Leave, Step, Goto, TypeOK
    <3> QED
      BY <3>1 DEF ScanStands
  <2>2. CASE Scan(c) \/ List(c)
    BY <2>2 DEF Scan, List, Step, Goto, TypeOK, ScanStands, Present, From, files
  <2>3. CASE ReadRecord(c)
    BY <2>3 DEF ReadRecord, Goto, TypeOK, ScanStands, Present, From, files
  <2>4. CASE SkipRecord(c)
    BY <2>4 DEF SkipRecord, TypeOK, ScanStands, Present, From, files
  <2>5. CASE WriteRecord(c)
    <3>1. Present(From(c))' = Present(From(c))
      BY <2>5, WriteEffect, LayoutTyped DEF WriteRecord, mem, Present, From
    <3> QED
      BY <2>5, <3>1 DEF WriteRecord, mem, Step, Goto, TypeOK, ScanStands
  <2>6. CASE RemoveRecord(c)
    <3>1. PICK p \in Path :
           /\ cur[c] = {p}
           /\ \A l \in Layout, q \in Path :
                file'[l][q] = IF l = From(c) /\ q = p THEN None ELSE file[l][q]
      BY <2>6, RemoveEffect
    <3>2. Present(From(c))' \subseteq Present(From(c)) \ {p}
      BY <2>6, <3>1, LayoutTyped DEF RemoveRecord, Present, From
    <3> QED
      BY <2>6, <3>1, <3>2 DEF RemoveRecord, Step, Goto, TypeOK, ScanStands
  <2>7. CASE Start(c) \/ GiveUp(c) \/ Unlock(c) \/ LockForTask(c) \/ LockForMigrate(c)
    BY <1>1, <2>7 DEF Start, GiveUp, Unlock, LockForTask, LockForMigrate, Lock, Step, InLock,
       Moving, After
  <2> QED
    BY <1>5, <2>1, <2>2, <2>3, <2>4, <2>5, <2>6, <2>7
       DEF Acts, TaskCommand, Prepare, Transfer
<1> QED
  BY <1>1, <1>2, <1>3, <1>4, <1>5, StepsBeside

\* What has been read, and where it has arrived.
LEMMA CopyStandsStep ==
  ASSUME IInv, [Next]_vars, NEW c \in Cmd, Alone(c), ScanStands(c), CopyStands(c)
  PROVE  CopyStands(c)'
<1> USE DEF IInv
<1>1. pc[c] \in InLock
  BY DEF Alone
<1>2. CASE Apart(c)
  BY <1>2 DEF CopyStands, Apart, From
<1>3. CASE GitCommit
  BY <1>3 DEF GitCommit, mem, CopyStands, From
<1>4. CASE GitRemove /\ pc[c] = "move"
  BY <1>4 DEF GitRemove, mem, CopyStands
<1>5. CASE Acts(c)
  <2>1. CASE ReadRecord(c)
    <3>1. PICK p \in left[c] \cap Present(From(c)) :
            /\ Goto(c, IF file[to[c]][p] = file[From(c)][p] THEN "remove" ELSE "write")
            /\ cur' = [cur EXCEPT ![c] = {p}]
            /\ data' = [data EXCEPT ![c] = file[From(c)][p]]
      BY <2>1 DEF ReadRecord
    <3>2. cur'[c] = {p} /\ data'[c] = file[From(c)][p]
      BY <3>1 DEF TypeOK
    <3>3. pc'[c] = "remove" => file[to[c]][p] = file[From(c)][p]
      BY <3>1 DEF Goto, TypeOK
    <3>4. From(c)' = From(c) /\ to'[c] = to[c] /\ file' = file
      BY <2>1 DEF ReadRecord, From, files
    <3> QED
      BY <3>2, <3>3, <3>4 DEF CopyStands
  <2>2. CASE WriteRecord(c)
    <3>1. PICK p \in Path :
           /\ cur[c] = {p} /\ file[From(c)][p] = data[c]
           /\ \A l \in Layout, q \in Path :
                file'[l][q] = IF l = to[c] /\ q = p THEN data[c] ELSE file[l][q]
      BY <2>2, WriteEffect
    <3>2. file'[to[c]][p] = data[c] /\ file'[From(c)][p] = data[c]
      BY <3>1, LayoutTyped
    <3>3. From(c)' = From(c) /\ to' = to /\ cur' = cur /\ data' = data
      BY <2>2 DEF WriteRecord, mem, From
    <3> QED
      BY <3>1, <3>2, <3>3 DEF CopyStands
  <2>3. CASE SkipRecord(c)
    BY <2>3 DEF SkipRecord, CopyStands
  <2>4. CASE \/ Create(c) \/ Change(c) \/ Idle(c) \/ Prepare(c) \/ List(c) \/ RemoveRecord(c)
             \/ Moved(c) \/ Finish(c) \/ Stop(c)
    <3>1. pc'[c] \notin {"write", "remove"}
      BY <2>4 DEF Create, Change, Save, Idle, Prepare, LockForMigrate, Lock, Scan, Tidy, Refuse,
         Admit, List, RemoveRecord, Moved, Finish, WriteMarks, CleanSource, WriteIndexes,
         WriteIgnore, WriteConfig, Stop, Leave, Step, Goto, TypeOK
    <3> QED
      BY <3>1 DEF CopyStands
  <2>5. CASE Start(c) \/ GiveUp(c) \/ Unlock(c) \/ LockForTask(c)
    BY <1>1, <2>5 DEF Start, GiveUp, Unlock, LockForTask, Lock, Step, InLock, Moving, After
  <2> QED
    BY <1>5, <2>1, <2>2, <2>3, <2>4, <2>5 DEF Acts, TaskCommand, Transfer
<1> QED
  BY <1>1, <1>2, <1>3, <1>4, <1>5, StepsBeside

\* Moving a record, and removing one, keeps records that agree in agreement.
LEMMA AgreeStays ==
  ASSUME IInv, Agree, NEW c \in Cmd, CopyStands(c),
         WriteRecord(c) \/ RemoveRecord(c) \/ GitRemove
  PROVE  Agree'
<1> USE DEF IInv
<1>1. CASE WriteRecord(c)
  <2>1. PICK p \in Path :
         /\ file[From(c)][p] = data[c]
         /\ \A l \in Layout, q \in Path :
              file'[l][q] = IF l = to[c] /\ q = p THEN data[c] ELSE file[l][q]
    BY <1>1, WriteEffect
  <2> QED
    BY <2>1, SourceAndDestination DEF Agree, Layout
<1>2. CASE RemoveRecord(c)
  <2>1. PICK p \in Path :
         \A l \in Layout, q \in Path :
           file'[l][q] = IF l = From(c) /\ q = p THEN None ELSE file[l][q]
    BY <1>2, RemoveEffect
  <2> QED
    BY <2>1 DEF Agree, Layout
<1>3. CASE GitRemove
  <2>1. PICK p \in Path :
         \A l \in Layout, q \in Path :
           file'[l][q] = IF l = "project" /\ q = p THEN None ELSE file[l][q]
    BY <1>3, GitRemoveEffect
  <2> QED
    BY <2>1 DEF Agree, Layout
<1> QED
  BY <1>1, <1>2, <1>3

\* The records of the project that are not committed become no more.
LEMMA CommittedStays ==
  ASSUME IInv, NEW c \in Cmd, CopyStands(c), NEW l \in Layout, Committed(l), l = to[c],
         WriteRecord(c) \/ RemoveRecord(c) \/ GitRemove
  PROVE  Committed(l)'
<1> USE DEF IInv
<1> SUFFICES ASSUME Git, to[c] = "home", From(c) = "project"
             PROVE  Present("project")' \subseteq clean'
  BY SourceAndDestination DEF Committed
<1>1. Present("project") \subseteq clean
  BY DEF Committed
<1>2. CASE WriteRecord(c)
  <2>1. \A q \in Path : file'["project"][q] = file["project"][q]
    BY <1>2, WriteEffect DEF Layout
  <2>2. clean' = clean
    BY <1>2, WriteEffect DEF WriteRecord, Touch
  <2> QED
    BY <1>1, <2>1, <2>2 DEF Present
<1>3. CASE RemoveRecord(c)
  <2>1. PICK p \in Path :
         /\ cur[c] = {p}
         /\ \A m \in Layout, q \in Path :
              file'[m][q] = IF m = From(c) /\ q = p THEN None ELSE file[m][q]
    BY <1>3, RemoveEffect
  <2>2. Present("project")' \subseteq Present("project") \ {p}
    BY <2>1 DEF Present, Layout
  <2>3. clean' = clean \ {p}
    BY <1>3, <2>1 DEF RemoveRecord
  <2> QED
    BY <1>1, <2>2, <2>3
<1>4. CASE GitRemove
  <2>1. PICK p \in Path :
         /\ clean' = clean \ {p}
         /\ \A m \in Layout, q \in Path :
              file'[m][q] = IF m = "project" /\ q = p THEN None ELSE file[m][q]
    BY <1>4, GitRemoveEffect
  <2>2. Present("project")' \subseteq Present("project") \ {p}
    BY <2>1 DEF Present, Layout
  <2> QED
    BY <1>1, <2>1, <2>2
<1> QED
  BY <1>2, <1>3, <1>4

\* A migration without --force is admitted when its records agree with those that
\* are there and are committed where Git has them.
LEMMA AdmittedAgree ==
  ASSUME IInv, NEW c \in Cmd, ScanStands(c), Admit(c), ~force[c]
  PROVE  Agree /\ Committed(to[c])
<1> USE DEF IInv
<1>1. pc[c] = "check" /\ ~Uncommitted(c) /\ ~Conflicts(c)
  BY DEF Admit, Step, Refused
<1>2. left[c] = Present(From(c))
  BY <1>1 DEF ScanStands
<1>3. Agree
  <2>1. \A p \in Present(From(c)) : file[to[c]][p] \in {None, file[From(c)][p]}
    BY <1>1, <1>2 DEF Conflicts
  <2> QED
    BY <2>1, SourceAndDestination DEF Agree, Present
<1>4. Committed(to[c])
  BY <1>1, <1>2, SourceAndDestination DEF Uncommitted, Committed
<1> QED
  BY <1>3, <1>4

LEMMA AdmissionStep ==
  ASSUME IInv, [Next]_vars, NEW c \in Cmd, Alone(c), ScanStands(c), CopyStands(c),
         AdmissionStands(c)
  PROVE  AdmissionStands(c)'
<1> USE DEF IInv
<1>1. pc[c] \in InLock
  BY DEF Alone
<1>2. CASE Apart(c)
  BY <1>2 DEF AdmissionStands, Migrates, Apart, Agree, Committed, Present
<1>3. CASE GitCommit
  BY <1>3 DEF GitCommit, mem, AdmissionStands, Migrates, Agree, Committed, Present
<1>4. CASE GitRemove /\ pc[c] = "move"
  <2>1. ~force[c] => Agree' /\ \A l \in Layout : l = to[c] => Committed(l)'
    BY <1>4, AgreeStays, CommittedStays DEF AdmissionStands, Migrates, Moving
  <2>2. to' = to /\ force' = force /\ pc' = pc
    BY <1>4 DEF GitRemove, mem
  <2> QED
    BY <2>1, <2>2, LayoutTyped DEF AdmissionStands, Committed
<1>5. CASE Acts(c)
  <2>1. CASE \/ Create(c) \/ Change(c) \/ Idle(c) \/ Scan(c) \/ Tidy(c) \/ Refuse(c)
             \/ WriteConfig(c) \/ Stop(c)
    <3>1. ~Migrates(c)'
      BY <2>1 DEF Create, Change, Save, Idle, Scan, Tidy, Refuse, WriteConfig, Stop, Leave, Step, Goto,
         TypeOK, Migrates, Moving, After
    <3> QED
      BY <3>1 DEF AdmissionStands
  <2>2. CASE Admit(c)
    <3>1. ~force[c] => Agree /\ Committed(to[c])
      BY <2>2, AdmittedAgree
    <3> QED
      BY <2>2, <3>1 DEF Admit, AdmissionStands, Agree, Committed, Present, files, mem
  <2>3. CASE \/ List(c) \/ ReadRecord(c) \/ SkipRecord(c) \/ Moved(c) \/ WriteMarks(c)
             \/ CleanSource(c) \/ WriteIndexes(c) \/ WriteIgnore(c)
    <3>1. Migrates(c) /\ UNCHANGED <<file, clean, to, force>>
      BY <2>3 DEF List, ReadRecord, SkipRecord, Moved, WriteMarks, CleanSource, WriteIndexes,
         WriteIgnore, Step, Migrates, Moving, After, files, mem
    <3> QED
      BY <3>1 DEF AdmissionStands, Agree, Committed, Present
  <2>4. CASE WriteRecord(c) \/ RemoveRecord(c)
    <3>1. Migrates(c) /\ UNCHANGED <<to, force>>
      BY <2>4 DEF WriteRecord, RemoveRecord, Step, Migrates, Moving, mem
    <3>2. ~force[c] => Agree' /\ \A l \in Layout : l = to[c] => Committed(l)'
      BY <2>4, <3>1, AgreeStays, CommittedStays DEF AdmissionStands
    <3> QED
      BY <3>1, <3>2, LayoutTyped DEF AdmissionStands, Committed
  <2>5. CASE Start(c) \/ GiveUp(c) \/ Unlock(c) \/ LockForTask(c) \/ LockForMigrate(c)
    BY <1>1, <2>5 DEF Start, GiveUp, Unlock, LockForTask, LockForMigrate, Lock, Step, InLock,
       Moving, After
  <2> QED
    BY <1>5, <2>1, <2>2, <2>3, <2>4, <2>5 DEF Acts, TaskCommand, Prepare, Transfer, Finish
<1> QED
  BY <1>1, <1>2, <1>3, <1>4, <1>5, StepsBeside

\* The steps after the moves.
LEMMA FinishStep ==
  ASSUME IInv, [Next]_vars, NEW c \in Cmd, Alone(c), ScanStands(c), FinishStands(c)
  PROVE  FinishStands(c)'
<1> USE DEF IInv
<1>1. pc[c] \in InLock
  BY DEF Alone
<1>2. CASE Apart(c)
  BY <1>2 DEF FinishStands, Apart, Present, IDs, From
<1>3. CASE GitCommit
  BY <1>3 DEF GitCommit, mem, FinishStands, Present, IDs, From
<1>4. CASE GitRemove /\ pc[c] = "move"
  BY <1>4 DEF GitRemove, FinishStands, After
<1>5. CASE Acts(c)
  <2>1. CASE \/ TaskCommand(c) \/ Prepare(c) \/ List(c) \/ ReadRecord(c) \/ SkipRecord(c)
             \/ WriteRecord(c) \/ RemoveRecord(c) \/ WriteConfig(c)
             \/ Start(c) \/ GiveUp(c) \/ Unlock(c) \/ Stop(c)
    <3>1. pc'[c] \notin After
      BY <2>1 DEF TaskCommand, LockForTask, Lock, Create, Change, Save, Idle, Prepare,
         LockForMigrate, Scan, Tidy, Refuse, Admit, List, ReadRecord, SkipRecord, WriteRecord,
         RemoveRecord, WriteConfig, Start, GiveUp, Unlock, Stop, Leave, Step, Goto, TypeOK, After
    <3> QED
      BY <3>1 DEF FinishStands, After
  <2>2. CASE Moved(c)
    <3>1. Present(From(c)) = {} /\ pc'[c] = "marks"
      BY <2>2 DEF Moved, Step, Goto, TypeOK, ScanStands
    <3> QED
      BY <2>2, <3>1 DEF Moved, FinishStands, files, mem, Present, From
  <2>3. CASE WriteMarks(c)
    <3>1. pc[c] = "marks" /\ pc'[c] = "clean" /\ UNCHANGED <<file, to>>
      BY <2>3 DEF WriteMarks, Step, Goto, TypeOK
    <3>2. to[c] = "home" => IDs("home") \subseteq marks' /\ list'[c] = Present("home")
      BY <2>3 DEF WriteMarks, TypeOK
    <3> QED
      BY <3>1, <3>2 DEF FinishStands, After, Present, IDs, From
  <2>4. CASE CleanSource(c)
    <3>1. /\ pc[c] = "clean" /\ pc'[c] = "index" /\ UNCHANGED <<file, to, marks, list>>
          /\ index'[From(c)] = {}
      BY <2>4, LayoutTyped DEF CleanSource, Step, Goto, TypeOK, mem
    <3> QED
      BY <3>1 DEF FinishStands, After, Present, IDs, From
  <2>5. CASE WriteIndexes(c)
    <3>1. /\ pc[c] = "index" /\ pc'[c] = "ignore" /\ UNCHANGED <<file, to, marks, list>>
          /\ index'[From(c)] = index[From(c)]
          /\ index'[to[c]] = {IF to[c] = "home" THEN list[c] ELSE Present(to[c])}
      BY <2>5, LayoutTyped DEF WriteIndexes, Step, Goto, TypeOK, mem
    <3>2. to[c] = "home" => list[c] = Present("home")
      BY <3>1 DEF FinishStands, After
    <3>3. index'[to[c]] = {Present(to[c])}
      BY <3>1, <3>2
    <3> QED
      BY <3>1, <3>3 DEF FinishStands, After, Present, IDs, From
  <2>6. CASE WriteIgnore(c)
    <3>1. /\ pc[c] = "ignore" /\ pc'[c] = "commit" /\ UNCHANGED <<file, to, marks, list, index>>
          /\ ignore' = to[c]
      BY <2>6 DEF WriteIgnore, Step, Goto, TypeOK, mem
    <3> QED
      BY <3>1 DEF FinishStands, After, Present, IDs, From
  <2> QED
    BY <1>5, <2>1, <2>2, <2>3, <2>4, <2>5, <2>6 DEF Acts, Transfer, Finish
<1> QED
  BY <1>1, <1>2, <1>3, <1>4, <1>5, StepsBeside

\* A migration begins to move records when it is admitted.
LEMMA IntoMigration ==
  ASSUME TypeOK, [Next]_vars, NEW c \in Cmd, ~Migrates(c), Migrates(c)'
  PROVE  Admit(c)
<1>1. pc[c] \in {"work", "scan", "check", "tidy"}
  BY FirstSteps DEF Migrates, InLock, Moving, After
<1>2. PICK d \in Cmd : Acts(d)
  BY DEF Next, Acts, Migrates, GitCommit, GitCheckout, GitRemove, vars
<1>3. d = c
  BY <1>2, OthersStay DEF Migrates
<1>4. CASE TaskCommand(c) \/ Start(c) \/ GiveUp(c) \/ Unlock(c) \/ Stop(c)
  BY <1>1, <1>4 DEF TaskCommand, LockForTask, Lock, Create, Change, Save, Idle, Start, GiveUp,
     Unlock, Stop, Leave, Step, Goto, TypeOK, Migrates, Moving, After
<1>5. CASE Prepare(c)
  BY <1>1, <1>5 DEF Prepare, LockForMigrate, Lock, Scan, Tidy, Refuse, Step, Goto, TypeOK,
     Migrates, Moving, After
<1>6. ~Transfer(c) /\ ~Finish(c)
  BY <1>1 DEF Transfer, Finish, List, ReadRecord, SkipRecord, WriteRecord, RemoveRecord, Moved,
     WriteMarks, CleanSource, WriteIndexes, WriteIgnore, WriteConfig, Step
<1> QED
  BY <1>2, <1>3, <1>4, <1>5, <1>6 DEF Acts

\* A migration that stopped half-way.
LEMMA HalfStep ==
  ASSUME IInv, [Next]_vars, HalfStands, \A c \in Cmd : Alone(c) => AdmissionStands(c)
  PROVE  HalfStands'
<1> USE DEF IInv
<1>1. CASE half' = "none"
  BY <1>1 DEF HalfStands
<1>2. ASSUME half' = half, half # "none" PROVE \A c \in Cmd : ~Migrates(c)'
  BY <1>2, IntoMigration DEF HalfStands, Admit
<1>3. CASE UNCHANGED <<file, clean, half>>
  BY <1>2, <1>3 DEF HalfStands, Agree, Twins, Committed, Present
<1>4. CASE GitCommit
  BY <1>2, <1>4 DEF GitCommit, HalfStands, Agree, Twins, Committed, Present
<1>5. ASSUME NEW c \in Cmd, Stop(c) PROVE HalfStands'
  <2>1. UNCHANGED <<file, clean>>
    BY <1>5 DEF Stop, files
  <2>2. CASE half' = half
    BY <1>3, <2>1, <2>2
  <2>3. CASE half' # half /\ half' # "none"
    <3>1. Migrates(c) /\ Alone(c) /\ ~force[c] /\ ~Twins /\ half' = to[c]
      BY <1>5, <2>3 DEF Stop, Migrates, Alone
    <3>2. Agree /\ Committed(to[c])
      BY <3>1 DEF AdmissionStands
    <3>3. ASSUME NEW d \in Cmd PROVE ~Migrates(d)'
      <4>1. d # c => pc[d] \notin InLock
        BY <3>1, AloneInSection
      <4>2. d # c => pc'[d] = pc[d]
        BY <1>5 DEF Stop, Leave, Goto
      <4>3. pc'[c] = "idle"
        BY <1>5 DEF Stop, Leave, Goto, TypeOK
      <4> QED
        BY <4>1, <4>2, <4>3 DEF Migrates, InLock, Moving, After
    <3> QED
      BY <2>1, <3>1, <3>2, <3>3 DEF HalfStands, Agree, Twins, Committed, Present
  <2> QED
    BY <1>1, <2>2, <2>3
<1>6. ASSUME NEW c \in Cmd, WriteRecord(c) \/ RemoveRecord(c) PROVE HalfStands'
  <2>1. Migrates(c) /\ half' = half
    BY <1>6 DEF WriteRecord, RemoveRecord, Step, Migrates, Moving
  <2> QED
    BY <1>1, <2>1 DEF HalfStands
<1>7. ASSUME NEW c \in Cmd, Acts(c), ~(Stop(c) \/ WriteRecord(c) \/ RemoveRecord(c))
      PROVE  half' = "none" \/ UNCHANGED <<file, clean, half>>
  BY <1>7 DEF Acts, TaskCommand, Prepare, Transfer, Finish, Start, GiveUp, Unlock, LockForTask,
     LockForMigrate, Lock, Create, Change, Save, Idle, Scan, Tidy, Refuse, Admit, List, ReadRecord,
     SkipRecord, Moved, WriteMarks, CleanSource, WriteIndexes, WriteIgnore, WriteConfig, files
<1>8. GitCheckout \/ GitRemove => half' = "none"
  BY DEF GitCheckout, GitRemove
<1>9. UNCHANGED vars => UNCHANGED <<file, clean, half>>
  BY DEF vars, files
<1> QED
  BY <1>1, <1>3, <1>4, <1>5, <1>6, <1>7, <1>8, <1>9 DEF Next, Acts

THEOREM MovesStand == Spec => []MoveInv
<1>1. Init => MoveInv
  BY DEF Init, MoveInv, HalfStands, Alone, InLock, Moving, After
<1>2. ASSUME IInv, MoveInv, [Next]_vars, NEW c \in Cmd, Alone(c)' PROVE Stands(c)'
  <2>1. CASE pc[c] \notin InLock
    BY <1>2, <2>1, FirstStands DEF IInv
  <2>2. CASE pc[c] \in InLock
    <3>1. Alone(c) /\ Stands(c)
      BY <1>2, <2>2, AloneBefore DEF IInv, MoveInv
    <3> QED
      BY <1>2, <3>1, ScanStandsStep, CopyStandsStep, AdmissionStep, FinishStep DEF Stands
  <2> QED
    BY <2>1, <2>2
<1>3. ASSUME IInv, MoveInv, [Next]_vars PROVE MoveInv'
  BY <1>2, <1>3, HalfStep DEF MoveInv, Stands
<1> QED
  BY <1>1, <1>3, Inductive, PTL DEF Spec

\* No step of a migration without --force that is alone takes away the only copy of
\* a content: a record is written where there was none or the same, and removed
\* where the other layout has the same.
THEOREM NoContentIsLost == Spec => ContentSurvives
<1>1. ASSUME IInv, MoveInv, [Next]_vars, NEW c \in Cmd, Migrates(c), Alone(c), ~force[c], pc'[c] # pc[c],
             NEW l \in Layout, NEW p \in Path, file[l][p] # None
      PROVE  \E m \in Layout : file'[m][p] = file[l][p]
  <2> USE DEF IInv
  <2>1. Acts(c)
    BY <1>1, OthersStay DEF Next, Acts, GitCommit, GitCheckout, GitRemove, vars
  <2>2. CopyStands(c) /\ Agree
    BY <1>1 DEF MoveInv, Stands, AdmissionStands
  <2>3. CASE WriteRecord(c)
    <3>1. PICK q \in Path :
           /\ file[From(c)][q] = data[c] /\ data[c] # None
           /\ \A m \in Layout, r \in Path :
                file'[m][r] = IF m = to[c] /\ r = q THEN data[c] ELSE file[m][r]
      BY <1>1, <2>2, <2>3, WriteEffect
    <3>2. file[l][p] = file'[l][p]
      BY <1>1, <2>2, <3>1, SourceAndDestination DEF Agree, Layout
    <3> QED
      BY <3>2
  <2>4. CASE RemoveRecord(c)
    <3>1. PICK q \in Path :
           /\ file[From(c)][q] = data[c] /\ file[to[c]][q] = data[c]
           /\ \A m \in Layout, r \in Path :
                file'[m][r] = IF m = From(c) /\ r = q THEN None ELSE file[m][r]
      BY <1>1, <2>2, <2>4, RemoveEffect
    <3>2. /\ to[c] # From(c) /\ to[c] \in Layout
          /\ l # to[c] => l = From(c)
      BY <1>1, SourceAndDestination DEF Layout
    <3>3. CASE l = From(c) /\ p = q
      BY <1>1, <3>1, <3>2, <3>3
    <3>4. CASE ~(l = From(c) /\ p = q)
      BY <1>1, <3>1, <3>4
    <3> QED
      BY <3>3, <3>4
  <2>5. ~WriteRecord(c) /\ ~RemoveRecord(c) => file' = file
    BY <1>1, <2>1 DEF Migrates, Moving, After, Acts, TaskCommand, Prepare, Transfer, Finish, Start,
       GiveUp, Unlock, Stop, LockForTask, LockForMigrate, Lock, Create, Change, Save, Idle, Scan,
       Tidy, Refuse, Admit, List, ReadRecord, SkipRecord, Moved, WriteMarks, CleanSource,
       WriteIndexes, WriteIgnore, WriteConfig, Step, files
  <2> QED
    BY <1>1, <2>3, <2>4, <2>5
<1>2. IInv /\ MoveInv /\ [Next]_vars
        => [\A c \in Cmd : Migrates(c) /\ Alone(c) /\ ~force[c] /\ pc'[c] # pc[c] =>
              \A l \in Layout, p \in Path :
                file[l][p] # None => \E m \in Layout : file'[m][p] = file[l][p]]_vars
  BY <1>1
<1> QED
  BY <1>2, Inductive, MovesStand, PTL DEF Spec, ContentSurvives

\* writeMigratedConfig commits a finished move, if the migration has been alone: what
\* the steps before it did stands.
THEOREM CommitsAreFinished == Spec => FinishedMove
<1>1. IInv /\ MoveInv /\ [Next]_vars
        => [\A c \in Cmd : WriteConfig(c) /\ Alone(c) =>
              /\ Present(From(c)) = {} /\ index[From(c)] = {}
              /\ index[to[c]] = {Present(to[c])} /\ ignore = to[c]
              /\ to[c] = "home" => IDs("home") \subseteq marks]_vars
  BY DEF MoveInv, Stands, FinishStands, After, WriteConfig, Step
<1> QED
  BY <1>1, Inductive, MovesStand, PTL DEF Spec, FinishedMove

\* A migration that stopped half-way is not refused when it is repeated, alone.
THEOREM RepeatsAreAdmitted == Spec => RepeatIsAdmitted
<1>1. ASSUME IInv, MoveInv, NEW c \in Cmd, Refuse(c), Alone(c), half = to[c]
      PROVE  FALSE
  <2> USE DEF IInv
  <2>1. Agree /\ ~Twins /\ Committed(to[c])
    BY <1>1, LayoutTyped DEF MoveInv, HalfStands, Layout
  <2>2. left[c] = Present(From(c))
    BY <1>1 DEF MoveInv, Stands, ScanStands, Refuse, Step
  <2>3. ~Uncommitted(c)
    BY <2>1 DEF Uncommitted, Committed
  <2>4. ~Conflicts(c)
    <3> SUFFICES ASSUME NEW p \in Present(From(c)),
                        \/ file[to[c]][p] \notin {None, file[From(c)][p]}
                        \/ \E b \in Bucket \ {p[1]} : <<b, p[2]>> \in Present(to[c])
                 PROVE  FALSE
      BY <2>2 DEF Conflicts
    <3>1. file[to[c]][p] \in {None, file[From(c)][p]}
      BY <1>1, <2>1, SourceAndDestination DEF Agree, Present
    <3>2. PICK b \in Bucket \ {p[1]} : <<b, p[2]>> \in Present(to[c])
      BY <3>1
    <3>3. /\ p \in Present("project") \cup Present("home")
          /\ <<b, p[2]>> \in Present("project") \cup Present("home")
          /\ p # <<b, p[2]>> /\ p[2] = <<b, p[2]>>[2]
      BY <1>1, <3>2, SourceAndDestination
    <3> QED
      BY <2>1, <3>3 DEF Twins
  <2> QED
    BY <1>1, <2>3, <2>4 DEF Refuse, Refused
<1>2. IInv /\ MoveInv /\ [Next]_vars => [\A c \in Cmd : Refuse(c) /\ Alone(c) => half # to[c]]_vars
  BY <1>1
<1> QED
  BY <1>2, Inductive, MovesStand, PTL DEF Spec, RepeatIsAdmitted
==============================================================================
