-------------------------- MODULE StoreRegistryProofs --------------------------
(***************************************************************************)
(* Proofs about StoreRegistry, for every set of commands, projects and     *)
(* paths and any number of commands that die: a registered directory has   *)
(* its state file, no interleaving hides the records of a project, and the *)
(* registry is a map that each command changes in one step (RegistryMap).  *)
(***************************************************************************)
EXTENDS StoreRegistry, TLAPS

LEMMA DerivedTyped ==
  ASSUME NEW k \in Key
  PROVE  /\ Derived(k) \in Dir
         /\ \E r \in Rule : Derived(k) = <<k, r>>
BY DEF Derived, Dir, Rule

LEMMA ResolvedTyped ==
  ASSUME registry \in Registry, KnowsItsProject, NEW k \in Key
  PROVE  /\ Resolved(k) \in Dir
         /\ \E r \in Rule : Resolved(k) = <<k, r>>
BY DerivedTyped DEF Resolved, Registry, Entry, KnowsItsProject

LEMMA BusyTyped ==
  ASSUME KnowsItsProject, NEW c \in Cmd, pc[c] # "idle"
  PROVE  /\ job[c] \in Job /\ key[c] \in Key /\ dir[c] \in Dir
         /\ \E r \in Rule : dir[c] = <<key[c], r>>
<1>1. /\ job[c] \in Job /\ key[c] \in Key
      /\ \E r \in Rule : dir[c] = <<key[c], r>>
  BY DEF KnowsItsProject, Busy
<1> QED
  BY <1>1 DEF Dir

\* Where the registry stays, what it says of a project does.
LEMMA ResolvedStays ==
  ASSUME registry' = registry, NEW k \in Key
  PROVE  Resolved(k)' = Resolved(k)
BY DEF Resolved, Derived

LEMMA InitIsSound == Init => IInv
<1> SUFFICES ASSUME Init PROVE IInv
  OBVIOUS
<1>1. registry \in Registry
  BY DEF Init, Registry, Entry
<1>2. KnowsItsProject
  BY DEF Init, KnowsItsProject, Busy
<1>3. \A k \in Key : Resolved(k) \in Dir /\ \E r \in Rule : Resolved(k) = <<k, r>>
  BY <1>1, <1>2, ResolvedTyped
<1>4. TypeOK
  BY <1>1, <1>3, ConstantsAssumption DEF Init, TypeOK, PC, Empty, Registry
<1>5. EntryHasState
  BY DEF Init, EntryHasState, Resolved
<1>6. RecordsStayInSight
  <2> SUFFICES ASSUME NEW k \in Key, NEW r \in Rule, <<k, r>> \in records
               PROVE  <<k, r>> = Resolved(k)
    BY DEF RecordsStayInSight
  <2>1. PICK j \in Key : <<k, r>> = Resolved(j)
    BY DEF Init
  <2>2. PICK q \in Rule : Resolved(j) = <<j, q>>
    BY <1>3
  <2> QED
    BY <2>1, <2>2
<1> QED
  BY <1>2, <1>4, <1>5, <1>6
     DEF Init, IInv, InsideHasLock, ReadIsFresh, ResolutionStands, Busy, InLock

------------------------------------------------------------------------------
(* The steps that leave the registry, the records and the state files alone *)

\* A command of project k begins with the directory that the registry gives.
LEMMA BeginKeeps ==
  ASSUME IInv, NEW c \in Cmd, NEW j \in Job, NEW k \in Key, NEW ps \in SUBSET Path,
         j = "unregisterPath" => \E p \in Path : ps = {p},
         Begin(c, j, k, ps)
  PROVE  IInv'
<1> USE DEF Begin, Goto, files
<1>1. /\ Resolved(k) \in Dir
      /\ \E r \in Rule : Resolved(k) = <<k, r>>
  BY ResolvedTyped DEF IInv, TypeOK
<1>2. TypeOK'
  BY <1>1 DEF IInv, TypeOK, PC
<1>3. \A d \in Cmd \ {c} : /\ pc'[d] = pc[d] /\ job'[d] = job[d] /\ key'[d] = key[d]
                           /\ dir'[d] = dir[d] /\ path'[d] = path[d]
  BY DEF IInv, TypeOK
<1>4. /\ pc'[c] \in {"records", "wait"} /\ job'[c] = j /\ key'[c] = k
      /\ dir'[c] = Resolved(k) /\ path'[c] = ps
  BY DEF IInv, TypeOK
<1>5. InsideHasLock'
  BY <1>3, <1>4 DEF IInv, InsideHasLock, InLock
<1>6. KnowsItsProject'
  BY <1>1, <1>3, <1>4 DEF IInv, KnowsItsProject, Busy
<1>7. ReadIsFresh'
  BY <1>3, <1>4 DEF IInv, ReadIsFresh
<1>8. ResolutionStands'
  BY <1>1, <1>3, <1>4, ResolvedStays DEF IInv, ResolutionStands, Busy, KnowsItsProject
<1>9. EntryHasState' /\ RecordsStayInSight'
  BY ResolvedStays DEF IInv, EntryHasState, RecordsStayInSight
<1> QED
  BY <1>2, <1>5, <1>6, <1>7, <1>8, <1>9 DEF IInv

LEMMA StartKeeps ==
  ASSUME IInv, NEW c \in Cmd,
         \/ StartPath(c) \/ StartSelect(c) \/ StartMigrate(c)
         \/ StartUnregister(c) \/ StartUnregisterPath(c) \/ StartWork(c)
  PROVE  IInv'
<1> USE BeginKeeps DEF Job, Observers, Removers, Workers
<1>1. CASE StartPath(c)
  BY <1>1 DEF StartPath
<1>2. CASE StartSelect(c)
  <2>1. PICK k \in Key :
          /\ registry[k] # None /\ registry[k].dir # NoDir
          /\ IF registry[k].paths = {} THEN Begin(c, "select", k, {})
             ELSE \E p \in registry[k].paths : Begin(c, "select", k, {p})
    BY <1>2 DEF StartSelect
  <2>2. registry[k].paths \subseteq Path
    BY <2>1 DEF IInv, TypeOK, Registry, Entry
  <2> QED
    BY <2>1, <2>2
<1>3. CASE StartMigrate(c)
  BY <1>3 DEF StartMigrate
<1>4. CASE StartUnregister(c)
  BY <1>4 DEF StartUnregister
<1>5. CASE StartUnregisterPath(c)
  BY <1>5 DEF StartUnregisterPath
<1>6. CASE StartWork(c)
  BY <1>6 DEF StartWork
<1> QED
  BY <1>1, <1>2, <1>3, <1>4, <1>5, <1>6

\* A command goes, and forgets what it had.
LEMMA LeavingKeeps ==
  ASSUME IInv, NEW c \in Cmd, Free(c) \/ GiveUp(c) \/ Stop(c)
  PROVE  IInv'
<1> USE DEF Free, GiveUp, Stop, Goto, Forget, files
<1>1. TypeOK'
  <2>1. Empty \in Registry
    BY DEF Empty, Registry
  <2>2. mishaps' \in 0 .. MaxMishaps
    BY ConstantsAssumption DEF IInv, TypeOK
  <2>3. lock' \in Cmd \cup {Nobody} /\ pc' \in [Cmd -> PC]
    BY DEF IInv, TypeOK, PC
  <2> QED
    BY <2>1, <2>2, <2>3 DEF IInv, TypeOK
<1>2. /\ pc'[c] = "idle"
      /\ \A d \in Cmd \ {c} : /\ pc'[d] = pc[d] /\ job'[d] = job[d] /\ key'[d] = key[d]
                              /\ dir'[d] = dir[d] /\ path'[d] = path[d]
                              /\ copy'[d] = copy[d]
  BY DEF IInv, TypeOK
<1>3. InsideHasLock'
  BY <1>2 DEF IInv, InsideHasLock, InLock
<1>4. KnowsItsProject'
  BY <1>2 DEF IInv, KnowsItsProject, Busy
<1>5. ReadIsFresh'
  BY <1>2 DEF IInv, ReadIsFresh
<1>6. ResolutionStands'
  BY <1>2, ResolvedStays DEF IInv, ResolutionStands, Busy, KnowsItsProject
<1>7. EntryHasState' /\ RecordsStayInSight'
  BY ResolvedStays DEF IInv, EntryHasState, RecordsStayInSight
<1> QED
  BY <1>1, <1>3, <1>4, <1>5, <1>6, <1>7 DEF IInv

\* Only its owner is in the section, so that the step of c is the only one.
LEMMA LockKeeps ==
  ASSUME IInv, NEW c \in Cmd, Lock(c)
  PROVE  IInv'
<1> USE DEF Lock, Goto, files, mem
<1>1. TypeOK'
  BY DEF IInv, TypeOK, PC, InLock
<1>2. pc'[c] = "read" /\ \A d \in Cmd \ {c} : pc'[d] = pc[d]
  BY DEF IInv, TypeOK
<1>3. InsideHasLock'
  BY <1>2, ConstantsAssumption DEF IInv, InsideHasLock, InLock
<1>4. KnowsItsProject'
  BY <1>2 DEF IInv, KnowsItsProject, Busy
<1>5. ReadIsFresh'
  BY <1>2 DEF IInv, ReadIsFresh
<1>6. ResolutionStands'
  BY <1>2, ResolvedStays DEF IInv, ResolutionStands, Busy, KnowsItsProject
<1>7. EntryHasState' /\ RecordsStayInSight'
  BY ResolvedStays DEF IInv, EntryHasState, RecordsStayInSight
<1> QED
  BY <1>1, <1>3, <1>4, <1>5, <1>6, <1>7 DEF IInv

LEMMA ReadKeeps ==
  ASSUME IInv, NEW c \in Cmd, ReadToRemove(c) \/ ReadToWrite(c)
  PROVE  IInv'
<1> USE DEF ReadToRemove, ReadToWrite, Goto, files
<1>1. dir[c] \in Dir
  BY BusyTyped DEF IInv
<1>2. TypeOK'
  <2>1. pc' \in [Cmd -> PC]
    <3>1. {"registry", "state", "free"} \subseteq PC
      BY DEF PC, InLock
    <3> QED
      BY <3>1 DEF IInv, TypeOK
  <2>3. copy' \in [Cmd -> Registry]
    BY DEF IInv, TypeOK
  <2>2. \A d \in Cmd : pc'[d] = "state" => d = c \/ pc[d] = "state"
    BY DEF IInv, TypeOK
  <2> QED
    BY <1>1, <2>3, <2>1, <2>2 DEF IInv, TypeOK
<1>3. /\ pc[c] = "read" /\ pc'[c] \in {"registry", "state", "free"}
      /\ copy'[c] = registry
      /\ \A d \in Cmd \ {c} : pc'[d] = pc[d] /\ copy'[d] = copy[d]
  BY DEF IInv, TypeOK
<1>4. InsideHasLock'
  BY <1>3 DEF IInv, InsideHasLock, InLock
<1>5. KnowsItsProject'
  BY <1>3 DEF IInv, KnowsItsProject, Busy
<1>6. pc'[c] = "registry" =>
        /\ job[c] \in Removers
        /\ registry[key[c]] # None
        /\ path[c] \subseteq registry[key[c]].paths
  BY DEF IInv, TypeOK
<1>7. ReadIsFresh'
  BY <1>3, <1>6 DEF IInv, ReadIsFresh, Removers, Observers
<1>8. ResolutionStands'
  BY <1>3, ResolvedStays DEF IInv, ResolutionStands, Busy, KnowsItsProject
<1>9. EntryHasState' /\ RecordsStayInSight'
  BY ResolvedStays DEF IInv, EntryHasState, RecordsStayInSight
<1> QED
  BY <1>2, <1>4, <1>5, <1>7, <1>8, <1>9 DEF IInv

------------------------------------------------------------------------------
(* The writes *)

\* A stale resolution hides no record, because ResolutionStands.
LEMMA WriteRecordsKeeps ==
  ASSUME IInv, NEW c \in Cmd, WriteRecords(c)
  PROVE  IInv'
<1> USE DEF WriteRecords, Goto, mem
<1>1. PICK q \in Rule : dir[c] = <<key[c], q>>
  BY DEF IInv, KnowsItsProject, Busy
<1>2. key[c] \in Key /\ dir[c] \in Dir
  BY <1>1, BusyTyped DEF IInv
<1>3. TypeOK'
  BY <1>2 DEF IInv, TypeOK, PC
<1>4. pc'[c] = "wait" /\ \A d \in Cmd \ {c} : pc'[d] = pc[d]
  BY DEF IInv, TypeOK
<1>5. InsideHasLock'
  BY <1>4 DEF IInv, InsideHasLock, InLock
<1>6. KnowsItsProject'
  BY <1>4 DEF IInv, KnowsItsProject, Busy
<1>7. ReadIsFresh'
  BY <1>4 DEF IInv, ReadIsFresh
<1>8. ResolutionStands'
  BY <1>4, ResolvedStays DEF IInv, ResolutionStands, Busy, KnowsItsProject
<1>9. EntryHasState'
  BY DEF IInv, EntryHasState
<1>10. RecordsStayInSight'
  <2> SUFFICES ASSUME NEW k \in Key \ hidden, NEW r \in Rule,
                      <<k, r>> \in records \/ <<k, r>> = dir[c]
               PROVE  <<k, r>> = Resolved(k)
    BY ResolvedStays DEF RecordsStayInSight
  <2>1. CASE <<k, r>> \in records
    BY <2>1 DEF IInv, RecordsStayInSight
  <2>2. CASE <<k, r>> = dir[c]
    <3>1. k = key[c]
      BY <1>1, <2>2
    <3> QED
      BY <2>2, <3>1 DEF IInv, ResolutionStands, Busy
  <2> QED
    BY <2>1, <2>2
<1> QED
  BY <1>3, <1>5, <1>6, <1>7, <1>8, <1>9, <1>10 DEF IInv

LEMMA WriteStateKeeps ==
  ASSUME IInv, NEW c \in Cmd, WriteState(c)
  PROVE  IInv'
<1> USE DEF WriteState, Goto, mem
<1>1. TypeOK'
  BY DEF IInv, TypeOK, PC, InLock
<1>2. /\ pc[c] = "state" /\ \A d \in Cmd \ {c} : pc'[d] = pc[d]
      /\ pc'[c] = IF job[c] \in Observers THEN "registry" ELSE "free"
  BY DEF IInv, TypeOK
<1>3. InsideHasLock'
  BY <1>2 DEF IInv, InsideHasLock, InLock
<1>4. KnowsItsProject'
  BY <1>2 DEF IInv, KnowsItsProject, Busy
<1>5. ReadIsFresh'
  BY <1>2 DEF IInv, ReadIsFresh
<1>6. ResolutionStands'
  BY <1>2, ResolvedStays DEF IInv, ResolutionStands, Busy, KnowsItsProject
<1>7. EntryHasState' /\ RecordsStayInSight'
  BY ResolvedStays DEF IInv, EntryHasState, RecordsStayInSight
<1> QED
  BY <1>1, <1>3, <1>4, <1>5, <1>6, <1>7 DEF IInv

\* What a command writes is the registry as it is, with one entry changed.
NewEntry(c) ==
  LET e == registry[key[c]] IN
    IF job[c] \in Observers THEN Observed(c, e) ELSE Unregistered(c, e)

LEMMA WriteRegistryWrites ==
  ASSUME IInv, NEW c \in Cmd, WriteRegistry(c)
  PROVE  /\ key[c] \in Key /\ lock = c
         /\ registry' = [registry EXCEPT ![key[c]] = NewEntry(c)]
         /\ NewEntry(c) \in Entry \cup {None}
<1>1. key[c] \in Key /\ lock = c /\ copy[c] = registry /\ dir[c] \in Dir
  <2>1. pc[c] = "registry"
    BY DEF WriteRegistry
  <2>2. lock = c
    BY <2>1 DEF IInv, InsideHasLock, InLock
  <2>3. key[c] \in Key /\ dir[c] \in Dir
    BY <2>1, BusyTyped DEF IInv
  <2>4. copy[c] = registry
    BY <2>1 DEF IInv, ReadIsFresh
  <2> QED
    BY <2>2, <2>3, <2>4
<1>2. registry' = [registry EXCEPT ![key[c]] = NewEntry(c)]
  BY <1>1 DEF WriteRegistry, NewEntry
<1>3. registry[key[c]] \in Entry \cup {None} /\ path[c] \subseteq Path
  BY <1>1 DEF IInv, TypeOK, Registry
<1>4. Observed(c, registry[key[c]]) \in Entry
  BY <1>1, <1>3 DEF Observed, Entry
<1>5. job[c] \notin Observers => registry[key[c]] # None
  BY DEF IInv, ReadIsFresh, WriteRegistry
<1>6. registry[key[c]] # None => Unregistered(c, registry[key[c]]) \in Entry \cup {None}
  BY <1>3 DEF Unregistered, Entry
<1> QED
  BY <1>1, <1>2, <1>4, <1>5, <1>6 DEF NewEntry

\* The directory of a project stays, but for an unregister that hides it.
LEMMA ResolvedKept ==
  ASSUME IInv, NEW c \in Cmd, WriteRegistry(c), NEW k \in Key, k \notin hidden'
  PROVE  Resolved(k)' = Resolved(k)
<1> DEFINE e == registry[k]
<1>1. /\ key[c] \in Key
      /\ registry' = [registry EXCEPT ![key[c]] = NewEntry(c)]
  BY WriteRegistryWrites
<1>2. k \notin hidden
  BY DEF WriteRegistry
<1>3. CASE k # key[c]
  BY <1>1, <1>3 DEF Resolved, Derived, IInv, TypeOK, Registry
<1>4. CASE k = key[c]
  <2>1. registry'[k] = NewEntry(c)
    BY <1>1, <1>4 DEF IInv, TypeOK, Registry
  <2>2. dir[c] = Resolved(k) /\ dir[c] # NoDir
    BY <1>2, <1>4, ResolvedTyped, ConstantsAssumption
       DEF IInv, TypeOK, ResolutionStands, Busy, WriteRegistry
  <2>3. e \in Entry \cup {None}
    BY DEF IInv, TypeOK, Registry
  <2>4. CASE job[c] \in Observers
    <3>1. registry'[k] = Observed(c, e)
      BY <1>4, <2>1, <2>4 DEF NewEntry
    <3>2. Observed(c, e) # None /\ Observed(c, e).dir = Resolved(k)
      <4>1. Observed(c, e) \in Entry
        BY <2>2, <2>3, ResolvedTyped DEF Observed, Entry, IInv, TypeOK
      <4>2. Observed(c, e).dir = Resolved(k)
        BY <2>2, <2>3 DEF Observed, Resolved
      <4> QED
        BY <4>1, <4>2, ConstantsAssumption
    <3> QED
      BY <2>2, <3>1, <3>2 DEF Resolved
  <2>5. CASE job[c] = "unregister"
    <3>1. registry'[k] = None
      BY <1>4, <2>1, <2>5 DEF NewEntry, Unregistered, Observers
    <3>2. Resolved(k) = Derived(k)
      BY <1>4, <2>5 DEF WriteRegistry
    <3> QED
      BY <3>1, <3>2 DEF Resolved, Derived
  <2>6. CASE job[c] = "unregisterPath"
    <3>1. registry'[k] = [e EXCEPT !.paths = @ \ path[c]]
      BY <1>4, <2>1, <2>6 DEF NewEntry, Unregistered, Observers
    <3>2. e # None
      BY <1>4, <2>6 DEF IInv, ReadIsFresh, WriteRegistry, Observers
    <3>3. registry'[k] \in Entry /\ registry'[k].dir = e.dir
      BY <2>3, <3>1, <3>2 DEF Entry
    <3> QED
      BY <3>2, <3>3, ConstantsAssumption DEF Resolved, Derived
  <2> QED
    BY <2>4, <2>5, <2>6 DEF IInv, ReadIsFresh, WriteRegistry, Removers
<1> QED
  BY <1>3, <1>4

LEMMA WriteRegistryKeeps ==
  ASSUME IInv, NEW c \in Cmd, WriteRegistry(c)
  PROVE  IInv'
<1>1. /\ key[c] \in Key /\ lock = c
      /\ registry' = [registry EXCEPT ![key[c]] = NewEntry(c)]
      /\ NewEntry(c) \in Entry \cup {None}
  BY WriteRegistryWrites
<1>2. /\ pc[c] = "registry" /\ pc' = [pc EXCEPT ![c] = "free"]
      /\ UNCHANGED <<state, records, lock, mem, mishaps>>
  BY DEF WriteRegistry, Goto
<1>3. pc'[c] = "free" /\ \A d \in Cmd \ {c} : pc'[d] = pc[d]
  BY <1>2 DEF IInv, TypeOK
<1>4. hidden \subseteq hidden' /\ hidden' \subseteq Key
  BY <1>1 DEF WriteRegistry, IInv, TypeOK
<1>5. TypeOK'
  BY <1>1, <1>2, <1>4 DEF mem, IInv, TypeOK, PC, Registry
<1>6. InsideHasLock'
  BY <1>1, <1>2, <1>3 DEF IInv, InsideHasLock, InLock
<1>7. \A k \in Key : registry'[k] = IF k = key[c] THEN NewEntry(c) ELSE registry[k]
  BY <1>1 DEF IInv, TypeOK, Registry
<1>8. /\ registry[key[c]] \in Entry \cup {None}
      /\ dir[c] \in Dir /\ \E r \in Rule : dir[c] = <<key[c], r>>
      /\ job[c] \in Observers => dir[c] \in state
      /\ job[c] \notin Observers => registry[key[c]] # None
  <2>1. dir[c] \in Dir /\ \E r \in Rule : dir[c] = <<key[c], r>>
    BY <1>2, BusyTyped DEF IInv
  <2>2. registry[key[c]] \in Entry \cup {None}
    BY <1>1 DEF IInv, TypeOK, Registry
  <2> QED
    BY <1>2, <2>1, <2>2 DEF IInv, ReadIsFresh
<1>9. NewEntry(c) # None =>
        \/ NewEntry(c).dir = dir[c] /\ job[c] \in Observers
        \/ registry[key[c]] # None /\ NewEntry(c).dir = registry[key[c]].dir
  BY <1>8 DEF NewEntry, Observed, Unregistered, Entry
<1>10. KnowsItsProject'
  <2>1. ASSUME NEW k \in Key, registry'[k] # None, registry'[k].dir # NoDir
        PROVE  \E r \in Rule : registry'[k].dir = <<k, r>>
    BY <2>1, <1>7, <1>8, <1>9 DEF IInv, KnowsItsProject
  <2> QED
    BY <2>1, <1>2, <1>3 DEF mem, IInv, KnowsItsProject, Busy
<1>11. ReadIsFresh'
  BY <1>1, <1>2, <1>3 DEF mem, IInv, ReadIsFresh, InsideHasLock, InLock
<1>12. ResolutionStands'
  BY <1>2, <1>3, <1>4, ResolvedKept
     DEF mem, IInv, ResolutionStands, Busy, KnowsItsProject
<1>13. EntryHasState'
  BY <1>2, <1>7, <1>8, <1>9 DEF IInv, EntryHasState
<1>14. RecordsStayInSight'
  BY <1>2, <1>4, ResolvedKept DEF IInv, RecordsStayInSight
<1> QED
  BY <1>5, <1>6, <1>10, <1>11, <1>12, <1>13, <1>14 DEF IInv

LEMMA Inductive == IInv /\ [Next]_vars => IInv'
<1> SUFFICES ASSUME IInv, [Next]_vars PROVE IInv'
  OBVIOUS
<1>1. CASE UNCHANGED vars
  BY <1>1 DEF vars, files, mem, IInv, TypeOK, InsideHasLock, KnowsItsProject, Busy,
     ReadIsFresh, ResolutionStands, EntryHasState, RecordsStayInSight, Resolved, Derived
<1>2. ASSUME NEW c \in Cmd,
             \/ StartPath(c) \/ StartSelect(c) \/ StartMigrate(c)
             \/ StartUnregister(c) \/ StartUnregisterPath(c) \/ StartWork(c)
      PROVE  IInv'
  BY <1>2, StartKeeps
<1>3. ASSUME NEW c \in Cmd, Free(c) \/ GiveUp(c) \/ Stop(c)
      PROVE  IInv'
  BY <1>3, LeavingKeeps
<1>4. ASSUME NEW c \in Cmd, ReadToRemove(c) \/ ReadToWrite(c)
      PROVE  IInv'
  BY <1>4, ReadKeeps
<1> QED
  BY <1>1, <1>2, <1>3, <1>4, LockKeeps, WriteRecordsKeeps, WriteStateKeeps,
     WriteRegistryKeeps DEF Next

\* Every command keeps the invariant, whatever the others did since it began.
THEOREM InvariantHolds == Spec => []IInv
BY InitIsSound, Inductive, PTL DEF Spec

\* All variables keep their types (the type invariant of the run).
THEOREM TypeCorrect == Spec => []TypeOK
<1>1. IInv => TypeOK
  BY DEF IInv
<1> QED
  BY <1>1, InvariantHolds, PTL

\* updateStoreProject and its callers (store.go, store_unregister.go): a directory
\* that the registry names has a state file, however many commands observe,
\* unregister and migrate at once, and wherever they die.
THEOREM RegisteredHasState == Spec => []EntryHasState
<1>1. IInv => EntryHasState
  BY DEF IInv
<1> QED
  BY <1>1, InvariantHolds, PTL

\* resolveStore (store.go): no interleaving moves a project away from its records,
\* but an unregister of an entry whose directory the rule does not give.
THEOREM RecordsAreFound == Spec => []RecordsStayInSight
<1>1. IInv => RecordsStayInSight
  BY DEF IInv
<1> QED
  BY <1>1, InvariantHolds, PTL

------------------------------------------------------------------------------
(***************************************************************************)
(* StoreRegistry implements RegistryMap: the write of the registry is the  *)
(* step that observes or removes, on the entry as it is then.              *)
(***************************************************************************)
LEMMA StepRefines ==
  ASSUME IInv, [Next]_vars
  PROVE  [Map!Next]_registry
<1>1. ASSUME NEW c \in Cmd, WriteRegistry(c)
      PROVE  Map!Next
  <2> DEFINE k == key[c]
             e == registry[k]
  <2>1. k \in Key /\ registry' = [registry EXCEPT ![k] = NewEntry(c)]
    BY <1>1, WriteRegistryWrites
  <2>2. pc[c] = "registry"
    BY <1>1 DEF WriteRegistry
  <2>3. e \in Entry \cup {None} /\ dir[c] \in Dir /\ path[c] \in SUBSET Path
    BY <2>1, <2>2, BusyTyped DEF IInv, TypeOK, Registry
  <2>4. CASE job[c] \in Observers
    <3>1. Map!Observe(k, dir[c], path[c])
      BY <2>1, <2>4 DEF NewEntry, Observed, Map!Observe
    <3> QED
      BY <2>1, <2>3, <3>1 DEF Map!Next
  <2>5. CASE job[c] \in Removers
    <3>1. job[c] \notin Observers /\ e # None /\ path[c] \subseteq e.paths
      BY <2>2, <2>5 DEF IInv, ReadIsFresh, Removers, Observers
    <3>2. registry' = [registry EXCEPT ![k] = Unregistered(c, e)]
      BY <2>1, <3>1 DEF NewEntry
    <3>3. CASE job[c] = "unregister"
      <4>1. Map!Remove(k)
        BY <3>1, <3>2, <3>3 DEF Unregistered, Map!Remove
      <4> QED
        BY <2>1, <4>1 DEF Map!Next
    <3>4. CASE job[c] = "unregisterPath"
      <4>1. PICK p \in Path : path[c] = {p}
        BY <2>2, <3>4 DEF IInv, KnowsItsProject, Busy
      <4>2. Unregistered(c, e) = [dir |-> e.dir, paths |-> e.paths \ {p}]
        BY <2>3, <3>1, <3>4, <4>1 DEF Unregistered, Entry
      <4>3. Map!RemovePath(k, p)
        BY <3>1, <3>2, <4>1, <4>2 DEF Map!RemovePath
      <4> QED
        BY <2>1, <4>1, <4>3 DEF Map!Next
    <3> QED
      BY <2>5, <3>3, <3>4 DEF Removers
  <2> QED
    BY <2>2, <2>4, <2>5 DEF IInv, ReadIsFresh
<1>2. ASSUME NEW c \in Cmd,
             \/ StartPath(c) \/ StartSelect(c) \/ StartMigrate(c)
             \/ StartUnregister(c) \/ StartUnregisterPath(c) \/ StartWork(c)
      PROVE  registry' = registry
  BY <1>2 DEF StartPath, StartSelect, StartMigrate, StartUnregister,
     StartUnregisterPath, StartWork, Begin, files
<1>3. ASSUME NEW c \in Cmd,
             \/ WriteRecords(c) \/ Lock(c) \/ ReadToRemove(c) \/ ReadToWrite(c)
             \/ WriteState(c) \/ Free(c) \/ GiveUp(c) \/ Stop(c)
      PROVE  registry' = registry
  BY <1>3 DEF WriteRecords, Lock, ReadToRemove, ReadToWrite, WriteState, Free,
     GiveUp, Stop, files
<1>4. CASE UNCHANGED vars
  BY <1>4 DEF vars, files
<1> QED
  BY <1>1, <1>2, <1>3, <1>4 DEF Next

\* No observation and no removal is lost, and no other entry changes: the commands
\* that update registry.json under the store-state lock are atomic steps on a map.
THEOREM Refinement == Spec => ImplementsMap
<1>1. Init => Map!Init
  <2> SUFFICES ASSUME Init PROVE Map!Init
    OBVIOUS
  <2>1. registry \in [Key -> Entry \cup {None}]
    BY InitIsSound DEF IInv, TypeOK, Registry
  <2> QED
    BY <2>1 DEF Map!Init, Map!Entry, Entry
<1>2. IInv /\ [Next]_vars => [Map!Next]_registry
  BY StepRefines
<1> QED
  BY <1>1, <1>2, InvariantHolds, PTL DEF Spec, ImplementsMap, Map!Spec
==============================================================================
