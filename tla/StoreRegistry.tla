----------------------------- MODULE StoreRegistry -----------------------------
(***************************************************************************)
(* registry.json, the store's map from project keys to directories, with   *)
(* the state file of each directory: `store path` and init, which record   *)
(* the project they run in, `store unregister`, the record that a          *)
(* migration makes, and the task commands that go by the map.              *)
(*                                                                         *)
(* A command resolves its directory from the registry without a lock, and  *)
(* then reads and writes both files under the store-state lock, which is   *)
(* taken as Mutex promises it. The registry is one file, rewritten whole.  *)
(***************************************************************************)
EXTENDS FiniteSets, Naturals

CONSTANTS
  Cmd,         \* ahm commands
  Nobody,      \* the owner of a free lock
  Key,         \* projects
  Path,        \* paths of checkouts (remotes are observed alike)
  NoDir,       \* an entry that records no directory
  None,        \* no entry
  MaxMishaps   \* bound: commands that fail or die inside their section

\* storeDirName gives each key its own name; an entry may still have the name
\* that an earlier rule gave it.
Rule == {"now", "earlier"}
Dir == Key \X Rule
Derived(k) == <<k, "now">>

Entry == [dir : Dir \cup {NoDir}, paths : SUBSET Path]
Registry == [Key -> Entry \cup {None}]

ASSUME ConstantsAssumption ==
  /\ Nobody \notin Cmd
  /\ NoDir \notin Dir
  /\ None \notin Entry
  /\ MaxMishaps \in Nat

VARIABLES
  registry,   \* registry.json
  state,      \* the directories with a state file
  records,    \* the directories with task records
  lock,       \* the owner of the store-state lock
  pc,         \* pc[c]: the step c performs next
  job,        \* job[c]: what c does
  key,        \* key[c]: its project
  dir,        \* dir[c]: the directory it has resolved
  path,       \* path[c]: the paths it observes, or the one it is to remove
  copy,       \* copy[c]: the registry it has read
  hidden,     \* history: the projects unregistered from a directory that the
              \* rule no longer gives them
  mishaps

files == <<registry, state, records>>
mem   == <<job, key, dir, path, copy>>
vars  == <<files, lock, pc, mem, hidden, mishaps>>

\* Those who record an observation, those who unregister, those who write records.
Observers == {"path", "select", "migrate"}
Removers  == {"unregister", "unregisterPath"}
Workers   == {"work", "migrate"}
Job == Observers \cup Removers \cup Workers

InLock == {"read", "state", "registry"}
PC == {"idle", "records", "wait", "free"} \cup InLock

TypeOK ==
  /\ registry \in Registry
  /\ state \in SUBSET Dir
  /\ records \in SUBSET Dir
  /\ lock \in Cmd \cup {Nobody}
  /\ pc \in [Cmd -> PC]
  /\ job \in [Cmd -> Job \cup {"none"}]
  /\ key \in [Cmd -> Key \cup {None}]
  /\ dir \in [Cmd -> Dir \cup {NoDir}]
  /\ path \in [Cmd -> SUBSET Path]
  /\ copy \in [Cmd -> Registry]
  /\ hidden \in SUBSET Key
  /\ mishaps \in 0 .. MaxMishaps
  /\ \A c \in Cmd : pc[c] = "state" => dir[c] \in Dir

Empty == [k \in Key |-> None]

\* resolveStore: the registry wins over the rule.
Resolved(k) ==
  IF registry[k] = None \/ registry[k].dir = NoDir THEN Derived(k) ELSE registry[k].dir

\* A store in which projects were registered under either rule, or edited by hand
\* to have no directory; their records and state are where the registry says.
Init ==
  /\ registry \in [Key -> {None} \cup
       {[dir |-> d, paths |-> {}] : d \in Dir \cup {NoDir}}]
  /\ \A k \in Key : registry[k] # None => registry[k].dir \in {<<k, r>> : r \in Rule} \cup {NoDir}
  /\ records = {Resolved(k) : k \in {j \in Key : registry[j] # None}}
  /\ state = records
  /\ lock = Nobody
  /\ pc = [c \in Cmd |-> "idle"]
  /\ job = [c \in Cmd |-> "none"]
  /\ key = [c \in Cmd |-> None]
  /\ dir = [c \in Cmd |-> NoDir]
  /\ path = [c \in Cmd |-> {}]
  /\ copy = [c \in Cmd |-> Empty]
  /\ hidden = {}
  /\ mishaps = 0

------------------------------------------------------------------------------
Goto(c, there) == pc' = [pc EXCEPT ![c] = there]

Forget(c) ==
  /\ job' = [job EXCEPT ![c] = "none"]
  /\ key' = [key EXCEPT ![c] = None]
  /\ dir' = [dir EXCEPT ![c] = NoDir]
  /\ path' = [path EXCEPT ![c] = {}]
  /\ copy' = [copy EXCEPT ![c] = Empty]

\* checkMigrationDestination: no other project is registered to the directory.
Unclaimed(k) == \A j \in Key \ {k} : registry[j] # None => registry[j].dir # Resolved(k)

\* A command finds out its project, from the checkout it runs in (resolveStore) or
\* from the registry (--project, resolveProjectSelection), and the directory that
\* the registry gives it. It holds no lock.
Begin(c, j, k, ps) ==
  /\ pc[c] = "idle"
  /\ Goto(c, IF j \in Workers THEN "records" ELSE "wait")
  /\ job' = [job EXCEPT ![c] = j]
  /\ key' = [key EXCEPT ![c] = k]
  /\ dir' = [dir EXCEPT ![c] = Resolved(k)]
  /\ path' = [path EXCEPT ![c] = ps]
  /\ UNCHANGED <<files, lock, copy, hidden, mishaps>>

\* store path and init, in a checkout.
StartPath(c) == \E k \in Key, p \in Path : Begin(c, "path", k, {p})

\* store path --project: the entry must exist and name a directory; the path is the
\* one last recorded in it.
StartSelect(c) ==
  \E k \in Key :
    /\ registry[k] # None /\ registry[k].dir # NoDir
    /\ IF registry[k].paths = {} THEN Begin(c, "select", k, {})
       ELSE \E p \in registry[k].paths : Begin(c, "select", k, {p})

StartMigrate(c) == \E k \in Key, p \in Path : Unclaimed(k) /\ Begin(c, "migrate", k, {p})

StartUnregister(c) == \E k \in Key : Begin(c, "unregister", k, {})

StartUnregisterPath(c) == \E k \in Key, p \in Path : Begin(c, "unregisterPath", k, {p})

\* A task command that creates a record.
StartWork(c) == \E k \in Key : Begin(c, "work", k, {})

\* Its record, or the records a migration moves, go to the directory resolved. (They
\* have the record lock; nothing here does.)
WriteRecords(c) ==
  /\ pc[c] = "records"
  /\ Goto(c, "wait")
  /\ records' = records \cup {dir[c]}
  /\ UNCHANGED <<registry, state, lock, mem, hidden, mishaps>>

\* Mutant: the command reads and writes without the lock.
LockNothing(c) ==
  /\ pc[c] = "wait"
  /\ Goto(c, "read")
  /\ UNCHANGED <<files, lock, mem, hidden, mishaps>>

\* withStoreStateLock.
Lock(c) ==
  /\ pc[c] = "wait"
  /\ lock = Nobody
  /\ lock' = c
  /\ Goto(c, "read")
  /\ UNCHANGED <<files, mem, hidden, mishaps>>

\* unregisterStoreProject reads the registry and writes nothing else;
\* planStoreUnregister refuses an entry or a path that is not there.
ReadToRemove(c) ==
  /\ pc[c] = "read" /\ job[c] \in Removers
  /\ Goto(c, IF /\ registry[key[c]] # None
                /\ path[c] \subseteq registry[key[c]].paths
             THEN "registry" ELSE "free")
  /\ copy' = [copy EXCEPT ![c] = registry]
  /\ UNCHANGED <<files, lock, job, key, dir, path, hidden, mishaps>>

\* Mutant: only the registry is written.
ReadForRegistry(c) ==
  /\ pc[c] = "read" /\ job[c] \notin Removers
  /\ Goto(c, IF job[c] \in Observers THEN "registry" ELSE "state")
  /\ copy' = [copy EXCEPT ![c] = registry]
  /\ UNCHANGED <<files, lock, job, key, dir, path, hidden, mishaps>>

\* updateStoreProject reads both files; the marks of a task command are in the
\* state file alone (mutateProjectStateLocked).
ReadToWrite(c) ==
  /\ pc[c] = "read" /\ job[c] \notin Removers
  /\ Goto(c, "state")
  /\ copy' = [copy EXCEPT ![c] = registry]
  /\ UNCHANGED <<files, lock, job, key, dir, path, hidden, mishaps>>

\* The state file goes to the directory the command has resolved, also where the
\* entry it has read since names another one.
WriteState(c) ==
  /\ pc[c] = "state"
  /\ Goto(c, IF job[c] \in Observers THEN "registry" ELSE "free")
  /\ state' = state \cup {dir[c]}
  /\ UNCHANGED <<registry, records, lock, mem, hidden, mishaps>>

\* updateStoreProject on an entry: what it records stays, what it lacks is added.
Observed(c, e) ==
  IF e = None THEN [dir |-> dir[c], paths |-> path[c]]
  ELSE [dir   |-> IF e.dir = NoDir THEN dir[c] ELSE e.dir,
        paths |-> e.paths \cup path[c]]

\* Mutant: the entry goes with its last path.
UnregisteredWithLastPath(c, e) ==
  IF job[c] = "unregister" \/ e.paths = path[c] THEN None
  ELSE [e EXCEPT !.paths = @ \ path[c]]

\* planStoreUnregister on an entry: all of it, or one path.
Unregistered(c, e) ==
  IF job[c] = "unregister" THEN None ELSE [e EXCEPT !.paths = @ \ path[c]]

WriteRegistry(c) ==
  /\ pc[c] = "registry"
  /\ Goto(c, "free")
  /\ LET e == copy[c][key[c]] IN
       registry' = [copy[c] EXCEPT ![key[c]] =
                      IF job[c] \in Observers THEN Observed(c, e) ELSE Unregistered(c, e)]
  /\ hidden' = IF job[c] = "unregister" /\ Resolved(key[c]) # Derived(key[c])
               THEN hidden \cup {key[c]} ELSE hidden
  /\ UNCHANGED <<state, records, lock, mem, mishaps>>

Free(c) ==
  /\ pc[c] = "free"
  /\ Goto(c, "idle")
  /\ lock' = IF lock = c THEN Nobody ELSE lock
  /\ Forget(c)
  /\ UNCHANGED <<files, hidden, mishaps>>

\* The wait for the lock ends without it.
GiveUp(c) ==
  /\ pc[c] = "wait"
  /\ Goto(c, "idle")
  /\ Forget(c)
  /\ UNCHANGED <<files, lock, hidden, mishaps>>

\* A file cannot be read or written, or the command is killed. The lock of a dead
\* owner is free at once (Mutex).
Stop(c) ==
  /\ pc[c] \in InLock
  /\ mishaps < MaxMishaps
  /\ mishaps' = mishaps + 1
  /\ Goto(c, "idle")
  /\ lock' = IF lock = c THEN Nobody ELSE lock
  /\ Forget(c)
  /\ UNCHANGED <<files, hidden>>

Next ==
  \E c \in Cmd :
    \/ StartPath(c) \/ StartSelect(c) \/ StartMigrate(c)
    \/ StartUnregister(c) \/ StartUnregisterPath(c) \/ StartWork(c)
    \/ WriteRecords(c) \/ Lock(c) \/ ReadToRemove(c) \/ ReadToWrite(c)
    \/ WriteState(c) \/ WriteRegistry(c) \/ Free(c) \/ GiveUp(c) \/ Stop(c)

Spec == Init /\ [][Next]_vars

------------------------------------------------------------------------------
(* What makes the properties inductive *)

\* Who is in the section has the lock.
InsideHasLock == \A c \in Cmd : pc[c] \in InLock \cup {"free"} => lock = c

\* A command knows its project, and a directory of that project.
Busy == {c \in Cmd : pc[c] # "idle"}
KnowsItsProject ==
  /\ \A c \in Busy : /\ job[c] \in Job /\ key[c] \in Key
                     /\ \E r \in Rule : dir[c] = <<key[c], r>>
                     /\ job[c] = "unregisterPath" => \E p \in Path : path[c] = {p}
  /\ \A k \in Key : registry[k] # None /\ registry[k].dir # NoDir =>
                     \E r \in Rule : registry[k].dir = <<k, r>>

\* What it has read is true until it writes; an observer has written the state
\* file, and a remover has found what it removes.
ReadIsFresh ==
  \A c \in Cmd :
    /\ pc[c] \in {"state", "registry"} => copy[c] = registry
    /\ pc[c] = "registry" /\ job[c] \in Observers => dir[c] \in state
    /\ pc[c] = "registry" /\ job[c] \notin Observers =>
         /\ job[c] \in Removers
         /\ registry[key[c]] # None
         /\ path[c] \subseteq registry[key[c]].paths

\* However old, the directory a command has resolved is still the project's.
ResolutionStands == \A c \in Busy : key[c] \notin hidden => dir[c] = Resolved(key[c])

------------------------------------------------------------------------------
(* Properties *)

\* updateStoreProject writes the state file first: whatever stops in between, and
\* however old the directory is that a command resolved, a directory that the
\* registry names has a state file.
EntryHasState ==
  \A k \in Key :
    registry[k] # None /\ registry[k].dir # NoDir => registry[k].dir \in state

\* The registry is the authority for the map from keys to directories (store.go:94).
\* No interleaving of commands moves a project away from its records, except that
\* of unregister on an entry whose directory the rule does not give.
RecordsStayInSight ==
  \A k \in Key \ hidden, r \in Rule : <<k, r>> \in records => <<k, r>> = Resolved(k)

IInv ==
  /\ TypeOK /\ InsideHasLock /\ KnowsItsProject /\ ReadIsFresh /\ ResolutionStands
  /\ EntryHasState /\ RecordsStayInSight

\* Every command changes the current registry in one step: no observation and no
\* removal is lost, and the entries of other projects are never touched.
Map == INSTANCE RegistryMap WITH entry <- registry
ImplementsMap == Map!Spec
==============================================================================
