------------------------------ MODULE AtomicWrite ------------------------------
(***************************************************************************)
(* writeFileAtomic, step by step: a temporary file of its own beside the   *)
(* target, its content, a sync, the rename, a sync of the directory.       *)
(* Several processes write one path. A process may fail, stop or sleep     *)
(* before any step, the power may go, and `ahm index` removes temporary    *)
(* files that are older than five minutes, whosever they are.              *)
(***************************************************************************)
EXTENDS Naturals, FiniteSets

CONSTANTS
  Writer,       \* the processes; each one writes a content of its own
  MaxFiles,     \* bound: the files (inodes) that there can be at one time
  Absent,       \* no file
  MaxMishaps    \* bound: failures, stops, power losses and temps that get old

File == 1 .. MaxFiles
Content == Writer \cup {"empty", "torn"}

ASSUME ConstantsAssumption ==
  /\ MaxFiles \in Nat
  /\ MaxMishaps \in Nat
  /\ Absent \notin File
  /\ Absent \notin Content
  /\ "empty" \notin Writer /\ "torn" \notin Writer

VARIABLES
  target,    \* the file at the path, or Absent
  base,      \* the file that the directory on the disk has at the path
  moved,     \* the files renamed to the path since the directory was synced
  content,   \* content[f]
  synced,    \* the files whose content is on the disk
  temps,     \* the files with temporary names
  old,       \* those that were last written more than five minutes ago
  anchored,  \* the directory's own name is on the disk
  pc,        \* the step of each process
  tmp,       \* tmp[w]: its temporary file
  found,     \* the temporary file that index is about to remove
  mishaps

disk == <<target, base, moved, content, synced, temps, old, anchored>>
vars == <<disk, pc, tmp, found, mishaps>>

TypeOK ==
  /\ target \in File \cup {Absent}
  /\ base \in File \cup {Absent}
  /\ moved \subseteq File
  /\ content \in [File -> Content]
  /\ synced \subseteq File
  /\ temps \subseteq File /\ old \subseteq temps
  /\ anchored \in BOOLEAN
  /\ pc \in [Writer -> {"idle", "done", "created", "written", "synced", "renamed"}]
  /\ tmp \in [Writer -> File \cup {Absent}]
  /\ found \in temps \cup {Absent}
  /\ mishaps \in 0 .. MaxMishaps

Init ==
  /\ target = Absent /\ base = Absent /\ moved = {}
  /\ content = [f \in File |-> "empty"]
  /\ synced = {} /\ temps = {} /\ old = {}
  /\ anchored \in BOOLEAN
  /\ pc = [w \in Writer |-> "idle"]
  /\ tmp = [w \in Writer |-> Absent]
  /\ found = Absent /\ mishaps = 0

\* The files that a name, a directory entry on the disk or a process refers to.
InUse == temps \cup moved \cup {target, base} \cup {tmp[w] : w \in Writer}

\* A new file is any of the others; which one makes no difference.
Unused == {f \in File \ InUse : \A g \in File \ InUse : f <= g}

Goes(w, step) == pc' = [pc EXCEPT ![w] = step]

\* The end of a write, with success ("done") or without.
Returns(w, step) == Goes(w, step) /\ tmp' = [tmp EXCEPT ![w] = Absent]

------------------------------------------------------------------------------
(* writeFileAtomic *)

\* MkdirAll, CreateTemp and Chmod: a name that no other process has.
CreateTemp(w) ==
  /\ pc[w] \in {"idle", "done"}
  /\ \E f \in Unused :
       /\ temps' = temps \cup {f}
       /\ content' = [content EXCEPT ![f] = "empty"]
       /\ synced' = synced \ {f}
       /\ tmp' = [tmp EXCEPT ![w] = f]
  /\ Goes(w, "created")
  /\ UNCHANGED <<target, base, moved, old, anchored, found, mishaps>>

\* A process writes through its descriptor, also when the name is gone.
Write(w) ==
  /\ pc[w] = "created"
  /\ content' = [content EXCEPT ![tmp[w]] = w]
  /\ old' = old \ {tmp[w]}
  /\ Goes(w, "written")
  /\ UNCHANGED <<target, base, moved, synced, temps, anchored, tmp, found, mishaps>>

\* Sync and Close.
Sync(w) ==
  /\ pc[w] = "written"
  /\ synced' = synced \cup {tmp[w]}
  /\ Goes(w, "synced")
  /\ UNCHANGED <<target, base, moved, content, temps, old, anchored, tmp, found, mishaps>>

\* Rename, which takes the place of whatever is at the path.
Rename(w) ==
  /\ pc[w] = "synced"
  /\ tmp[w] \in temps
  /\ target' = tmp[w] /\ moved' = moved \cup {tmp[w]}
  /\ temps' = temps \ {tmp[w]} /\ old' = old \ {tmp[w]}
  /\ found' = IF found = tmp[w] THEN Absent ELSE found
  /\ Goes(w, "renamed")
  /\ UNCHANGED <<base, content, synced, anchored, tmp, mishaps>>

\* Mutant: success is reported without the sync of the directory.
ReportAtOnce(w) ==
  /\ pc[w] = "renamed"
  /\ Returns(w, "done")
  /\ UNCHANGED <<disk, found, mishaps>>

\* fsyncDir, and success: it saves whatever the directory has at the path by
\* now, the renames of others included.
SyncDir(w) ==
  /\ pc[w] = "renamed"
  /\ base' = target /\ moved' = {}
  /\ Returns(w, "done")
  /\ UNCHANGED <<target, content, synced, temps, old, anchored, found, mishaps>>

\* Somebody removed the temporary file: the rename fails, and so the write.
TempIsGone(w) ==
  /\ pc[w] = "synced" /\ tmp[w] \notin temps
  /\ Returns(w, "idle")
  /\ UNCHANGED <<disk, found, mishaps>>

Mishap == mishaps < MaxMishaps /\ mishaps' = mishaps + 1

\* A step fails before the rename: the temporary file is removed.
StepFails(w) ==
  /\ Mishap /\ pc[w] \in {"created", "written", "synced"}
  /\ temps' = temps \ {tmp[w]} /\ old' = old \ {tmp[w]}
  /\ found' = IF found = tmp[w] THEN Absent ELSE found
  /\ Returns(w, "idle")
  /\ UNCHANGED <<target, base, moved, content, synced, anchored>>

\* The process ends, its removal of the temporary file fails, or the sync of
\* the directory does: what is there stays.
Stops(w) ==
  /\ Mishap /\ pc[w] \notin {"idle", "done"}
  /\ Returns(w, "idle")
  /\ UNCHANGED <<disk, found>>

------------------------------------------------------------------------------
(* cleanupStaleTempsIn, and the rest of the machine *)

\* Five minutes pass: the temporary file of a process that stopped, or of one
\* that sleeps.
GetsOld(f) ==
  /\ Mishap /\ f \in temps \ old
  /\ old' = old \cup {f}
  /\ UNCHANGED <<target, base, moved, content, synced, temps, anchored, pc, tmp, found>>

\* The walk looks at the age of a temporary file ...
Find(f) ==
  /\ found = Absent /\ f \in old
  /\ found' = f
  /\ UNCHANGED <<disk, pc, tmp, mishaps>>

\* ... and removes it by its name, whatever happened to it since.
Clean ==
  /\ found # Absent
  /\ temps' = temps \ {found} /\ old' = old \ {found}
  /\ found' = Absent
  /\ UNCHANGED <<target, base, moved, content, synced, anchored, pc, tmp, mishaps>>

\* The system writes the parent directory out; MkdirAll does not ask it to.
Anchor ==
  /\ ~anchored /\ anchored' = TRUE
  /\ UNCHANGED <<target, base, moved, content, synced, temps, old, pc, tmp, found, mishaps>>

\* Of the renames since the last sync of the directory any may be lost, and of
\* the names of temporary files; content that was not synced is torn. A
\* directory that is not on the disk itself is lost with all there is in it.
PowerLoss ==
  /\ Mishap
  /\ pc' = [w \in Writer |-> "idle"] /\ tmp' = [w \in Writer |-> Absent]
  /\ found' = Absent
  /\ content' = [f \in File |-> IF f \in synced THEN content[f] ELSE "torn"]
  /\ \/ /\ target' \in {base} \cup moved
        /\ temps' \in SUBSET ((temps \cup moved) \ {target'})
     \/ ~anchored /\ target' = Absent /\ temps' = {}
  /\ base' = target' /\ moved' = {}
  /\ old' = old \cap temps'
  /\ UNCHANGED <<synced, anchored>>

Next ==
  \/ \E w \in Writer :
       \/ CreateTemp(w) \/ Write(w) \/ Sync(w) \/ Rename(w) \/ SyncDir(w)
       \/ TempIsGone(w) \/ StepFails(w) \/ Stops(w)
  \/ \E f \in File : GetsOld(f) \/ Find(f)
  \/ Clean \/ Anchor \/ PowerLoss

Spec == Init /\ [][Next]_vars

------------------------------------------------------------------------------
(* What makes the refinement inductive *)

\* The files that are at the path, or may be after a power loss: only files whose
\* content is on the disk.
Placed == ({target, base} \cup moved) \ {Absent}
PlacedIsWhole ==
  /\ target \in {base} \cup moved
  /\ Placed \subseteq synced

\* A process that writes has a file of its own, which is not at the path.
Writing == {w \in Writer : pc[w] \in {"created", "written", "synced"}}
TempIsOwn ==
  /\ \A w \in Writing : tmp[w] \in File \ Placed
  /\ \A v, w \in Writer : v # w /\ tmp[v] # Absent => tmp[v] # tmp[w]
  /\ \A w \in Writer : pc[w] \in {"written", "synced"} => content[tmp[w]] = w
  /\ \A w \in Writer : pc[w] = "synced" => tmp[w] \in synced

IInv == TypeOK /\ PlacedIsWhole /\ TempIsOwn

------------------------------------------------------------------------------
(* What must hold *)

Shown(f) == IF f = Absent THEN Absent ELSE content[f]

Phase(w) ==
  CASE pc[w] \in {"idle", "done"} -> pc[w]
    [] pc[w] = "renamed"         -> "replaced"
    [] OTHER                     -> "pending"

\* The path behaves as a file that changes in one step and, once a write is
\* acknowledged, for good: whatever fails, stops or is cleaned up and whenever
\* the power goes, nobody ever finds part of a record, nor an older one after
\* success was reported. A write whose temporary file was cleaned up while its
\* process slept fails and changes nothing.
F == INSTANCE AtomicFile WITH
       value <- Shown(target), kept <- {Shown(f) : f \in {base} \cup moved},
       phase <- [w \in Writer |-> Phase(w)]

ImplementsFile == F!Spec
===============================================================================
