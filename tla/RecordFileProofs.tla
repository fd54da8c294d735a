--------------------------- MODULE RecordFileProofs ---------------------------
(***************************************************************************)
(* Proofs about the file of one record.                                    *)
(*                                                                         *)
(* Of AtomicWrite, for any number of processes, files, failures and power  *)
(* losses: only files whose content is on the disk ever come to the path   *)
(* (IInv), and so the steps of writeFileAtomic, the removal of stale       *)
(* temporary files and the power losses are steps of AtomicFile.           *)
(*                                                                         *)
(* Of TaskBody, for any headings, texts and comments and bodies of any     *)
(* length: what the file says of the comments and of the last reason for a *)
(* cancel is what was recorded (BodyInv). Every command makes the body by  *)
(* splices, and a splice keeps the order of the lines that it leaves.      *)
(***************************************************************************)
EXTENDS AtomicWrite, TaskBody, TLAPS, SequenceTheorems, WellFoundedInduction

------------------------------------------------------------------------------
(* AtomicWrite: how the file is replaced *)

PCs == {"idle", "done", "created", "written", "synced", "renamed"}

LEMMA AbsentIsNoFile == Absent \notin File
BY ConstantsAssumption

\* The file CreateTemp takes is nobody's and not at the path.
LEMMA UnusedIsFree ==
  ASSUME NEW f \in Unused
  PROVE  /\ f \in File /\ f \notin temps /\ f \notin Placed
         /\ \A w \in Writer : tmp[w] # f
BY DEF Unused, InUse, Placed

LEMMA InitIsSound == Init => IInv
<1> SUFFICES ASSUME Init PROVE IInv
  OBVIOUS
<1>1. TypeOK
  BY ConstantsAssumption DEF Init, TypeOK, Content
<1> QED
  BY <1>1 DEF Init, IInv, PlacedIsWhole, Placed, TempIsOwn, Writing

------------------------------------------------------------------------------
(* The steps of a write *)

LEMMA CreateTempKeeps ==
  ASSUME IInv, NEW w \in Writer, CreateTemp(w)
  PROVE  IInv'
<1> USE AbsentIsNoFile DEF CreateTemp, Goes
<1>1. PICK f \in Unused :
        /\ temps' = temps \cup {f}
        /\ content' = [content EXCEPT ![f] = "empty"]
        /\ synced' = synced \ {f}
        /\ tmp' = [tmp EXCEPT ![w] = f]
  OBVIOUS
<1>2. /\ f \in File /\ f \notin temps /\ f \notin Placed
      /\ \A v \in Writer : tmp[v] # f
  BY UnusedIsFree
<1>3. TypeOK'
  BY <1>1, <1>2 DEF IInv, TypeOK, Content
<1>4. /\ tmp'[w] = f /\ pc'[w] = "created"
      /\ \A v \in Writer \ {w} : tmp'[v] = tmp[v] /\ pc'[v] = pc[v]
      /\ \A g \in File \ {f} : content'[g] = content[g]
  BY <1>1 DEF IInv, TypeOK
<1>5. Placed' = Placed
  BY DEF Placed
<1>6. PlacedIsWhole'
  BY <1>1, <1>2, <1>5 DEF IInv, PlacedIsWhole
<1>7. TempIsOwn'
  BY <1>1, <1>2, <1>4, <1>5 DEF IInv, TypeOK, TempIsOwn, Writing
<1> QED
  BY <1>3, <1>6, <1>7 DEF IInv

LEMMA WriteKeeps ==
  ASSUME IInv, NEW w \in Writer, Write(w)
  PROVE  IInv'
<1> USE DEF Write, Goes
<1>1. tmp[w] \in File \ Placed
  BY DEF IInv, TempIsOwn, Writing
<1>2. TypeOK'
  BY <1>1 DEF IInv, TypeOK, Content
<1>3. /\ pc'[w] = "written" /\ content'[tmp[w]] = w
      /\ \A v \in Writer \ {w} : pc'[v] = pc[v]
      /\ \A g \in File \ {tmp[w]} : content'[g] = content[g]
  BY <1>1 DEF IInv, TypeOK
<1>4. Placed' = Placed
  BY DEF Placed
<1>5. TempIsOwn'
  BY <1>1, <1>3, <1>4, AbsentIsNoFile DEF IInv, TypeOK, TempIsOwn, Writing
<1> QED
  BY <1>2, <1>4, <1>5 DEF IInv, PlacedIsWhole

LEMMA SyncKeeps ==
  ASSUME IInv, NEW w \in Writer, Sync(w)
  PROVE  IInv'
<1> USE DEF Sync, Goes
<1>1. tmp[w] \in File \ Placed
  BY DEF IInv, TempIsOwn, Writing
<1>2. TypeOK'
  BY <1>1 DEF IInv, TypeOK
<1>3. pc'[w] = "synced" /\ \A v \in Writer \ {w} : pc'[v] = pc[v]
  BY DEF IInv, TypeOK
<1>4. Placed' = Placed
  BY DEF Placed
<1>5. TempIsOwn'
  BY <1>1, <1>3, <1>4 DEF IInv, TempIsOwn, Writing
<1> QED
  BY <1>2, <1>4, <1>5 DEF IInv, PlacedIsWhole

\* The renamed file was synced, and the files of the others are others.
LEMMA RenameKeeps ==
  ASSUME IInv, NEW w \in Writer, Rename(w)
  PROVE  IInv'
<1> USE AbsentIsNoFile DEF Rename, Goes
<1>1. tmp[w] \in File \ Placed /\ tmp[w] \in synced
  BY DEF IInv, TempIsOwn, Writing
<1>2. TypeOK'
  BY <1>1 DEF IInv, TypeOK
<1>3. pc'[w] = "renamed" /\ \A v \in Writer \ {w} : pc'[v] = pc[v]
  BY DEF IInv, TypeOK
<1>4. Placed' \subseteq Placed \cup {tmp[w]}
  BY DEF Placed
<1>5. PlacedIsWhole'
  BY <1>1, <1>4 DEF IInv, PlacedIsWhole
<1>6. TempIsOwn'
  BY <1>1, <1>3, <1>4 DEF IInv, TempIsOwn, Writing
<1> QED
  BY <1>2, <1>5, <1>6 DEF IInv

LEMMA SyncDirKeeps ==
  ASSUME IInv, NEW w \in Writer, SyncDir(w)
  PROVE  IInv'
<1> USE DEF SyncDir, Returns, Goes
<1>1. TypeOK'
  BY DEF IInv, TypeOK
<1>2. /\ pc'[w] = "done" /\ tmp'[w] = Absent
      /\ \A v \in Writer \ {w} : pc'[v] = pc[v] /\ tmp'[v] = tmp[v]
  BY DEF IInv, TypeOK
<1>3. Placed' \subseteq Placed
  BY DEF Placed
<1>4. PlacedIsWhole'
  BY <1>3 DEF IInv, PlacedIsWhole
<1>5. TempIsOwn'
  BY <1>2, <1>3 DEF IInv, TempIsOwn, Writing
<1> QED
  BY <1>1, <1>4, <1>5 DEF IInv

\* A write that ends without success, or with its process, leaves what is placed.
LEMMA FailingKeeps ==
  ASSUME IInv, NEW w \in Writer, TempIsGone(w) \/ StepFails(w) \/ Stops(w)
  PROVE  IInv'
<1> USE DEF TempIsGone, StepFails, Stops, Mishap, Returns, Goes, disk
<1>1. mishaps' \in 0 .. MaxMishaps
  BY ConstantsAssumption DEF IInv, TypeOK
<1>2. temps' \subseteq temps /\ old' \subseteq temps' /\ found' \in temps' \cup {Absent}
  BY DEF IInv, TypeOK
<1>3. TypeOK'
  BY <1>1, <1>2 DEF IInv, TypeOK
<1>4. /\ pc'[w] = "idle" /\ tmp'[w] = Absent
      /\ \A v \in Writer \ {w} : pc'[v] = pc[v] /\ tmp'[v] = tmp[v]
  BY DEF IInv, TypeOK
<1>5. Placed' = Placed
  BY DEF Placed
<1>6. TempIsOwn'
  BY <1>4, <1>5 DEF IInv, TempIsOwn, Writing
<1> QED
  BY <1>3, <1>5, <1>6 DEF IInv, PlacedIsWhole

------------------------------------------------------------------------------
(* The rest of the machine *)

LEMMA CleaningKeeps ==
  ASSUME IInv,
         \/ \E f \in File : GetsOld(f) \/ Find(f)
         \/ Clean \/ Anchor
  PROVE  IInv'
<1> USE DEF GetsOld, Find, Clean, Anchor, Mishap, disk
<1>1. mishaps' \in 0 .. MaxMishaps
  BY ConstantsAssumption DEF IInv, TypeOK
<1>2. temps' \subseteq temps /\ old' \subseteq temps' /\ found' \in temps' \cup {Absent}
  BY DEF IInv, TypeOK
<1>3. TypeOK'
  BY <1>1, <1>2 DEF IInv, TypeOK
<1>4. UNCHANGED <<target, base, moved, content, synced, pc, tmp>>
  OBVIOUS
<1> QED
  BY <1>3, <1>4 DEF IInv, PlacedIsWhole, TempIsOwn, Writing, Placed

\* Of what is placed part is lost, and the processes with their files.
LEMMA PowerLossKeeps ==
  ASSUME IInv, PowerLoss
  PROVE  IInv'
<1> USE DEF PowerLoss
<1>1. /\ target' \in {base, Absent} \cup moved
      /\ temps' \subseteq temps \cup moved
  OBVIOUS
<1>2. target' = Absent \/ target' \in Placed
  BY <1>1 DEF Placed
<1>3. /\ pc' \in [Writer -> PCs] /\ tmp' \in [Writer -> File \cup {Absent}]
      /\ \A w \in Writer : pc'[w] = "idle" /\ tmp'[w] = Absent
  BY DEF PCs
<1>4. content' \in [File -> Content]
  BY DEF IInv, TypeOK, Content
<1>5. mishaps' \in 0 .. MaxMishaps
  BY ConstantsAssumption DEF Mishap, IInv, TypeOK
<1>6. TypeOK'
  BY <1>1, <1>3, <1>4, <1>5 DEF IInv, TypeOK, PCs
<1>7. PlacedIsWhole'
  BY <1>2 DEF IInv, PlacedIsWhole, Placed
<1>8. TempIsOwn'
  BY <1>3 DEF TempIsOwn, Writing
<1> QED
  BY <1>6, <1>7, <1>8 DEF IInv

LEMMA Inductive == IInv /\ [Next]_vars => IInv'
<1> SUFFICES ASSUME IInv, [Next]_vars PROVE IInv'
  OBVIOUS
<1>1. CASE UNCHANGED vars
  BY <1>1 DEF vars, disk, IInv, TypeOK, PlacedIsWhole, TempIsOwn, Writing, Placed
<1>2. ASSUME NEW w \in Writer, TempIsGone(w) \/ StepFails(w) \/ Stops(w)
      PROVE  IInv'
  BY <1>2, FailingKeeps
<1>3. CASE (\E f \in File : GetsOld(f) \/ Find(f)) \/ Clean \/ Anchor
  BY <1>3, CleaningKeeps
<1> QED
  BY <1>1, <1>2, <1>3, CreateTempKeeps, WriteKeeps, SyncKeeps, RenameKeeps,
     SyncDirKeeps, PowerLossKeeps DEF Next

\* Whatever fails and whenever the power goes, the path has a file whose content
\* is on the disk, and each process its own temporary file.
THEOREM InvariantHolds == Spec => []IInv
BY InitIsSound, Inductive, PTL DEF Spec

\* All variables keep their types (the type invariant of the run).
THEOREM TypeCorrect == Spec => []TypeOK
<1>1. IInv => TypeOK
  BY DEF IInv
<1> QED
  BY <1>1, InvariantHolds, PTL

------------------------------------------------------------------------------
(***************************************************************************)
(* AtomicWrite implements AtomicFile: the rename is Replace, the sync of   *)
(* the directory Acknowledge; everything else before it is Begin, Fail or  *)
(* no step at all.                                                         *)
(***************************************************************************)
Value == Shown(target)
Kept == {Shown(f) : f \in {base} \cup moved}
Phases == [w \in Writer |-> Phase(w)]

\* Content that is not placed may change unseen.
LEMMA UnseenStep ==
  ASSUME UNCHANGED <<target, base, moved>>,
         \A f \in Placed : content'[f] = content[f]
  PROVE  Value' = Value /\ Kept' = Kept
<1>1. \A f \in {target, base} \cup moved : Shown(f)' = Shown(f)
  BY DEF Shown, Placed
<1> QED
  BY <1>1 DEF Value, Kept

LEMMA PhaseStep ==
  ASSUME IInv, NEW w \in Writer, NEW step \in PCs, Goes(w, step)
  PROVE  /\ Phase(w)' = CASE step \in {"idle", "done"} -> step
                          [] step = "renamed"         -> "replaced"
                          [] OTHER                    -> "pending"
         /\ Phases' = [Phases EXCEPT ![w] = Phase(w)']
<1>1. pc'[w] = step /\ \A v \in Writer \ {w} : pc'[v] = pc[v]
  BY DEF Goes, IInv, TypeOK, PCs
<1>2. \A v \in Writer \ {w} : Phase(v)' = Phase(v)
  BY <1>1 DEF Phase
<1>3. Phase(w)' = CASE step \in {"idle", "done"} -> step
                    [] step = "renamed"         -> "replaced"
                    [] OTHER                    -> "pending"
  BY <1>1 DEF Phase
<1>4. \A v \in Writer : Phases'[v] = [Phases EXCEPT ![w] = Phase(w)'][v]
  BY <1>2 DEF Phases
<1> QED
  BY <1>3, <1>4 DEF Phases

LEMMA CreateTempRefines ==
  ASSUME IInv, NEW w \in Writer, CreateTemp(w)
  PROVE  F!Begin(w)
<1> USE DEF CreateTemp
<1>1. PICK f \in Unused : content' = [content EXCEPT ![f] = "empty"]
  OBVIOUS
<1>2. f \notin Placed
  BY UnusedIsFree
<1>3. \A g \in Placed : content'[g] = content[g]
  BY <1>1, <1>2 DEF IInv, TypeOK, Placed
<1>4. Value' = Value /\ Kept' = Kept
  BY <1>3, UnseenStep
<1>5. Phases[w] \in {"idle", "done"} /\ Phases' = [Phases EXCEPT ![w] = "pending"]
  BY PhaseStep DEF Phases, Phase, PCs
<1> QED
  BY <1>4, <1>5 DEF F!Begin, Value, Kept, Phases

\* Up to the rename nothing of a write can be seen.
LEMMA WritingRefines ==
  ASSUME IInv, NEW w \in Writer, Write(w) \/ Sync(w)
  PROVE  UNCHANGED F!vars
<1>1. UNCHANGED <<target, base, moved, anchored>>
  BY DEF Write, Sync
<1>2. tmp[w] \in File \ Placed
  BY DEF Write, Sync, IInv, TempIsOwn, Writing
<1>3. \A g \in Placed : content'[g] = content[g]
  BY <1>2 DEF Write, Sync, IInv, TypeOK, Placed
<1>4. Value' = Value /\ Kept' = Kept
  BY <1>1, <1>3, UnseenStep
<1>5. Phases' = [Phases EXCEPT ![w] = "pending"]
  BY PhaseStep DEF Write, Sync, PCs
<1>6. Phases[w] = "pending"
  BY DEF Write, Sync, Phases, Phase
<1>7. Phases' = Phases
  BY <1>5, <1>6 DEF Phases
<1> QED
  BY <1>1, <1>4, <1>7 DEF F!vars, Value, Kept, Phases

LEMMA RenameRefines ==
  ASSUME IInv, NEW w \in Writer, Rename(w)
  PROVE  F!Replace(w)
<1> USE DEF Rename
<1>1. tmp[w] \in File \ Placed /\ content[tmp[w]] = w
  BY DEF IInv, TempIsOwn, Writing
<1>2. \A f : Shown(f)' = Shown(f)
  BY DEF Shown
<1>3. Shown(tmp[w]) = w
  BY <1>1, AbsentIsNoFile DEF Shown
<1>4. Value' = w /\ Kept' = Kept \cup {w}
  BY <1>2, <1>3 DEF Value, Kept
<1>5. Phases[w] = "pending" /\ Phases' = [Phases EXCEPT ![w] = "replaced"]
  BY PhaseStep DEF Phases, Phase, PCs
<1> QED
  BY <1>4, <1>5 DEF F!Replace, Value, Kept, Phases

LEMMA SyncDirRefines ==
  ASSUME IInv, NEW w \in Writer, SyncDir(w)
  PROVE  F!Acknowledge(w)
<1> USE DEF SyncDir, Returns
<1>1. \A f : Shown(f)' = Shown(f)
  BY DEF Shown
<1>2. Value' = Value /\ Kept' = {Value}
  BY <1>1 DEF Value, Kept
<1>3. Phases[w] = "replaced" /\ Phases' = [Phases EXCEPT ![w] = "done"]
  BY PhaseStep DEF Phases, Phase, PCs
<1> QED
  BY <1>2, <1>3 DEF F!Acknowledge, Value, Kept, Phases

LEMMA FailingRefines ==
  ASSUME IInv, NEW w \in Writer, TempIsGone(w) \/ StepFails(w) \/ Stops(w)
  PROVE  F!Fail(w)
<1> USE DEF TempIsGone, StepFails, Stops, Returns, disk
<1>1. UNCHANGED <<target, base, moved, content, anchored>>
  OBVIOUS
<1>2. Value' = Value /\ Kept' = Kept
  BY <1>1, UnseenStep
<1>3. Phases[w] \in {"pending", "replaced"} /\ Phases' = [Phases EXCEPT ![w] = "idle"]
  BY PhaseStep DEF Phases, Phase, PCs, IInv, TypeOK
<1> QED
  BY <1>1, <1>2, <1>3 DEF F!Fail, Value, Kept, Phases

LEMMA PowerLossRefines ==
  ASSUME IInv, PowerLoss
  PROVE  F!PowerLoss
<1> USE AbsentIsNoFile DEF PowerLoss
<1>1. \A f \in Placed \cup {Absent} : Shown(f)' = Shown(f)
  BY DEF Shown, IInv, TypeOK, PlacedIsWhole, Placed
<1>2. {base} \cup moved \subseteq Placed \cup {Absent}
  BY DEF Placed
<1>3. Kept' = {Value'}
  BY DEF Kept, Value
<1>4. Value' \in Kept \cup (IF anchored THEN {} ELSE {Absent})
  <2>1. CASE target' \in {base} \cup moved
    <3>1. Value' = Shown(target')
      BY <1>1, <1>2, <2>1 DEF Value, Shown
    <3> QED
      BY <2>1, <3>1 DEF Kept
  <2>2. CASE ~anchored /\ target' = Absent
    BY <2>2 DEF Value, Shown
  <2> QED
    BY <2>1, <2>2
<1>5. Phases' = [w \in Writer |-> "idle"]
  BY DEF Phases, Phase
<1> QED
  BY <1>3, <1>4, <1>5 DEF F!PowerLoss, Value, Kept, Phases

LEMMA StepRefines ==
  ASSUME IInv, [Next]_vars
  PROVE  [F!Next]_(F!vars)
<1>1. ASSUME NEW w \in Writer, TempIsGone(w) \/ StepFails(w) \/ Stops(w)
      PROVE  F!Next
  BY <1>1, FailingRefines DEF F!Next
<1>2. ASSUME NEW w \in Writer, CreateTemp(w) \/ Rename(w) \/ SyncDir(w)
      PROVE  F!Next
  BY <1>2, CreateTempRefines, RenameRefines, SyncDirRefines DEF F!Next
<1>3. ASSUME NEW w \in Writer, Write(w) \/ Sync(w)
      PROVE  UNCHANGED F!vars
  BY <1>3, WritingRefines
<1>4. CASE (\E f \in File : GetsOld(f) \/ Find(f)) \/ Clean \/ UNCHANGED vars
  <2>1. UNCHANGED <<target, base, moved, content, anchored, pc>>
    BY <1>4 DEF GetsOld, Find, Clean, vars, disk
  <2>2. Value' = Value /\ Kept' = Kept /\ Phases' = Phases
    BY <2>1, UnseenStep DEF Phases, Phase
  <2> QED
    BY <2>1, <2>2 DEF F!vars, Value, Kept, Phases
<1>5. CASE Anchor
  <2>1. Value' = Value /\ Kept' = Kept /\ Phases' = Phases
    BY <1>5, UnseenStep DEF Anchor, Phases, Phase
  <2> QED
    BY <1>5, <2>1 DEF Anchor, F!Next, F!Anchor, Value, Kept, Phases
<1>6. CASE PowerLoss
  BY <1>6, PowerLossRefines DEF F!Next
<1> QED
  BY <1>1, <1>2, <1>3, <1>4, <1>5, <1>6 DEF Next

\* writeFileAtomic (write.go) changes a file in one step that, once acknowledged,
\* no failure, no removal of stale temporary files and no power loss takes back.
THEOREM Refinement == Spec => ImplementsFile
<1>1. Init => F!Init
  BY DEF Init, F!Init, Shown, Phase
<1>2. IInv /\ [Next]_vars => [F!Next]_(F!vars)
  BY StepRefines
<1> QED
  BY <1>1, <1>2, InvariantHolds, PTL DEF Spec, ImplementsFile, F!Spec

------------------------------------------------------------------------------
(* TaskBody: what its body keeps *)

\* The least number of a set is in it.
LEMMA MinIsLeast ==
  ASSUME NEW S \in SUBSET Nat, S # {}
  PROVE  Min(S) \in S /\ \A x \in S : Min(S) <= x
<1>1. PICK m \in S : \A y \in S : ~(<<y, m>> \in OpToRel(<, Nat))
  BY NatLessThanWellFounded, WFMin, Zenon
<1>2. ASSUME NEW y \in S
      PROVE  m <= y
  <2>1. m \in Nat /\ y \in Nat
    OBVIOUS
  <2>2. y < m => <<y, m>> \in OpToRel(<, Nat)
    BY <2>1 DEF OpToRel
  <2>3. ~(y < m)
    BY <2>2, <1>1, Zenon
  <2> QED
    BY <2>1, <2>3
<1> QED
  BY <1>2, Zenon DEF Min

------------------------------------------------------------------------------
(* Lines and sections *)

\* Headings, texts and the lines of authors are lines, and no author writes a
\* comment's line.
LEMMA Lines ==
  /\ \A k \in Line : k.level \in {0, 2, 3}
  /\ \A x \in Note \cup Reason \cup Range(Entry) : Text(x) \in Line /\ Text(x).level = 0
  /\ HeadingLine(2, Comments) \in Line /\ HeadingLine(2, CancellationReason) \in Line
  /\ \A h \in Heading : HeadingLine(2, h.text) \in Line
  /\ AuthorLine \subseteq Line
  /\ \A k \in AuthorLine : \A e \in DOMAIN Entry : k # Text(Entry[e])
  /\ \A r \in Reason : \A e \in DOMAIN Entry : Text(r) # Text(Entry[e])
  /\ \A name, e : HeadingLine(2, name) # Text(e)
  /\ \A e \in DOMAIN Entry : Entry[e] \in Range(Entry)
<1> USE BodyAssumption DEF Line, Level, Text, HeadingLine
<1>1. \A e \in DOMAIN Entry : Entry[e] \in Range(Entry)
  BY DEF Range
<1>2. \A k \in AuthorLine : \A e \in DOMAIN Entry : k # Text(Entry[e])
  BY <1>1 DEF AuthorLine
<1>3. \A r \in Reason : \A e \in DOMAIN Entry : Text(r) # Text(Entry[e])
  BY <1>1
<1>4. AuthorLine \subseteq Line
  BY DEF AuthorLine
<1>5. \A h \in Heading : HeadingLine(2, h.text) \in Line
  BY DEF Title
<1>6. HeadingLine(2, Comments) \in Line /\ HeadingLine(2, CancellationReason) \in Line
  BY DEF Title, Protected
<1> QED
  BY <1>1, <1>2, <1>3, <1>4, <1>6, <1>5

\* No two comments have the same line.
LEMMA EntriesDiffer ==
  /\ DOMAIN Entry = 1 .. Len(Entry) /\ Len(Entry) \in Nat
  /\ \A d, e \in DOMAIN Entry : Text(Entry[d]) = Text(Entry[e]) => d = e
BY BodyAssumption DEF IsInjective, Text

IsEnd(b, i, e) ==
  /\ e \in i + 1 .. Len(b) + 1
  /\ \A j \in i + 1 .. e - 1 : b[j].level \notin 1 .. b[i].level
  /\ e <= Len(b) => b[e].level \in 1 .. b[i].level

\* End finds where a section ends.
LEMMA EndIs ==
  ASSUME NEW b \in Seq(Line), NEW i \in DOMAIN b
  PROVE  IsEnd(b, i, End(b, i))
<1> DEFINE after == {j \in DOMAIN b : j > i /\ b[j].level \in 1 .. b[i].level}
<1>1. DOMAIN b = 1 .. Len(b) /\ Len(b) \in Nat /\ i \in Nat
  OBVIOUS
<1>2. CASE after = {}
  <2>1. End(b, i) = Len(b) + 1
    BY <1>2 DEF End
  <2> QED
    BY <1>1, <1>2, <2>1 DEF IsEnd
<1>3. CASE after # {}
  <2>1. End(b, i) = Min(after)
    BY <1>3 DEF End
  <2>2. after \in SUBSET Nat
    BY <1>1
  <2>3. Min(after) \in after /\ \A x \in after : Min(after) <= x
    BY <1>3, <2>2, MinIsLeast
  <2> DEFINE m == Min(after)
  <2>4. /\ m \in DOMAIN b /\ m > i /\ b[m].level \in 1 .. b[i].level
        /\ \A x \in DOMAIN b : x > i /\ b[x].level \in 1 .. b[i].level => m <= x
    BY <2>3
  <2>5. End(b, i) = m
    BY <2>1
  <2> HIDE DEF m
  <2>6. \A x \in i + 1 .. m - 1 : b[x].level \notin 1 .. b[i].level
    <3> TAKE x \in i + 1 .. m - 1
    <3>1. x \in DOMAIN b /\ x > i /\ ~(m <= x)
      BY <1>1, <2>4
    <3> QED
      BY <3>1, <2>4
  <2>7. IsEnd(b, i, m)
    BY <1>1, <2>4, <2>6 DEF IsEnd
  <2> QED
    BY <2>5, <2>7
<1> QED
  BY <1>2, <1>3

LEMMA EndIsOne ==
  ASSUME NEW b \in Seq(Line), NEW i \in DOMAIN b, NEW e, IsEnd(b, i, e)
  PROVE  e = End(b, i)
<1>1. IsEnd(b, i, End(b, i))
  BY EndIs
<1> DEFINE d == End(b, i)
<1> HIDE DEF d
<1>2. d = End(b, i)
  BY DEF d
<1>3. IsEnd(b, i, d)
  BY <1>1, <1>2
<1>4. d = e
  BY <1>3 DEF IsEnd
<1> QED
  BY <1>4, <1>2

FirstOf(S, i) == i \in S /\ \A j \in S : i <= j

LEMMA FirstIsMin ==
  ASSUME NEW S \in SUBSET Nat, NEW i, FirstOf(S, i)
  PROVE  i = Min(S)
<1>1. Min(S) \in S /\ \A x \in S : Min(S) <= x
  BY MinIsLeast DEF FirstOf
<1> DEFINE m == Min(S)
<1>2. m \in S /\ (\A x \in S : m <= x) /\ m \in Nat
  BY <1>1
<1> HIDE DEF m
<1>3. i \in S /\ i \in Nat /\ \A x \in S : i <= x
  BY DEF FirstOf
<1>4. i <= m /\ m <= i
  BY <1>2, <1>3
<1>5. i = m
  BY <1>2, <1>3, <1>4
<1> QED
  BY <1>5 DEF m

LEMMA MinIsFirst ==
  ASSUME NEW S \in SUBSET Nat, S # {}
  PROVE  FirstOf(S, Min(S))
BY MinIsLeast DEF FirstOf

\* The lines of the log lie between its heading and its end.
LEMMA LogLinesAre ==
  ASSUME NEW b \in Seq(Line), NEW i, NEW e, FirstOf(Logs(b), i), IsEnd(b, i, e)
  PROVE  LogLines(b) = i + 1 .. e - 1
<1>1. Logs(b) \in SUBSET Nat /\ Logs(b) # {} /\ i \in DOMAIN b
  BY DEF Logs, Sections, FirstOf
<1>2. i = Min(Logs(b)) /\ e = End(b, i)
  BY <1>1, FirstIsMin, EndIsOne
<1> QED
  BY <1>1, <1>2 DEF LogLines

LEMMA LogHasEnd ==
  ASSUME NEW b \in Seq(Line), Logs(b) # {}
  PROVE  /\ FirstOf(Logs(b), Min(Logs(b)))
         /\ IsEnd(b, Min(Logs(b)), End(b, Min(Logs(b))))
         /\ Min(Logs(b)) \in DOMAIN b
         /\ b[Min(Logs(b))].level = 2
         /\ Min(Logs(b)) \in Sections(b, Comments)
<1>1. Logs(b) \in SUBSET Nat /\ Logs(b) \subseteq DOMAIN b
  BY DEF Logs, Sections
<1>2. FirstOf(Logs(b), Min(Logs(b)))
  BY <1>1, MinIsFirst
<1> QED
  BY <1>1, <1>2, EndIs DEF FirstOf, Logs

\* In next, c has the place of what b has between i and j.
Shift(i, c, j) == i + Len(c) + 1 - j
Spliced(b, next, i, c, j) ==
  /\ next \in Seq(Line)
  /\ Len(next) = Len(b) + Shift(i, c, j)
  /\ \A x \in 1 .. i : next[x] = b[x]
  /\ \A k \in 1 .. Len(c) : next[i + k] = c[k]
  /\ \A y \in j .. Len(b) : next[y + Shift(i, c, j)] = b[y]
  /\ \A x \in 1 .. Len(next) :
       \/ x \in 1 .. i
       \/ \E k \in 1 .. Len(c) : x = i + k
       \/ \E y \in j .. Len(b) : x = y + Shift(i, c, j)

\* A body put together from its beginning, new lines and its rest is spliced.
LEMMA SpliceIs ==
  ASSUME NEW b \in Seq(Line), NEW c \in Seq(Line),
         NEW i \in Nat, NEW j \in Nat, i < j, j <= Len(b) + 1
  PROVE  Spliced(b, SubSeq(b, 1, i) \o c \o SubSeq(b, j, Len(b)), i, c, j)
<1> DEFINE h == SubSeq(b, 1, i)
           t == SubSeq(b, j, Len(b))
           d == Shift(i, c, j)
<1>1. /\ Len(b) \in Nat /\ i \in Int /\ j \in Int /\ Len(c) \in Nat
      /\ d \in Int /\ d = i + Len(c) + 1 - j
  BY DEF Shift
<1>2. /\ h \in Seq(Line) /\ Len(h) = i
      /\ \A k \in 1 .. i : h[k] = b[k]
  BY <1>1, SubSeqProperties
<1>3. /\ t \in Seq(Line) /\ Len(t) = Len(b) - j + 1
      /\ \A k \in 1 .. Len(b) - j + 1 : t[k] = b[j + k - 1]
  BY <1>1, SubSeqProperties
<1> HIDE DEF h, t, d
<1> DEFINE g == h \o c
<1>4. /\ g \in Seq(Line) /\ Len(g) = i + Len(c)
      /\ \A k \in 1 .. i + Len(c) : g[k] = IF k <= i THEN h[k] ELSE c[k - i]
  BY <1>2, ConcatProperties
<1> HIDE DEF g
<1> DEFINE n == g \o t
<1>5. /\ n \in Seq(Line) /\ Len(n) = Len(g) + Len(t)
      /\ \A k \in 1 .. Len(g) + Len(t) : n[k] = IF k <= Len(g) THEN g[k] ELSE t[k - Len(g)]
  BY <1>3, <1>4, ConcatProperties
<1> HIDE DEF n
<1>6. Len(n) = Len(b) + d
  BY <1>1, <1>3, <1>4, <1>5
<1>7. ASSUME NEW x \in 1 .. i
      PROVE  n[x] = b[x]
  <2>1. x \in 1 .. Len(g) + Len(t) /\ x <= Len(g) /\ x \in 1 .. i + Len(c) /\ x <= i
    BY <1>1, <1>3, <1>4
  <2> QED
    BY <2>1, <1>2, <1>4, <1>5
<1>8. ASSUME NEW k \in 1 .. Len(c)
      PROVE  n[i + k] = c[k]
  <2>1. /\ i + k \in 1 .. Len(g) + Len(t) /\ i + k <= Len(g)
        /\ i + k \in 1 .. i + Len(c) /\ ~(i + k <= i) /\ (i + k) - i = k
    BY <1>1, <1>3, <1>4
  <2>2. n[i + k] = g[i + k] /\ g[i + k] = c[(i + k) - i]
    BY <2>1, <1>4, <1>5
  <2> QED
    BY <2>1, <2>2
<1>9. ASSUME NEW y \in j .. Len(b)
      PROVE  n[y + d] = b[y]
  <2> DEFINE k == y - j + 1
  <2>1. /\ y + d \in 1 .. Len(g) + Len(t) /\ ~(y + d <= Len(g))
        /\ (y + d) - Len(g) = k /\ k \in 1 .. Len(b) - j + 1 /\ j + k - 1 = y
    BY <1>1, <1>3, <1>4
  <2>2. n[y + d] = t[(y + d) - Len(g)] /\ t[k] = b[j + k - 1]
    BY <2>1, <1>3, <1>5
  <2> QED
    BY <2>1, <2>2
<1>10. ASSUME NEW x \in 1 .. Len(n)
       PROVE  \/ x \in 1 .. i
              \/ \E k \in 1 .. Len(c) : x = i + k
              \/ \E y \in j .. Len(b) : x = y + d
  <2>1. CASE x <= i
    BY <2>1, <1>1, <1>6
  <2>2. CASE i < x /\ x <= i + Len(c)
    <3>1. x - i \in 1 .. Len(c) /\ x = i + (x - i)
      BY <2>2, <1>1, <1>6
    <3> QED
      BY <3>1
  <2>3. CASE i + Len(c) < x
    <3>1. x - d \in j .. Len(b) /\ x = (x - d) + d
      BY <2>3, <1>1, <1>6
    <3> QED
      BY <3>1
  <2> QED
    BY <2>1, <2>2, <2>3, <1>1
<1>11. Spliced(b, n, i, c, j)
  BY <1>5, <1>6, <1>7, <1>8, <1>9, <1>10 DEF Spliced, d
<1> QED
  BY <1>11 DEF n, g, h, t

\* The arithmetic of a splice.
Fits(b, next, i, c, j) ==
  /\ next \in Seq(Line) /\ Len(b) \in Nat /\ Len(c) \in Nat /\ Len(next) \in Nat
  /\ DOMAIN b = 1 .. Len(b) /\ DOMAIN next = 1 .. Len(next)
  /\ Shift(i, c, j) \in Int /\ i + Len(c) < j + Shift(i, c, j)
  /\ Len(next) = Len(b) + Shift(i, c, j)
  /\ \A x \in 1 .. i : x \in 1 .. Len(b) /\ x \in 1 .. Len(next)
  /\ \A k \in 1 .. Len(c) : i + k \in 1 .. Len(next)
  /\ \A y \in j .. Len(b) : y \in 1 .. Len(b) /\ y + Shift(i, c, j) \in 1 .. Len(next)

LEMMA SpliceFits ==
  ASSUME NEW b \in Seq(Line), NEW next, NEW c \in Seq(Line),
         NEW i \in Nat, NEW j \in Nat, i < j, j <= Len(b) + 1,
         Spliced(b, next, i, c, j)
  PROVE  Fits(b, next, i, c, j)
<1> DEFINE d == Shift(i, c, j)
<1>1. next \in Seq(Line) /\ Len(next) = Len(b) + d
  BY DEF Spliced
<1>2. /\ Len(b) \in Nat /\ Len(c) \in Nat /\ Len(next) \in Nat
      /\ DOMAIN b = 1 .. Len(b) /\ DOMAIN next = 1 .. Len(next)
  BY <1>1
<1>3. d \in Int /\ d = i + Len(c) + 1 - j
  BY <1>2 DEF Shift
<1> HIDE DEF d
<1>4. i + Len(c) < j + d
  BY <1>2, <1>3
<1>5. \A x \in 1 .. i : x \in 1 .. Len(b) /\ x \in 1 .. Len(next)
  BY <1>1, <1>2, <1>3
<1>6. \A k \in 1 .. Len(c) : i + k \in 1 .. Len(next)
  BY <1>1, <1>2, <1>3
<1>7. \A y \in j .. Len(b) : y \in 1 .. Len(b) /\ y + d \in 1 .. Len(next)
  BY <1>1, <1>2, <1>3
<1> QED
  BY <1>1, <1>2, <1>3, <1>4, <1>5, <1>6, <1>7 DEF Fits, d

\* A splice brings at most a new comment in and leaves each in its one place.
BringsNew(c) ==
  \A k \in 1 .. Len(c) : \A e \in DOMAIN Entry :
    c[k] = Text(Entry[e]) => k = Len(c) /\ ~(e <= made)

Holds(c, e) == \E k \in 1 .. Len(c) : c[k] = Text(Entry[e])

HasOnly(b, next, i, c, j) ==
  \A x \in DOMAIN next : \A e \in DOMAIN Entry :
    next[x] = Text(Entry[e]) =>
      \/ \E p \in DOMAIN b : /\ b[p] = Text(Entry[e]) /\ e <= made
                             /\ (p <= i \/ p >= j)
      \/ Holds(c, e)

LEMMA SplicedOnce ==
  ASSUME NEW b, NEW next, NEW c \in Seq(Line),
         NEW i \in Nat, NEW j \in Nat, i < j, j <= Len(b) + 1,
         Tracked(b), Spliced(b, next, i, c, j), BringsNew(c)
  PROVE  Once(next) /\ HasOnly(b, next, i, c, j)
<1> DEFINE d == Shift(i, c, j)
           From(x, e) ==
             \E p \in DOMAIN b : /\ b[p] = Text(Entry[e]) /\ e <= made
                                 /\ (p <= i /\ x = p) \/ (p >= j /\ x = p + d)
           New(x, e) == x = i + Len(c) /\ ~(e <= made) /\ Holds(c, e)
<1>1. b \in Seq(Line)
  BY DEF Tracked, Once
<1>2. /\ next \in Seq(Line) /\ Len(b) \in Nat /\ Len(c) \in Nat
      /\ DOMAIN b = 1 .. Len(b) /\ DOMAIN next = 1 .. Len(next)
      /\ d \in Int /\ i + Len(c) < j + d
      /\ \A x \in 1 .. i : x \in 1 .. Len(b)
      /\ \A y \in j .. Len(b) : y \in 1 .. Len(b)
  BY <1>1, SpliceFits DEF Fits
<1>3. ASSUME NEW x \in DOMAIN next, NEW e \in DOMAIN Entry, next[x] = Text(Entry[e])
      PROVE  From(x, e) \/ New(x, e)
  <2>1. ASSUME x \in 1 .. i
        PROVE  From(x, e)
    <3>1. next[x] = b[x]
      BY <2>1 DEF Spliced
    <3>2. x \in DOMAIN b /\ x <= i
      BY <2>1, <1>2
    <3>3. b[x] = Text(Entry[e])
      BY <3>1, <1>3
    <3>4. e <= made
      BY <3>2, <3>3 DEF Tracked
    <3> QED
      BY <3>2, <3>3, <3>4
  <2>2. ASSUME NEW k \in 1 .. Len(c), x = i + k
        PROVE  New(x, e)
    <3>1. next[i + k] = c[k]
      BY DEF Spliced
    <3> QED
      BY <2>2, <3>1, <1>3 DEF BringsNew, Holds
  <2>3. ASSUME NEW y \in j .. Len(b), x = y + d
        PROVE  From(x, e)
    <3>1. next[y + d] = b[y]
      BY DEF Spliced
    <3>2. y \in DOMAIN b /\ y >= j /\ b[y] = Text(Entry[e]) /\ e <= made
      BY <2>3, <3>1, <1>1, <1>2, <1>3 DEF Tracked
    <3> QED
      BY <3>2, <2>3
  <2>4. \/ x \in 1 .. i
        \/ \E k \in 1 .. Len(c) : x = i + k
        \/ \E y \in j .. Len(b) : x = y + d
    BY <1>2 DEF Spliced
  <2> HIDE DEF From, New
  <2> QED
    BY <2>1, <2>2, <2>3, <2>4
<1> HIDE DEF d
<1>4. ASSUME NEW e \in DOMAIN Entry, NEW x \in DOMAIN next, NEW y \in DOMAIN next,
             next[x] = Text(Entry[e]), next[y] = Text(Entry[e])
      PROVE  x = y
  <2>1. (From(x, e) /\ From(y, e)) \/ (New(x, e) /\ New(y, e))
    BY <1>3, <1>4
  <2>2. ASSUME From(x, e), From(y, e)
        PROVE  x = y
    <3>1. PICK p \in DOMAIN b : /\ b[p] = Text(Entry[e])
                                /\ (p <= i /\ x = p) \/ (p >= j /\ x = p + d)
      BY <2>2
    <3>2. PICK q \in DOMAIN b : /\ b[q] = Text(Entry[e])
                                /\ (q <= i /\ y = q) \/ (q >= j /\ y = q + d)
      BY <2>2
    <3>3. p = q
      BY <3>1, <3>2 DEF Tracked, Once
    <3> QED
      BY <3>1, <3>2, <3>3, <1>2
  <2> QED
    BY <2>1, <2>2
<1>5. Once(next)
  BY <1>2, <1>4 DEF Once
<1>6. ASSUME NEW x \in DOMAIN next, NEW e \in DOMAIN Entry, next[x] = Text(Entry[e])
      PROVE  \/ \E p \in DOMAIN b : /\ b[p] = Text(Entry[e]) /\ e <= made
                                    /\ (p <= i \/ p >= j)
             \/ Holds(c, e)
  BY <1>3, <1>6
<1> QED
  BY <1>5, <1>6 DEF HasOnly

\* One that brings none in keeps them tracked.
LEMMA SplicedTracked ==
  ASSUME NEW b, NEW next, NEW c \in Seq(Line),
         NEW i \in Nat, NEW j \in Nat, i < j, j <= Len(b) + 1,
         Tracked(b), Spliced(b, next, i, c, j),
         \A k \in 1 .. Len(c) : \A e \in DOMAIN Entry : c[k] # Text(Entry[e])
  PROVE  Tracked(next)
<1>1. BringsNew(c) /\ \A e \in DOMAIN Entry : ~Holds(c, e)
  BY DEF BringsNew, Holds
<1>2. Once(next) /\ HasOnly(b, next, i, c, j)
  BY <1>1, SplicedOnce
<1> QED
  BY <1>1, <1>2 DEF Tracked, HasOnly

------------------------------------------------------------------------------
(* The log under a splice *)

IsLogHeading(k) == k.level = 2 /\ k.text = Comments

LEMMA LogsAre ==
  ASSUME NEW b \in Seq(Line), NEW x
  PROVE  x \in Logs(b) <=> x \in 1 .. Len(b) /\ IsLogHeading(b[x])
BY DEF Logs, Sections, IsHeading, IsLogHeading, Level

\* The log is the section from the heading at l to e.
LogAt(b, l, e) == FirstOf(Logs(b), l) /\ IsEnd(b, l, e)

\* That b has its log at l, said of its lines alone.
LEMMA LogAtIs ==
  ASSUME NEW b \in Seq(Line), NEW l \in Nat, NEW e \in Nat
  PROVE  LogAt(b, l, e) <=>
           /\ l \in 1 .. Len(b) /\ IsLogHeading(b[l])
           /\ \A x \in 1 .. l - 1 : ~IsLogHeading(b[x])
           /\ e \in l + 1 .. Len(b) + 1
           /\ \A x \in l + 1 .. e - 1 : b[x].level \notin {1, 2}
           /\ e <= Len(b) => b[e].level \in {1, 2}
<1>1. FirstOf(Logs(b), l) <=>
        /\ l \in 1 .. Len(b) /\ IsLogHeading(b[l])
        /\ \A x \in 1 .. l - 1 : ~IsLogHeading(b[x])
  <2>1. ASSUME FirstOf(Logs(b), l), NEW x \in 1 .. l - 1, IsLogHeading(b[x])
        PROVE  FALSE
    <3>1. l \in 1 .. Len(b) /\ x \in 1 .. Len(b)
      BY <2>1, LogsAre DEF FirstOf
    <3>2. x \in Logs(b)
      BY <3>1, <2>1, LogsAre
    <3> QED
      BY <3>1, <3>2, <2>1 DEF FirstOf
  <2>2. ASSUME l \in 1 .. Len(b), \A x \in 1 .. l - 1 : ~IsLogHeading(b[x]),
               NEW x \in Logs(b)
        PROVE  l <= x
    <3>1. x \in 1 .. Len(b) /\ IsLogHeading(b[x])
      BY LogsAre
    <3> QED
      BY <3>1, <2>2
  <2> QED
    BY <2>1, <2>2, LogsAre DEF FirstOf
<1>2. ASSUME IsLogHeading(b[l]), l \in 1 .. Len(b)
      PROVE  IsEnd(b, l, e) <=>
               /\ e \in l + 1 .. Len(b) + 1
               /\ \A x \in l + 1 .. e - 1 : b[x].level \notin {1, 2}
               /\ e <= Len(b) => b[e].level \in {1, 2}
  <2>1. b[l].level = 2 /\ 1 .. 2 = {1, 2}
    BY <1>2 DEF IsLogHeading
  <2> QED
    BY <2>1 DEF IsEnd
<1> QED
  BY <1>1, <1>2 DEF LogAt

\* A splice before the log moves it,
LEMMA SpliceBefore ==
  ASSUME NEW b \in Seq(Line), NEW next, NEW c \in Seq(Line),
         NEW i \in Nat, NEW j \in Nat, i < j, j <= Len(b) + 1, Spliced(b, next, i, c, j),
         NEW l \in Nat, NEW e \in Nat, LogAt(b, l, e),
         j <= l, \A k \in 1 .. Len(c) : ~IsLogHeading(c[k])
  PROVE  LogAt(next, l + Shift(i, c, j), e + Shift(i, c, j))
<1> DEFINE d == Shift(i, c, j)
<1>1. /\ next \in Seq(Line) /\ Len(b) \in Nat /\ Len(c) \in Nat
      /\ d \in Int /\ i + Len(c) < j + d /\ Len(next) = Len(b) + d
      /\ \A x \in 1 .. i : x \in 1 .. Len(b)
      /\ \A y \in j .. Len(b) : y \in 1 .. Len(b) /\ y + d \in 1 .. Len(next)
  BY SpliceFits DEF Fits
<1>2. /\ \A x \in 1 .. i : next[x] = b[x]
      /\ \A k \in 1 .. Len(c) : next[i + k] = c[k]
      /\ \A y \in j .. Len(b) : next[y + d] = b[y]
      /\ \A x \in 1 .. Len(next) :
           \/ x \in 1 .. i
           \/ \E k \in 1 .. Len(c) : x = i + k
           \/ \E y \in j .. Len(b) : x = y + d
  BY DEF Spliced
<1> HIDE DEF d
<1>3. /\ l \in 1 .. Len(b) /\ IsLogHeading(b[l])
      /\ \A x \in 1 .. l - 1 : ~IsLogHeading(b[x])
      /\ e \in l + 1 .. Len(b) + 1
      /\ \A x \in l + 1 .. e - 1 : b[x].level \notin {1, 2}
      /\ e <= Len(b) => b[e].level \in {1, 2}
  BY LogAtIs
<1>4. l \in j .. Len(b) /\ l + d \in 1 .. Len(next) /\ IsLogHeading(next[l + d])
  BY <1>1, <1>2, <1>3
<1>5. ASSUME NEW x \in 1 .. (l + d) - 1
      PROVE  ~IsLogHeading(next[x])
  <2>1. x \in 1 .. Len(next) /\ x < l + d
    BY <1>1, <1>4
  <2>2. CASE x \in 1 .. i
    <3>1. x \in 1 .. l - 1
      BY <2>2, <1>3
    <3> QED
      BY <2>2, <3>1, <1>2, <1>3
  <2>3. ASSUME NEW k \in 1 .. Len(c), x = i + k
        PROVE  ~IsLogHeading(next[x])
    BY <2>3, <1>2
  <2>4. ASSUME NEW y \in j .. Len(b), x = y + d
        PROVE  ~IsLogHeading(next[x])
    <3>1. y \in 1 .. l - 1
      BY <2>1, <2>4, <1>1
    <3> QED
      BY <2>4, <3>1, <1>2, <1>3
  <2> QED
    BY <2>1, <2>2, <2>3, <2>4, <1>2
<1>6. e + d \in (l + d) + 1 .. Len(next) + 1
  BY <1>1, <1>3
<1>7. ASSUME NEW x \in (l + d) + 1 .. (e + d) - 1
      PROVE  next[x].level \notin {1, 2}
  <2> DEFINE y == x - d
  <2>1. y \in Int /\ x = y + d
    BY <1>1
  <2>2. y \in l + 1 .. e - 1
    BY <2>1, <1>1, <1>3
  <2>3. y \in j .. Len(b)
    BY <2>2, <1>1, <1>3, <1>4
  <2> HIDE DEF y
  <2>4. next[y + d] = b[y] /\ b[y].level \notin {1, 2}
    BY <2>2, <2>3, <1>2, <1>3
  <2> QED
    BY <2>1, <2>4
<1>8. e + d <= Len(next) => next[e + d].level \in {1, 2}
  <2> SUFFICES ASSUME e + d <= Len(next) PROVE next[e + d].level \in {1, 2}
    OBVIOUS
  <2>1. e \in j .. Len(b) /\ e <= Len(b)
    BY <1>1, <1>3, <1>4
  <2> QED
    BY <2>1, <1>2, <1>3
<1> DEFINE m == l + d
           f == e + d
<1>9. m \in Nat /\ f \in Nat
  <2>1. m \in Nat
    BY <1>4
  <2>2. f \in m + 1 .. Len(next) + 1
    BY <1>6
  <2> HIDE DEF m, f
  <2> QED
    BY <2>1, <2>2
<1>10. /\ m \in 1 .. Len(next) /\ IsLogHeading(next[m])
       /\ \A x \in 1 .. m - 1 : ~IsLogHeading(next[x])
       /\ f \in m + 1 .. Len(next) + 1
       /\ \A x \in m + 1 .. f - 1 : next[x].level \notin {1, 2}
       /\ f <= Len(next) => next[f].level \in {1, 2}
  BY <1>4, <1>5, <1>6, <1>7, <1>8
<1> HIDE DEF m, f
<1>11. LogAt(next, m, f)
  BY <1>1, <1>9, <1>10, LogAtIs
<1> QED
  BY <1>11 DEF m, f, d

\* one inside it stretches it or shortens it,
LEMMA SpliceInside ==
  ASSUME NEW b \in Seq(Line), NEW next, NEW c \in Seq(Line),
         NEW i \in Nat, NEW j \in Nat, i < j, j <= Len(b) + 1, Spliced(b, next, i, c, j),
         NEW l \in Nat, NEW e \in Nat, LogAt(b, l, e),
         l <= i, j <= e, \A k \in 1 .. Len(c) : c[k].level = 0
  PROVE  LogAt(next, l, e + Shift(i, c, j))
<1> DEFINE d == Shift(i, c, j)
<1>1. /\ next \in Seq(Line) /\ Len(b) \in Nat /\ Len(c) \in Nat
      /\ d \in Int /\ i + Len(c) < j + d /\ Len(next) = Len(b) + d
      /\ \A x \in 1 .. i : x \in 1 .. Len(b) /\ x \in 1 .. Len(next)
      /\ \A y \in j .. Len(b) : y \in 1 .. Len(b) /\ y + d \in 1 .. Len(next)
  BY SpliceFits DEF Fits
<1>2. /\ \A x \in 1 .. i : next[x] = b[x]
      /\ \A k \in 1 .. Len(c) : next[i + k] = c[k]
      /\ \A y \in j .. Len(b) : next[y + d] = b[y]
      /\ \A x \in 1 .. Len(next) :
           \/ x \in 1 .. i
           \/ \E k \in 1 .. Len(c) : x = i + k
           \/ \E y \in j .. Len(b) : x = y + d
  BY DEF Spliced
<1> HIDE DEF d
<1>3. /\ l \in 1 .. Len(b) /\ IsLogHeading(b[l])
      /\ \A x \in 1 .. l - 1 : ~IsLogHeading(b[x])
      /\ e \in l + 1 .. Len(b) + 1
      /\ \A x \in l + 1 .. e - 1 : b[x].level \notin {1, 2}
      /\ e <= Len(b) => b[e].level \in {1, 2}
  BY LogAtIs
<1>4. l \in 1 .. i /\ l \in 1 .. Len(next) /\ IsLogHeading(next[l])
  BY <1>1, <1>2, <1>3
<1>5. ASSUME NEW x \in 1 .. l - 1
      PROVE  ~IsLogHeading(next[x])
  <2>1. x \in 1 .. i
    BY <1>3
  <2> QED
    BY <2>1, <1>2, <1>3
<1>6. e + d \in l + 1 .. Len(next) + 1
  BY <1>1, <1>3
<1>7. ASSUME NEW x \in l + 1 .. (e + d) - 1
      PROVE  next[x].level \notin {1, 2}
  <2>1. x \in 1 .. Len(next)
    BY <1>1, <1>3, <1>6
  <2>2. CASE x \in 1 .. i
    <3>1. x \in l + 1 .. e - 1
      BY <2>2, <1>1, <1>3
    <3> QED
      BY <2>2, <3>1, <1>2, <1>3
  <2>3. ASSUME NEW k \in 1 .. Len(c), x = i + k
        PROVE  next[x].level \notin {1, 2}
    <3>1. next[i + k] = c[k] /\ c[k].level = 0
      BY <1>2
    <3> QED
      BY <2>3, <3>1
  <2>4. ASSUME NEW y \in j .. Len(b), x = y + d
        PROVE  next[x].level \notin {1, 2}
    <3>1. y \in l + 1 .. e - 1
      BY <2>4, <1>1, <1>3
    <3> QED
      BY <2>4, <3>1, <1>2, <1>3
  <2> QED
    BY <2>1, <2>2, <2>3, <2>4, <1>2
<1>8. e + d <= Len(next) => next[e + d].level \in {1, 2}
  <2> SUFFICES ASSUME e + d <= Len(next) PROVE next[e + d].level \in {1, 2}
    OBVIOUS
  <2>1. e \in j .. Len(b) /\ e <= Len(b)
    BY <1>1, <1>3
  <2> QED
    BY <2>1, <1>2, <1>3
<1> DEFINE f == e + d
<1>9. f \in Nat
  BY <1>6, <1>1
<1>10. /\ f \in l + 1 .. Len(next) + 1
       /\ \A x \in l + 1 .. f - 1 : next[x].level \notin {1, 2}
       /\ f <= Len(next) => next[f].level \in {1, 2}
  BY <1>6, <1>7, <1>8
<1> HIDE DEF f
<1>11. LogAt(next, l, f)
  BY <1>1, <1>4, <1>5, <1>9, <1>10, LogAtIs
<1> QED
  BY <1>11 DEF f, d

\* and one after it leaves it where it is.
LEMMA SpliceAfter ==
  ASSUME NEW b \in Seq(Line), NEW next, NEW c \in Seq(Line),
         NEW i \in Nat, NEW j \in Nat, i < j, j <= Len(b) + 1, Spliced(b, next, i, c, j),
         NEW l \in Nat, NEW e \in Nat, LogAt(b, l, e),
         e <= i \/ (e = i + 1 /\ Len(c) > 0 /\ c[1].level = 2)
  PROVE  LogAt(next, l, e)
<1>1. /\ next \in Seq(Line) /\ Len(b) \in Nat /\ Len(c) \in Nat /\ Len(next) \in Nat
      /\ \A x \in 1 .. i : x \in 1 .. Len(b) /\ x \in 1 .. Len(next)
      /\ \A k \in 1 .. Len(c) : i + k \in 1 .. Len(next)
  BY SpliceFits DEF Fits
<1>2. /\ \A x \in 1 .. i : next[x] = b[x]
      /\ \A k \in 1 .. Len(c) : next[i + k] = c[k]
  BY DEF Spliced
<1>3. /\ l \in 1 .. Len(b) /\ IsLogHeading(b[l])
      /\ \A x \in 1 .. l - 1 : ~IsLogHeading(b[x])
      /\ e \in l + 1 .. Len(b) + 1
      /\ \A x \in l + 1 .. e - 1 : b[x].level \notin {1, 2}
      /\ e <= Len(b) => b[e].level \in {1, 2}
  BY LogAtIs
<1>4. l \in 1 .. i /\ l \in 1 .. Len(next) /\ IsLogHeading(next[l])
  BY <1>1, <1>2, <1>3
<1>5. ASSUME NEW x \in 1 .. l - 1
      PROVE  ~IsLogHeading(next[x])
  <2>1. x \in 1 .. i
    BY <1>4
  <2> QED
    BY <2>1, <1>2, <1>3
<1>6. e \in 1 .. Len(next) /\ next[e].level \in {1, 2}
  <2>1. CASE e <= i
    <3>1. e \in 1 .. i /\ e <= Len(b)
      BY <2>1, <1>1, <1>3
    <3> QED
      BY <3>1, <1>1, <1>2, <1>3
  <2>2. CASE e = i + 1 /\ Len(c) > 0 /\ c[1].level = 2
    <3>1. 1 \in 1 .. Len(c)
      BY <2>2, <1>1
    <3> QED
      BY <2>2, <3>1, <1>1, <1>2
  <2> QED
    BY <2>1, <2>2
<1>7. ASSUME NEW x \in l + 1 .. e - 1
      PROVE  next[x].level \notin {1, 2}
  <2>1. x \in 1 .. i
    BY <1>3
  <2> QED
    BY <2>1, <1>2, <1>3
<1>8. e \in l + 1 .. Len(next) + 1
  BY <1>1, <1>3, <1>6
<1>9. /\ \A x \in 1 .. l - 1 : ~IsLogHeading(next[x])
      /\ \A x \in l + 1 .. e - 1 : next[x].level \notin {1, 2}
  BY <1>5, <1>7
<1>10. next \in Seq(Line)
  BY <1>1
<1> QED
  BY <1>4, <1>6, <1>8, <1>9, <1>10, LogAtIs
------------------------------------------------------------------------------
(* The order of the log *)

LEMMA LogLinesAt ==
  ASSUME NEW b \in Seq(Line), NEW l \in Nat, NEW e \in Nat, LogAt(b, l, e)
  PROVE  LogLines(b) = l + 1 .. e - 1
BY LogLinesAre DEF LogAt

\* A body with a log has it somewhere.
LEMMA LogIsSomewhere ==
  ASSUME NEW b \in Seq(Line), Logs(b) # {}
  PROVE  \E l, e \in Nat : LogAt(b, l, e)
<1>1. /\ FirstOf(Logs(b), Min(Logs(b)))
      /\ IsEnd(b, Min(Logs(b)), End(b, Min(Logs(b))))
      /\ Min(Logs(b)) \in DOMAIN b
  BY LogHasEnd
<1> DEFINE l == Min(Logs(b))
           e == End(b, l)
<1>2. l \in Nat /\ LogAt(b, l, e)
  BY <1>1 DEF LogAt
<1> HIDE DEF l, e
<1>3. e \in Nat
  BY <1>2 DEF LogAt, IsEnd
<1> QED
  BY <1>2, <1>3

LEMMA LogLinesIn ==
  ASSUME NEW b \in Seq(Line)
  PROVE  LogLines(b) \subseteq DOMAIN b
<1>1. CASE Logs(b) = {}
  BY <1>1 DEF LogLines
<1>2. CASE Logs(b) # {}
  <2>1. PICK l, e \in Nat : LogAt(b, l, e)
    BY <1>2, LogIsSomewhere
  <2>2. LogLines(b) = l + 1 .. e - 1 /\ e \in l + 1 .. Len(b) + 1
    BY <2>1, LogLinesAt, LogAtIs
  <2> QED
    BY <2>2
<1> QED
  BY <1>1, <1>2

\* Comments that go to places in the same order keep it.
LEMMA InOrderMoves ==
  ASSUME NEW b \in Seq(Line), NEW next, Once(next),
         NEW l \in SUBSET DOMAIN Entry, InOrder(b, l), NEW kept \in SUBSET l,
         NEW to \in [LogLines(b) -> Int],
         \A p \in LogLines(b) : \A e \in kept :
           b[p] = Text(Entry[e]) => to[p] \in LogLines(next) /\ next[to[p]] = b[p],
         \A p, q \in LogLines(b) : \A d, e \in kept :
           p < q /\ b[p] = Text(Entry[d]) /\ b[q] = Text(Entry[e]) => to[p] < to[q]
  PROVE  InOrder(next, kept)
<1>1. LogLines(next) \subseteq DOMAIN next /\ DOMAIN next \subseteq Nat
  BY LogLinesIn DEF Once
<1>2. LogLines(b) \subseteq Nat
  BY LogLinesIn
<1>3. ASSUME NEW e \in kept
      PROVE  \E p \in LogLines(b) :
               /\ b[p] = Text(Entry[e])
               /\ to[p] \in LogLines(next) /\ next[to[p]] = Text(Entry[e])
  <2>1. PICK p \in LogLines(b) : b[p] = Text(Entry[e])
    BY DEF InOrder
  <2> QED
    BY <2>1
<1>4. ASSUME NEW d \in kept, NEW e \in kept, NEW x \in LogLines(next), NEW y \in LogLines(next),
             next[x] = Text(Entry[d]), next[y] = Text(Entry[e])
      PROVE  x < y <=> d < e
  <2>1. PICK p \in LogLines(b) :
               /\ b[p] = Text(Entry[d])
               /\ to[p] \in LogLines(next) /\ next[to[p]] = Text(Entry[d])
    BY <1>3
  <2>2. PICK q \in LogLines(b) :
               /\ b[q] = Text(Entry[e])
               /\ to[q] \in LogLines(next) /\ next[to[q]] = Text(Entry[e])
    BY <1>3
  <2>3. x = to[p] /\ y = to[q]
    BY <2>1, <2>2, <1>1, <1>4 DEF Once
  <2>4. p < q <=> d < e
    BY <2>1, <2>2 DEF InOrder
  <2>5. (p < q => to[p] < to[q]) /\ (q < p => to[q] < to[p])
    BY <2>1, <2>2
  <2> QED
    BY <2>3, <2>4, <2>5, <1>1, <1>2
<1> QED
  BY <1>3, <1>4 DEF InOrder


------------------------------------------------------------------------------
(* The operators as splices *)

\* The rewriting of a section, and an extension of the body, are splices.
LEMMA RewrittenIs ==
  ASSUME NEW b \in Seq(Line), NEW i \in DOMAIN b, NEW c \in Seq(Line)
  PROVE  /\ i \in Nat /\ End(b, i) \in Nat /\ i < End(b, i) /\ End(b, i) <= Len(b) + 1
         /\ IsEnd(b, i, End(b, i))
         /\ Spliced(b, Rewritten(b, i, c), i, c, End(b, i))
<1> DEFINE e == End(b, i)
<1>1. IsEnd(b, i, e)
  BY EndIs
<1> HIDE DEF e
<1>2. i \in Nat /\ e \in Nat /\ i < e /\ e <= Len(b) + 1
  BY <1>1 DEF IsEnd
<1>3. Spliced(b, SubSeq(b, 1, i) \o c \o SubSeq(b, e, Len(b)), i, c, e)
  BY <1>2, SpliceIs
<1> QED
  BY <1>1, <1>2, <1>3 DEF Rewritten, e

LEMMA ExtendedIs ==
  ASSUME NEW b \in Seq(Line), NEW c \in Seq(Line)
  PROVE  /\ Len(b) \in Nat /\ Len(b) < Len(b) + 1 /\ Len(b) + 1 <= Len(b) + 1
         /\ Len(b) + 1 \in Nat
         /\ Spliced(b, b \o c, Len(b), c, Len(b) + 1)
<1> DEFINE n == b \o c
<1>1. /\ n \in Seq(Line) /\ Len(n) = Len(b) + Len(c)
      /\ \A x \in 1 .. Len(b) + Len(c) : n[x] = IF x <= Len(b) THEN b[x] ELSE c[x - Len(b)]
  BY ConcatProperties
<1> HIDE DEF n
<1>2. Len(b) \in Nat /\ Len(c) \in Nat
  OBVIOUS
<1>3. Shift(Len(b), c, Len(b) + 1) = Len(c)
  BY <1>2 DEF Shift
<1>4. ASSUME NEW k \in 1 .. Len(c)
      PROVE  n[Len(b) + k] = c[k]
  <2>1. Len(b) + k \in 1 .. Len(b) + Len(c) /\ ~(Len(b) + k <= Len(b)) /\ (Len(b) + k) - Len(b) = k
    BY <1>2
  <2> QED
    BY <2>1, <1>1
<1>5. ASSUME NEW x \in 1 .. Len(n)
      PROVE  x \in 1 .. Len(b) \/ \E k \in 1 .. Len(c) : x = Len(b) + k
  <2>1. CASE Len(b) < x
    <3>1. x - Len(b) \in 1 .. Len(c) /\ x = Len(b) + (x - Len(b))
      BY <2>1, <1>1, <1>2
    <3> QED
      BY <3>1
  <2> QED
    BY <2>1, <1>1, <1>2
<1>6. \A x \in 1 .. Len(b) : n[x] = b[x]
  BY <1>1, <1>2
<1>7. Len(b) + 1 .. Len(b) = {}
  BY <1>2
<1>8. Spliced(b, n, Len(b), c, Len(b) + 1)
  BY <1>1, <1>3, <1>4, <1>5, <1>6, <1>7 DEF Spliced
<1> QED
  BY <1>2, <1>8 DEF n

LEMMA Pieces ==
  ASSUME NEW k \in Line, NEW m \in Line
  PROVE  /\ <<k>> \in Seq(Line) /\ Len(<<k>>) = 1 /\ <<k>>[1] = k
         /\ <<k, m>> \in Seq(Line) /\ Len(<<k, m>>) = 2 /\ <<k, m>>[1] = k /\ <<k, m>>[2] = m
OBVIOUS


------------------------------------------------------------------------------
(* The reason under a splice *)

IsReasonHeading(k) == k.level \in Level /\ k.text = CancellationReason

LEMMA ReasonsAre ==
  ASSUME NEW b \in Seq(Line), NEW x
  PROVE  x \in Sections(b, CancellationReason) <=> x \in 1 .. Len(b) /\ IsReasonHeading(b[x])
BY DEF Sections, IsHeading, IsReasonHeading

\* The first section for the reason begins at r, and line follows its heading.
ReasonAt(b, r, line) ==
  /\ r \in 1 .. Len(b) /\ IsReasonHeading(b[r])
  /\ \A x \in 1 .. r - 1 : ~IsReasonHeading(b[x])
  /\ r + 1 \in 1 .. Len(b) /\ b[r + 1] = line

\* The reason that opens its section, said of the lines alone.
LEMMA OpensIs ==
  ASSUME NEW b \in Seq(Line), NEW line
  PROVE  Opens(b, line) <=> \E r \in Nat : ReasonAt(b, r, line)
<1>1. ASSUME Opens(b, line)
      PROVE  \E r \in Nat : ReasonAt(b, r, line)
  <2>1. PICK r \in Sections(b, CancellationReason) :
          /\ \A k \in Sections(b, CancellationReason) : r <= k
          /\ r + 1 \in DOMAIN b /\ b[r + 1] = line
    BY <1>1 DEF Opens
  <2>2. r \in 1 .. Len(b) /\ IsReasonHeading(b[r])
    BY ReasonsAre
  <2>3. ASSUME NEW x \in 1 .. r - 1, IsReasonHeading(b[x])
        PROVE  FALSE
    <3>1. x \in 1 .. Len(b)
      BY <2>2
    <3>2. x \in Sections(b, CancellationReason)
      BY <3>1, <2>3, ReasonsAre
    <3> QED
      BY <2>1, <2>2, <3>1, <3>2
  <2> QED
    BY <2>1, <2>2, <2>3 DEF ReasonAt
<1>2. ASSUME NEW r \in Nat, ReasonAt(b, r, line)
      PROVE  Opens(b, line)
  <2>1. r \in Sections(b, CancellationReason)
    BY <1>2, ReasonsAre DEF ReasonAt
  <2>2. ASSUME NEW k \in Sections(b, CancellationReason)
        PROVE  r <= k
    <3>1. k \in 1 .. Len(b) /\ IsReasonHeading(b[k])
      BY ReasonsAre
    <3> QED
      BY <3>1, <1>2 DEF ReasonAt
  <2>3. r + 1 \in DOMAIN b /\ b[r + 1] = line
    BY <1>2 DEF ReasonAt
  <2> QED
    BY <2>1, <2>2, <2>3 DEF Opens
<1> QED
  BY <1>1, <1>2

\* A splice that keeps clear of the reason's first two lines keeps it in its
\* place, if it brings no other section for a reason in.
LEMMA ReasonMoves ==
  ASSUME NEW b \in Seq(Line), NEW next, NEW c \in Seq(Line),
         NEW i \in Nat, NEW j \in Nat, i < j, j <= Len(b) + 1, Spliced(b, next, i, c, j),
         NEW r \in Nat, NEW line, ReasonAt(b, r, line), r + 1 <= i \/ j <= r,
         \A k \in 1 .. Len(c) : ~IsReasonHeading(c[k])
  PROVE  Opens(next, line)
<1> DEFINE d == Shift(i, c, j)
<1>1. /\ next \in Seq(Line) /\ Len(b) \in Nat /\ Len(c) \in Nat /\ Len(next) \in Nat
      /\ d \in Int /\ i + Len(c) < j + d /\ Len(next) = Len(b) + d
      /\ \A x \in 1 .. i : x \in 1 .. Len(b) /\ x \in 1 .. Len(next)
      /\ \A y \in j .. Len(b) : y \in 1 .. Len(b) /\ y + d \in 1 .. Len(next)
  <2>1. Fits(b, next, i, c, j)
    BY SpliceFits
  <2> QED
    BY <2>1 DEF Fits
<1>2. /\ \A x \in 1 .. i : next[x] = b[x]
      /\ \A k \in 1 .. Len(c) : next[i + k] = c[k]
      /\ \A y \in j .. Len(b) : next[y + d] = b[y]
      /\ \A x \in 1 .. Len(next) :
           \/ x \in 1 .. i
           \/ \E k \in 1 .. Len(c) : x = i + k
           \/ \E y \in j .. Len(b) : x = y + d
  BY DEF Spliced
<1> HIDE DEF d
<1>3. /\ r \in 1 .. Len(b) /\ IsReasonHeading(b[r])
      /\ \A x \in 1 .. r - 1 : ~IsReasonHeading(b[x])
      /\ r + 1 \in 1 .. Len(b) /\ b[r + 1] = line
  BY DEF ReasonAt
<1>4. CASE r + 1 <= i
  <2>1. r \in 1 .. i /\ r + 1 \in 1 .. i
    BY <1>3, <1>4
  <2>2. ASSUME NEW x \in 1 .. r - 1
        PROVE  ~IsReasonHeading(next[x])
    <3>1. x \in 1 .. i
      BY <2>1
    <3> QED
      BY <3>1, <1>2, <1>3
  <2>3. ReasonAt(next, r, line)
    BY <2>1, <2>2, <1>1, <1>2, <1>3 DEF ReasonAt
  <2> QED
    BY <2>3, <1>1, OpensIs
<1>5. CASE j <= r
  <2> DEFINE m == r + d
  <2>1. r \in j .. Len(b) /\ r + 1 \in j .. Len(b) /\ (r + 1) + d = m + 1
    BY <1>1, <1>3, <1>5
  <2>2. m \in 1 .. Len(next) /\ m + 1 \in 1 .. Len(next)
    BY <2>1, <1>1
  <2>3. next[m] = b[r] /\ next[m + 1] = line
    <3>1. next[(r + 1) + d] = b[r + 1]
      BY <2>1, <1>2
    <3> QED
      BY <2>1, <3>1, <1>2, <1>3
  <2>4. ASSUME NEW x \in 1 .. m - 1
        PROVE  ~IsReasonHeading(next[x])
    <3>1. x \in 1 .. Len(next) /\ x < r + d
      BY <2>2, <1>1
    <3>2. ASSUME x \in 1 .. i
          PROVE  ~IsReasonHeading(next[x])
      <4>1. x \in 1 .. r - 1
        BY <3>2, <1>5
      <4> QED
        BY <3>2, <4>1, <1>2, <1>3
    <3>3. ASSUME NEW k \in 1 .. Len(c), x = i + k
          PROVE  ~IsReasonHeading(next[x])
      <4>1. next[i + k] = c[k]
        BY <1>2
      <4> QED
        BY <3>3, <4>1
    <3>4. ASSUME NEW y \in j .. Len(b), x = y + d
          PROVE  ~IsReasonHeading(next[x])
      <4>1. y \in 1 .. r - 1
        BY <3>1, <3>4, <1>1
      <4> QED
        BY <3>4, <4>1, <1>2, <1>3
    <3> QED
      BY <3>1, <3>2, <3>3, <3>4, <1>2
  <2> HIDE DEF m
  <2>5. ReasonAt(next, m, line)
    BY <2>2, <2>3, <2>4, <1>3 DEF ReasonAt
  <2>6. m \in Nat
    BY <2>2
  <2> QED
    BY <2>5, <2>6, <1>1, OpensIs
<1> QED
  BY <1>4, <1>5

------------------------------------------------------------------------------
(* task comment *)

\* Without a log there is no comment in it.
LEMMA NoLogNoComments ==
  ASSUME NEW b, Logs(b) = {}, NEW l, InOrder(b, l)
  PROVE  l = {}
BY DEF InOrder, LogLines

LEMMA NothingIsInOrder == \A b : InOrder(b, {})
BY DEF InOrder

\* The new comment is inserted where the log ends, or it begins a log.
LEMMA AppendedIs ==
  ASSUME NEW b \in Seq(Line), NEW t, Text(t) \in Line
  PROVE  \/ /\ Logs(b) = {}
            /\ Spliced(b, Appended(b, t), Len(b), <<HeadingLine(2, Comments), Text(t)>>, Len(b) + 1)
         \/ \E l, e \in Nat : /\ LogAt(b, l, e)
                              /\ Spliced(b, Appended(b, t), e - 1, <<Text(t)>>, e)
<1> DEFINE k == Text(t)
           next == Appended(b, t)
<1>1. HeadingLine(2, Comments) \in Line
  BY Lines
<1>2. CASE Logs(b) = {}
  <2>1. Spliced(b, b \o <<HeadingLine(2, Comments), k>>, Len(b), <<HeadingLine(2, Comments), k>>, Len(b) + 1)
    BY <1>1, Pieces, ExtendedIs
  <2> QED
    BY <1>2, <2>1 DEF Appended
<1>3. CASE Logs(b) # {}
  <2> DEFINE l == Min(Logs(b))
             e == End(b, l)
             said == SectionContent(b, l)
             c == said \o <<k>>
  <2>1. l \in DOMAIN b /\ LogAt(b, l, e)
    BY <1>3, LogHasEnd DEF LogAt
  <2>2. next = Rewritten(b, l, c)
    BY <1>3 DEF Appended
  <2> HIDE DEF l, e, next
  <2>3. e \in l + 1 .. Len(b) + 1 /\ l \in 1 .. Len(b) /\ Len(b) \in Nat
    BY <2>1 DEF LogAt, IsEnd
  <2>4. said = SubSeq(b, l + 1, e - 1)
    BY DEF SectionContent, e
  <2>5. /\ said \in Seq(Line) /\ Len(said) = e - 1 - l
        /\ \A x \in 1 .. e - 1 - l : said[x] = b[l + x]
    <3>1. \A x \in l + 1 .. e - 1 : b[x] \in Line
      BY <2>3
    <3>2. /\ SubSeq(b, l + 1, e - 1) \in Seq(Line)
          /\ Len(SubSeq(b, l + 1, e - 1)) = IF l + 1 <= e - 1 THEN (e - 1) - (l + 1) + 1 ELSE 0
          /\ \A x \in 1 .. (e - 1) - (l + 1) + 1 : SubSeq(b, l + 1, e - 1)[x] = b[(l + 1) + x - 1]
      BY <2>3, <3>1, SubSeqProperties
    <3>3. (e - 1) - (l + 1) + 1 = e - 1 - l /\ \A x \in 1 .. e - 1 - l : (l + 1) + x - 1 = l + x
      BY <2>3
    <3>4. Len(SubSeq(b, l + 1, e - 1)) = e - 1 - l
      BY <3>2, <2>3
    <3> QED
      BY <2>4, <3>2, <3>3, <3>4
  <2> HIDE DEF said
  <2>6. /\ c \in Seq(Line) /\ Len(c) = e - l
        /\ \A x \in 1 .. e - 1 - l : c[x] = b[l + x]
        /\ c[e - l] = k
    <3>1. <<k>> \in Seq(Line) /\ Len(<<k>>) = 1 /\ <<k>>[1] = k
      BY Pieces
    <3>2. /\ c \in Seq(Line) /\ Len(c) = Len(said) + 1
          /\ \A x \in 1 .. Len(said) + 1 : c[x] = IF x <= Len(said) THEN said[x] ELSE <<k>>[x - Len(said)]
      BY <2>5, <3>1, ConcatProperties
    <3>3. Len(said) + 1 = e - l /\ e - l \in 1 .. Len(said) + 1 /\ ~(e - l <= Len(said)) /\ (e - l) - Len(said) = 1
      BY <2>3, <2>5
    <3>4. c[e - l] = <<k>>[(e - l) - Len(said)]
      BY <3>2, <3>3
    <3>5. \A x \in 1 .. e - 1 - l : x \in 1 .. Len(said) + 1 /\ x <= Len(said)
      BY <2>3, <2>5
    <3> QED
      BY <3>1, <3>2, <3>3, <3>4, <3>5, <2>5
  <2> HIDE DEF c
  <2>7. Spliced(b, next, l, c, e)
    BY <2>1, <2>2, <2>6, RewrittenIs DEF e
  <2>8. l \in Nat /\ e \in Nat /\ l < e /\ e <= Len(b) + 1
    BY <2>3
  <2>9. Shift(l, c, e) = 1 /\ Shift(e - 1, <<k>>, e) = 1
    BY <2>6, <2>3 DEF Shift
  <2>10. /\ next \in Seq(Line) /\ Len(next) = Len(b) + 1
         /\ \A x \in 1 .. l : next[x] = b[x]
         /\ \A x \in 1 .. e - l : next[l + x] = c[x]
         /\ \A y \in e .. Len(b) : next[y + 1] = b[y]
    BY <2>6, <2>7, <2>9 DEF Spliced
  <2>11. ASSUME NEW x \in 1 .. e - 1
         PROVE  next[x] = b[x]
    <3>1. CASE x <= l
      BY <3>1, <2>10, <2>3
    <3>2. CASE l < x
      <4>1. x - l \in 1 .. e - l /\ x - l \in 1 .. e - 1 - l /\ l + (x - l) = x
        BY <3>2, <2>3
      <4>2. next[l + (x - l)] = c[x - l] /\ c[x - l] = b[l + (x - l)]
        BY <4>1, <2>6, <2>10
      <4> QED
        BY <4>1, <4>2
    <3> QED
      BY <3>1, <3>2, <2>3
  <2>12. next[(e - 1) + 1] = k
    <3>1. e - l \in 1 .. e - l /\ l + (e - l) = (e - 1) + 1
      BY <2>3
    <3> QED
      BY <3>1, <2>6, <2>10
  <2>13. ASSUME NEW x \in 1 .. Len(next)
         PROVE  \/ x \in 1 .. e - 1
                \/ x = (e - 1) + 1
                \/ \E y \in e .. Len(b) : x = y + 1
    <3>1. CASE e < x
      <4>1. x - 1 \in e .. Len(b) /\ x = (x - 1) + 1
        BY <3>1, <2>3, <2>10
      <4> QED
        BY <4>1
    <3> QED
      BY <3>1, <2>3
  <2>14. Len(<<k>>) = 1 /\ <<k>>[1] = k /\ 1 .. 1 = {1}
    OBVIOUS
  <2>15. Spliced(b, next, e - 1, <<k>>, e)
    BY <2>9, <2>10, <2>11, <2>12, <2>13, <2>14 DEF Spliced
  <2> QED
    BY <2>1, <2>8, <2>15 DEF next
<1> QED
  BY <1>2, <1>3


\* The arithmetic of the places that the log's comments keep.
LEMMA SameLines ==
  ASSUME NEW b \in Seq(Line), NEW next \in Seq(Line), Once(next),
         NEW l \in Nat, NEW e \in Nat, NEW m \in Nat, NEW f \in Nat,
         LogAt(b, l, e), LogAt(next, m, f),
         NEW s \in SUBSET DOMAIN Entry, InOrder(b, s), NEW kept \in SUBSET s,
         NEW d \in Int, m = l + d, e + d <= f,
         \A p \in l + 1 .. e - 1 : next[p + d] = b[p]
  PROVE  InOrder(next, kept)
<1>1. LogLines(b) = l + 1 .. e - 1 /\ LogLines(next) = m + 1 .. f - 1
  BY LogLinesAt
<1> DEFINE to == [p \in LogLines(b) |-> p + d]
<1>2. to \in [LogLines(b) -> Int] /\ \A p \in LogLines(b) : to[p] = p + d
  BY <1>1
<1> HIDE DEF to
<1>3. \A p \in LogLines(b) : to[p] \in LogLines(next) /\ next[to[p]] = b[p]
  BY <1>1, <1>2
<1>4. \A p, q \in LogLines(b) : p < q => to[p] < to[q]
  BY <1>1, <1>2
<1> QED
  BY <1>2, <1>3, <1>4, InOrderMoves

\* task comment: the log has the comments it had and, after them, the new one.
LEMMA AppendedKeepsLog ==
  ASSUME NEW b, Tracked(b), NEW comments \in SUBSET DOMAIN Entry, InOrder(b, comments),
         made \in Nat, \A d \in comments : d <= made,
         NEW n \in DOMAIN Entry, n = made + 1
  PROVE  /\ InOrder(Appended(b, Entry[n]), comments \cup {n})
         /\ Once(Appended(b, Entry[n]))
         /\ \A x \in DOMAIN Appended(b, Entry[n]) : \A d \in DOMAIN Entry :
              Appended(b, Entry[n])[x] = Text(Entry[d]) => d <= n
<1> DEFINE t == Entry[n]
           next == Appended(b, t)
<1>1. n \in Nat /\ ~(n <= made)
  OBVIOUS
<1>2. b \in Seq(Line)
  BY DEF Tracked, Once
<1>3. Text(t) \in Line /\ HeadingLine(2, Comments) \in Line
  BY <1>1, Lines
<1>4. \A d \in DOMAIN Entry : Text(t) = Text(Entry[d]) => d = n
  BY <1>1, EntriesDiffer
<1>5. \A d \in DOMAIN Entry : HeadingLine(2, Comments) # Text(Entry[d])
  BY Lines
<1> HIDE DEF t, next
<1> DEFINE After == /\ InOrder(next, comments \cup {n}) /\ Once(next)
                    /\ \A x \in DOMAIN next : \A d \in DOMAIN Entry :
                         next[x] = Text(Entry[d]) => d <= n
<1>6. CASE /\ Logs(b) = {}
           /\ Spliced(b, next, Len(b), <<HeadingLine(2, Comments), Text(t)>>, Len(b) + 1)
  <2> DEFINE c == <<HeadingLine(2, Comments), Text(t)>>
             i == Len(b)
             j == Len(b) + 1
  <2>1. c \in Seq(Line) /\ Len(c) = 2 /\ c[1] = HeadingLine(2, Comments) /\ c[2] = Text(t)
    BY <1>3, Pieces
  <2> HIDE DEF c
  <2>2. i \in Nat /\ j \in Nat /\ i < j /\ j <= Len(b) + 1 /\ j = i + 1 /\ i = Len(b)
    BY <1>2
  <2>3. Spliced(b, next, i, c, j)
    BY <1>6 DEF c
  <2> HIDE DEF i, j
  <2>4. BringsNew(c) /\ \A d \in DOMAIN Entry : Holds(c, d) => d = n
    <3>1. \A k \in 1 .. Len(c) : k = 1 \/ k = 2
      BY <2>1
    <3>2. ~(n <= made)
      BY <1>1
    <3> QED
      BY <2>1, <3>1, <3>2, <1>4, <1>5 DEF BringsNew, Holds
  <2>5. Once(next) /\ HasOnly(b, next, i, c, j)
    BY <1>2, <2>1, <2>2, <2>3, <2>4, SplicedOnce
  <2>6. \A x \in DOMAIN next : \A d \in DOMAIN Entry : next[x] = Text(Entry[d]) => d <= n
    BY <2>4, <2>5, <1>1, EntriesDiffer DEF HasOnly
  <2>7. /\ next \in Seq(Line) /\ Shift(i, c, j) = 2 /\ Len(next) = i + 2
        /\ \A x \in 1 .. i : next[x] = b[x]
        /\ next[i + 1] = c[1] /\ next[i + 2] = c[2]
    <3>1. Shift(i, c, j) = 2
      BY <2>1, <2>2 DEF Shift
    <3>2. 1 \in 1 .. Len(c) /\ 2 \in 1 .. Len(c)
      BY <2>1
    <3> QED
      BY <2>2, <2>3, <3>1, <3>2 DEF Spliced
  <2>8. LogAt(next, i + 1, i + 3)
    <3>1. \A x \in 1 .. i : ~IsLogHeading(next[x])
      BY <1>2, <1>6, <2>2, <2>7, LogsAre
    <3>2. IsLogHeading(c[1]) /\ c[2].level = 0
      BY <2>1, <1>1, Lines DEF IsLogHeading, HeadingLine, t, Text
    <3> DEFINE m == i + 1
               f == i + 3
    <3>3. /\ m \in 1 .. Len(next) /\ IsLogHeading(next[m])
          /\ \A x \in 1 .. m - 1 : ~IsLogHeading(next[x])
          /\ f \in m + 1 .. Len(next) + 1
          /\ \A x \in m + 1 .. f - 1 : next[x].level \notin {1, 2}
          /\ ~(f <= Len(next)) /\ m \in Nat /\ f \in Nat
      <4>1. \A x \in m + 1 .. f - 1 : x = i + 2
        BY <2>2
      <4>2. m - 1 = i
        BY <2>2
      <4> QED
        BY <2>2, <2>7, <3>1, <3>2, <4>1, <4>2
    <3> HIDE DEF m, f
    <3>4. LogAt(next, m, f)
      BY <3>3, <2>7, LogAtIs
    <3> QED
      BY <3>4 DEF m, f
  <2>9. LogLines(next) = {i + 2}
    <3>1. LogLines(next) = (i + 1) + 1 .. (i + 3) - 1
      BY <2>2, <2>7, <2>8, LogLinesAt
    <3> QED
      BY <3>1, <2>2
  <2>10. comments = {}
    BY <1>2, <1>6, NoLogNoComments
  <2>11. InOrder(next, comments \cup {n})
    <3>1. next[i + 2] = Text(Entry[n]) /\ i + 2 \in Nat
      BY <2>1, <2>2, <2>7 DEF t
    <3> QED
      BY <3>1, <2>9, <2>10, <1>1 DEF InOrder
  <2>12. After
    BY <2>5, <2>6, <2>11
  <2> QED
    BY <2>12 DEF next, t
<1>7. CASE \E l, e \in Nat : LogAt(b, l, e) /\ Spliced(b, next, e - 1, <<Text(t)>>, e)
  <2>1. PICK l \in Nat, e \in Nat : LogAt(b, l, e) /\ Spliced(b, next, e - 1, <<Text(t)>>, e)
    BY <1>7
  <2> DEFINE c == <<Text(t)>>
             i == e - 1
  <2>2. c \in Seq(Line) /\ Len(c) = 1 /\ c[1] = Text(t)
    BY <1>3, Pieces
  <2> HIDE DEF c
  <2>3. l \in 1 .. Len(b) /\ e \in l + 1 .. Len(b) + 1 /\ Len(b) \in Nat
    BY <1>2, <2>1, LogAtIs
  <2>4. i \in Nat /\ i < e /\ e <= Len(b) + 1 /\ l <= i /\ i + 1 = e
    BY <2>3
  <2>5. Spliced(b, next, i, c, e)
    BY <2>1 DEF c
  <2> HIDE DEF i
  <2>6. \A k \in 1 .. Len(c) : k = 1
    BY <2>2
  <2>7. BringsNew(c) /\ \A d \in DOMAIN Entry : Holds(c, d) => d = n
    <3>1. ~(n <= made)
      BY <1>1
    <3> QED
      BY <2>2, <2>6, <3>1, <1>4 DEF BringsNew, Holds
  <2>8. Once(next) /\ HasOnly(b, next, i, c, e)
    BY <1>2, <2>2, <2>4, <2>5, <2>7, SplicedOnce
  <2>9. \A x \in DOMAIN next : \A d \in DOMAIN Entry : next[x] = Text(Entry[d]) => d <= n
    BY <2>7, <2>8, <1>1, EntriesDiffer DEF HasOnly
  <2>10. /\ next \in Seq(Line) /\ Shift(i, c, e) = 1
         /\ \A x \in 1 .. i : next[x] = b[x]
         /\ next[e] = Text(t)
    <3>1. Shift(i, c, e) = 1
      BY <2>2, <2>4 DEF Shift
    <3>2. 1 \in 1 .. Len(c)
      BY <2>2
    <3>3. next[i + 1] = c[1]
      BY <2>5, <3>2 DEF Spliced
    <3> QED
      BY <2>2, <2>4, <2>5, <3>1, <3>3 DEF Spliced
  <2>11. LogAt(next, l, e + 1)
    <3>1. \A k \in 1 .. Len(c) : c[k].level = 0
      BY <2>2, <2>6, <1>1, Lines DEF t, Text
    <3>2. LogAt(next, l, e + Shift(i, c, e))
      BY <1>2, <2>1, <2>2, <2>4, <2>5, <3>1, SpliceInside
    <3> QED
      BY <3>2, <2>10
  <2>12. InOrder(next, comments)
    <3> DEFINE z == 0
               f == e + 1
    <3>1. ASSUME NEW p \in l + 1 .. e - 1
          PROVE  next[p + z] = b[p]
      <4>1. p + 0 = p /\ p \in 1 .. e - 1
        BY <2>3
      <4> QED
        BY <4>1, <2>3, <2>4, <2>10
    <3>2. f \in Nat /\ e + z <= f /\ l = l + z /\ z \in Int /\ LogAt(next, l, f)
      BY <2>3, <2>11
    <3> HIDE DEF z, f
    <3>3. Once(next) /\ next \in Seq(Line) /\ LogAt(b, l, e)
      BY <2>1, <2>5, <2>8, <2>10
    <3> QED
      BY <3>1, <3>2, <3>3, <1>2, SameLines
  <2>13. LogLines(next) = l + 1 .. e
    <3>1. LogLines(next) = l + 1 .. (e + 1) - 1
      BY <2>3, <2>10, <2>11, LogLinesAt
    <3> QED
      BY <3>1, <2>3
  <2>14. ASSUME NEW d \in comments, NEW x \in LogLines(next), next[x] = Text(Entry[d])
         PROVE  x < e
    <3>1. d # n /\ d \in DOMAIN Entry
      BY <1>1
    <3>2. x # e
      BY <3>1, <2>10, <2>14, <1>4
    <3> QED
      BY <3>2, <2>13, <2>3
  <2>15. \A x \in LogLines(next) : next[x] = Text(Entry[n]) => x = e
    <3>1. next[e] = Text(Entry[n]) /\ e \in LogLines(next)
      BY <2>3, <2>10, <2>13 DEF t
    <3>2. LogLines(next) \subseteq DOMAIN next
      BY <2>10, LogLinesIn
    <3> QED
      BY <3>1, <3>2, <2>8, <1>1 DEF Once
  <2>16. InOrder(next, comments \cup {n})
    <3>1. \A d \in comments \cup {n} : \E x \in LogLines(next) : next[x] = Text(Entry[d])
      <4>1. next[e] = Text(Entry[n]) /\ e \in LogLines(next)
        BY <2>3, <2>10, <2>13 DEF t
      <4> QED
        BY <4>1, <2>12 DEF InOrder
    <3>2. ASSUME NEW d \in comments \cup {n}, NEW g \in comments \cup {n},
                 NEW x \in LogLines(next), NEW y \in LogLines(next),
                 next[x] = Text(Entry[d]), next[y] = Text(Entry[g])
          PROVE  x < y <=> d < g
      <4>1. CASE d \in comments /\ g \in comments
        BY <3>2, <4>1, <2>12 DEF InOrder
      <4>2. CASE d \in comments /\ g = n
        <5>1. x < e /\ y = e /\ d <= made /\ d \in Nat
          BY <3>2, <4>2, <2>14, <2>15, <1>1, EntriesDiffer
        <5> QED
          BY <5>1, <4>2, <1>1
      <4>3. CASE d = n /\ g \in comments
        <5>1. y < e /\ x = e /\ g <= made /\ g \in Nat /\ y \in Nat
          BY <3>2, <4>3, <2>13, <2>14, <2>15, <2>3, <1>1, EntriesDiffer
        <5> QED
          BY <5>1, <4>3, <1>1
      <4>4. CASE d = n /\ g = n
        <5>1. x = e /\ y = e
          BY <3>2, <4>4, <2>15
        <5> QED
          BY <5>1, <4>4, <2>3, <1>1
      <4> QED
        BY <3>2, <4>1, <4>2, <4>3, <4>4
    <3> QED
      BY <3>1, <3>2 DEF InOrder
  <2>17. After
    BY <2>8, <2>9, <2>16
  <2> QED
    BY <2>17 DEF next, t
<1> QED
  BY <1>2, <1>3, <1>6, <1>7, AppendedIs DEF next

\* task comment: it leaves the reason where it is.
LEMMA AppendedKeepsReason ==
  ASSUME NEW b \in Seq(Line), NEW n \in DOMAIN Entry, NEW line, line.level = 0,
         Opens(b, line)
  PROVE  Opens(Appended(b, Entry[n]), line)
<1> DEFINE t == Entry[n]
           next == Appended(b, t)
<1>1. Text(t).level = 0 /\ Text(t) \in Line /\ HeadingLine(2, Comments) \in Line
  BY Lines DEF Text
<1>2. PICK r \in Nat : ReasonAt(b, r, line)
  BY OpensIs
<1>3. ~IsReasonHeading(Text(t)) /\ ~IsReasonHeading(HeadingLine(2, Comments))
  BY <1>1 DEF IsReasonHeading, Level, HeadingLine, Comments, CancellationReason
<1>4. r \in 1 .. Len(b) /\ r + 1 \in 1 .. Len(b) /\ b[r + 1] = line /\ Len(b) \in Nat
  BY <1>2 DEF ReasonAt
<1> HIDE DEF t, next
<1>5. CASE Spliced(b, next, Len(b), <<HeadingLine(2, Comments), Text(t)>>, Len(b) + 1)
  <2> DEFINE c == <<HeadingLine(2, Comments), Text(t)>>
             i == Len(b)
             j == Len(b) + 1
  <2>1. c \in Seq(Line) /\ Len(c) = 2 /\ c[1] = HeadingLine(2, Comments) /\ c[2] = Text(t)
    BY <1>1, Pieces
  <2> HIDE DEF c
  <2>2. \A k \in 1 .. Len(c) : ~IsReasonHeading(c[k])
    <3>1. \A k \in 1 .. Len(c) : k = 1 \/ k = 2
      BY <2>1
    <3> QED
      BY <3>1, <2>1, <1>3
  <2>3. Spliced(b, next, i, c, j)
    BY <1>5 DEF c
  <2>4. i \in Nat /\ j \in Nat /\ i < j /\ j <= Len(b) + 1 /\ r + 1 <= i
    BY <1>4
  <2> HIDE DEF i, j
  <2>5. Opens(next, line)
    BY <1>2, <2>1, <2>2, <2>3, <2>4, ReasonMoves
  <2> QED
    BY <2>5 DEF next, t
<1>6. CASE \E l, e \in Nat : LogAt(b, l, e) /\ Spliced(b, next, e - 1, <<Text(t)>>, e)
  <2>1. PICK l \in Nat, e \in Nat : LogAt(b, l, e) /\ Spliced(b, next, e - 1, <<Text(t)>>, e)
    BY <1>6
  <2> DEFINE c == <<Text(t)>>
             i == e - 1
  <2>2. c \in Seq(Line) /\ Len(c) = 1 /\ c[1] = Text(t)
    BY <1>1, Pieces
  <2> HIDE DEF c
  <2>3. \A k \in 1 .. Len(c) : ~IsReasonHeading(c[k])
    <3>1. \A k \in 1 .. Len(c) : k = 1
      BY <2>2
    <3> QED
      BY <3>1, <2>2, <1>3
  <2>4. /\ l \in 1 .. Len(b) /\ e \in l + 1 .. Len(b) + 1
        /\ e <= Len(b) => b[e].level \in {1, 2}
    BY <2>1, LogAtIs
  <2>5. r + 1 # e
    BY <2>4, <1>1, <1>4
  <2>6. i \in Nat /\ i < e /\ e <= Len(b) + 1 /\ (r + 1 <= i \/ e <= r)
    BY <2>4, <2>5, <1>4
  <2>7. Spliced(b, next, i, c, e)
    BY <2>1 DEF c
  <2> HIDE DEF i
  <2>8. Opens(next, line)
    BY <1>2, <2>2, <2>3, <2>6, <2>7, ReasonMoves
  <2> QED
    BY <2>8 DEF next, t
<1> QED
  BY <1>1, <1>5, <1>6, AppendedIs DEF next


------------------------------------------------------------------------------
(* task cancel *)

\* The reason is written under the first of its headings, or under a new one.
LEMMA WithReasonIs ==
  ASSUME NEW b \in Seq(Line), NEW r, Text(r) \in Line
  PROVE  \/ /\ Sections(b, CancellationReason) = {}
            /\ Spliced(b, WithReason(b, r), Len(b),
                       <<HeadingLine(2, CancellationReason), Text(r)>>, Len(b) + 1)
         \/ \E i, j \in Nat : /\ i < j /\ j <= Len(b) + 1 /\ IsEnd(b, i, j)
                              /\ FirstOf(Sections(b, CancellationReason), i)
                              /\ i = Min(Sections(b, CancellationReason))
                              /\ Spliced(b, WithReason(b, r), i, <<Text(r)>>, j)
<1>1. HeadingLine(2, CancellationReason) \in Line
  BY Lines
<1>2. CASE Sections(b, CancellationReason) = {}
  <2>1. Spliced(b, b \o <<HeadingLine(2, CancellationReason), Text(r)>>, Len(b),
                <<HeadingLine(2, CancellationReason), Text(r)>>, Len(b) + 1)
    BY <1>1, Pieces, ExtendedIs
  <2> QED
    BY <1>2, <2>1 DEF WithReason
<1>3. CASE Sections(b, CancellationReason) # {}
  <2> DEFINE i == Min(Sections(b, CancellationReason))
             j == End(b, i)
  <2>1. FirstOf(Sections(b, CancellationReason), i) /\ i \in DOMAIN b
    <3>1. /\ Sections(b, CancellationReason) \in SUBSET Nat
          /\ Sections(b, CancellationReason) \subseteq DOMAIN b
      BY DEF Sections
    <3> QED
      BY <1>3, <3>1, MinIsFirst DEF FirstOf
  <2>2. WithReason(b, r) = Rewritten(b, i, <<Text(r)>>)
    BY <1>3 DEF WithReason
  <2>3. i = Min(Sections(b, CancellationReason))
    OBVIOUS
  <2> HIDE DEF i
  <2>4. <<Text(r)>> \in Seq(Line)
    BY Pieces
  <2>5. /\ i \in Nat /\ j \in Nat /\ i < j /\ j <= Len(b) + 1 /\ IsEnd(b, i, j)
        /\ Spliced(b, Rewritten(b, i, <<Text(r)>>), i, <<Text(r)>>, j)
    BY <2>1, <2>4, RewrittenIs
  <2> HIDE DEF j
  <2> QED
    BY <2>1, <2>2, <2>3, <2>5
<1> QED
  BY <1>2, <1>3

\* What a cancel makes of the body: the new reason opens its section, and the
\* comments are in order, those that were in the reason's section excepted.
LEMMA CancelKeeps ==
  ASSUME NEW b, Tracked(b), NEW s \in SUBSET DOMAIN Entry, InOrder(b, s),
         NEW r \in Reason,
         NEW kept \in SUBSET s,
         ReasonInLog(b) => kept = {e \in s : Contains(WithReason(b, r), Text(Entry[e]))}
  PROVE  /\ Tracked(WithReason(b, r))
         /\ Opens(WithReason(b, r), Text(r))
         /\ InOrder(WithReason(b, r), kept)
<1> DEFINE t == Text(r)
           h == HeadingLine(2, CancellationReason)
           next == WithReason(b, r)
<1>1. b \in Seq(Line)
  BY DEF Tracked, Once
<1>2. /\ t \in Line /\ h \in Line /\ t.level = 0 /\ h.level = 2 /\ IsReasonHeading(h)
      /\ ~IsLogHeading(t) /\ ~IsLogHeading(h)
      /\ \A e \in DOMAIN Entry : t # Text(Entry[e]) /\ h # Text(Entry[e])
  <2>1. t \in Line /\ t.level = 0 /\ h \in Line
    BY Lines
  <2>2. h.level = 2 /\ IsReasonHeading(h) /\ ~IsLogHeading(h)
    BY DEF HeadingLine, IsReasonHeading, IsLogHeading, Level, Comments, CancellationReason
  <2>3. \A e \in DOMAIN Entry : t # Text(Entry[e]) /\ h # Text(Entry[e])
    BY Lines
  <2> QED
    BY <2>1, <2>2, <2>3 DEF IsLogHeading
<1> HIDE DEF t, h, next
<1>3. CASE /\ Sections(b, CancellationReason) = {}
           /\ Spliced(b, next, Len(b), <<h, t>>, Len(b) + 1)
  <2> DEFINE c == <<h, t>>
             i == Len(b)
             j == Len(b) + 1
  <2>1. c \in Seq(Line) /\ Len(c) = 2 /\ c[1] = h /\ c[2] = t
    BY <1>2, Pieces
  <2> HIDE DEF c
  <2>2. i \in Nat /\ j \in Nat /\ i < j /\ j <= Len(b) + 1 /\ j = i + 1 /\ i = Len(b)
    BY <1>1
  <2>3. Spliced(b, next, i, c, j)
    BY <1>3 DEF c
  <2> HIDE DEF i, j
  <2>4. \A k \in 1 .. Len(c) : k = 1 \/ k = 2
    BY <2>1
  <2>5. \A k \in 1 .. Len(c) : \A e \in DOMAIN Entry : c[k] # Text(Entry[e])
    BY <2>1, <2>4, <1>2
  <2>6. Tracked(next)
    BY <1>1, <2>1, <2>2, <2>3, <2>5, SplicedTracked
  <2>7. /\ next \in Seq(Line) /\ Len(next) = i + 2
        /\ \A x \in 1 .. i : next[x] = b[x]
        /\ next[i + 1] = h /\ next[i + 2] = t
    <3>1. Shift(i, c, j) = 2
      BY <2>1, <2>2 DEF Shift
    <3>2. 1 \in 1 .. Len(c) /\ 2 \in 1 .. Len(c)
      BY <2>1
    <3> QED
      BY <2>1, <2>2, <2>3, <3>1, <3>2 DEF Spliced
  <2>8. Opens(next, t)
    <3> DEFINE m == i + 1
    <3>1. m \in 1 .. Len(next) /\ m + 1 \in 1 .. Len(next) /\ m - 1 = i /\ m \in Nat /\ m + 1 = i + 2
      BY <2>2, <2>7
    <3>2. \A x \in 1 .. i : ~IsReasonHeading(next[x])
      BY <1>1, <1>3, <2>2, <2>7, ReasonsAre
    <3>3. IsReasonHeading(next[m]) /\ next[m + 1] = t
      BY <3>1, <2>7, <1>2
    <3> HIDE DEF m
    <3>4. ReasonAt(next, m, t)
      BY <3>1, <3>2, <3>3 DEF ReasonAt
    <3> QED
      BY <3>1, <3>4, <2>7, OpensIs
  <2>9. InOrder(next, kept)
    <3>1. CASE Logs(b) = {}
      <4>1. kept = {}
        BY <3>1, NoLogNoComments
      <4> QED
        BY <4>1, NothingIsInOrder
    <3>2. CASE Logs(b) # {}
      <4>1. PICK l \in Nat, e \in Nat : LogAt(b, l, e)
        BY <3>2, <1>1, LogIsSomewhere
      <4>2. l \in 1 .. Len(b) /\ e \in l + 1 .. Len(b) + 1
        BY <4>1, <1>1, LogAtIs
      <4>3. e <= i \/ (e = i + 1 /\ Len(c) > 0 /\ c[1].level = 2)
        BY <4>2, <2>1, <2>2, <1>2
      <4>4. LogAt(next, l, e)
        BY <1>1, <2>1, <2>2, <2>3, <4>1, <4>3, SpliceAfter
      <4> DEFINE z == 0
      <4>5. \A p \in l + 1 .. e - 1 : next[p + z] = b[p]
        BY <4>2, <2>2, <2>7
      <4>6. e + z <= e /\ l = l + z /\ z \in Int
        BY <4>2
      <4> HIDE DEF z
      <4>7. Once(next)
        BY <2>6 DEF Tracked
      <4> QED
        BY <4>1, <4>4, <4>5, <4>6, <4>7, <1>1, <2>7, SameLines
    <3> QED
      BY <3>1, <3>2
  <2>10. Tracked(next) /\ Opens(next, t) /\ InOrder(next, kept)
    BY <2>6, <2>8, <2>9
  <2> QED
    BY <2>10 DEF next, t
<1>4. CASE \E i, j \in Nat : /\ i < j /\ j <= Len(b) + 1 /\ IsEnd(b, i, j)
                             /\ FirstOf(Sections(b, CancellationReason), i)
                             /\ i = Min(Sections(b, CancellationReason))
                             /\ Spliced(b, next, i, <<t>>, j)
  <2>1. PICK i \in Nat, j \in Nat :
          /\ i < j /\ j <= Len(b) + 1 /\ IsEnd(b, i, j)
          /\ FirstOf(Sections(b, CancellationReason), i)
          /\ i = Min(Sections(b, CancellationReason))
          /\ Spliced(b, next, i, <<t>>, j)
    BY <1>4
  <2> DEFINE c == <<t>>
             d == Shift(i, c, j)
  <2>2. c \in Seq(Line) /\ Len(c) = 1 /\ c[1] = t
    BY <1>2, Pieces
  <2>3. Spliced(b, next, i, c, j)
    BY <2>1
  <2> HIDE DEF c
  <2>4. \A k \in 1 .. Len(c) : k = 1
    BY <2>2
  <2>5. \A k \in 1 .. Len(c) : \A e \in DOMAIN Entry : c[k] # Text(Entry[e])
    BY <2>2, <2>4, <1>2
  <2>6. Tracked(next)
    BY <1>1, <2>1, <2>2, <2>3, <2>5, SplicedTracked
  <2>7. d \in Int /\ d = i + 2 - j
    BY <2>2 DEF Shift
  <2>8. /\ next \in Seq(Line) /\ Len(next) = Len(b) + d /\ Len(b) \in Nat
        /\ \A x \in 1 .. i : next[x] = b[x]
        /\ next[i + 1] = t
        /\ \A y \in j .. Len(b) : next[y + d] = b[y]
    <3>1. 1 \in 1 .. Len(c)
      BY <2>2
    <3>2. next[i + 1] = c[1]
      BY <3>1, <2>3 DEF Spliced
    <3> QED
      BY <2>2, <2>3, <3>2, <1>1 DEF Spliced
  <2> HIDE DEF d
  <2>9. /\ i \in 1 .. Len(b) /\ IsReasonHeading(b[i])
        /\ \A x \in 1 .. i - 1 : ~IsReasonHeading(b[x])
    <3>1. i \in 1 .. Len(b) /\ IsReasonHeading(b[i])
      BY <2>1, <1>1, ReasonsAre DEF FirstOf
    <3>2. ASSUME NEW x \in 1 .. i - 1, IsReasonHeading(b[x])
          PROVE  FALSE
      <4>1. x \in 1 .. Len(b)
        BY <3>1
      <4>2. x \in Sections(b, CancellationReason)
        BY <1>1, <4>1, <3>2, ReasonsAre
      <4> QED
        BY <2>1, <4>1, <4>2 DEF FirstOf
    <3> QED
      BY <3>1, <3>2
  <2>10. Opens(next, t)
    <3>1. i \in 1 .. i /\ \A x \in 1 .. i - 1 : x \in 1 .. i
      BY <2>9
    <3>2. i \in 1 .. Len(next) /\ i + 1 \in 1 .. Len(next)
      <4>1. i + 1 <= Len(b) + d /\ 1 <= i
        BY <2>1, <2>7, <2>8, <2>9
      <4>2. Len(next) = Len(b) + d /\ Len(b) + d \in Int
        BY <2>7, <2>8
      <4> QED
        BY <4>1, <4>2, <2>1
    <3>3. ReasonAt(next, i, t)
      BY <3>1, <3>2, <2>8, <2>9 DEF ReasonAt
    <3> QED
      BY <3>3, <2>8, OpensIs
  <2>11. ASSUME NEW l \in Nat, NEW e \in Nat, LogAt(b, l, e)
         PROVE  InOrder(next, kept)
    <3>1. /\ l \in 1 .. Len(b) /\ IsLogHeading(b[l])
          /\ e \in l + 1 .. Len(b) + 1
          /\ \A x \in l + 1 .. e - 1 : b[x].level \notin {1, 2}
          /\ e <= Len(b) => b[e].level \in {1, 2}
      BY <2>11, <1>1, LogAtIs
    <3>2. i # l
      BY <3>1, <2>9 DEF IsLogHeading, IsReasonHeading, Comments, CancellationReason
    <3>3. b[i].level \in {2, 3} /\ b[l].level = 2
      BY <3>1, <2>9 DEF IsLogHeading, IsReasonHeading, Level
    <3>4. /\ j \in i + 1 .. Len(b) + 1
          /\ \A x \in i + 1 .. j - 1 : b[x].level \notin {1, 2}
          /\ b[i].level = 3 => \A x \in i + 1 .. j - 1 : b[x].level \notin {1, 2, 3}
      <4>1. /\ j \in i + 1 .. Len(b) + 1
            /\ \A x \in i + 1 .. j - 1 : b[x].level \notin 1 .. b[i].level
        BY <2>1 DEF IsEnd
      <4>2. CASE b[i].level = 2
        <5>1. 1 .. b[i].level = {1, 2}
          BY <4>2
        <5> QED
          BY <4>1, <4>2, <5>1
      <4>3. CASE b[i].level = 3
        <5>1. 1 .. b[i].level = {1, 2, 3}
          BY <4>3
        <5> QED
          BY <4>1, <5>1
      <4> QED
        BY <3>3, <4>2, <4>3
    <3>5. Once(next) /\ e - 1 \in Nat
      BY <2>6, <3>1 DEF Tracked
    <3>6. CASE i < l
      <4>1. j <= l
        BY <3>1, <3>3, <3>4, <3>6
      <4>2. \A k \in 1 .. Len(c) : ~IsLogHeading(c[k])
        BY <2>2, <2>4, <1>2
      <4>3. LogAt(next, l + d, e + d)
        BY <1>1, <2>1, <2>2, <2>3, <2>11, <4>1, <4>2, SpliceBefore DEF d
      <4> DEFINE m == l + d
                 f == e + d
      <4>4. m \in Nat /\ f \in Nat /\ m = l + d /\ e + d <= f
        BY <4>1, <3>1, <2>1, <2>7
      <4>5. LogAt(next, m, f)
        BY <4>3
      <4> HIDE DEF m, f
      <4>6. \A p \in l + 1 .. e - 1 : next[p + d] = b[p]
        BY <4>1, <3>1, <2>1, <2>8
      <4> QED
        <5>1. next \in Seq(Line) /\ d \in Int /\ Once(next)
          BY <2>7, <2>8, <3>5
        <5> QED
          BY <4>4, <4>5, <4>6, <5>1, <2>11, <1>1, SameLines, SMTT(60)
    <3>7. CASE e <= i
      <4>1. LogAt(next, l, e)
        BY <1>1, <2>1, <2>2, <2>3, <2>11, <3>7, SpliceAfter
      <4> DEFINE z == 0
      <4>2. \A p \in l + 1 .. e - 1 : next[p + z] = b[p]
        BY <3>1, <3>7, <2>8
      <4>3. e + z <= e /\ l = l + z /\ z \in Int
        BY <3>1
      <4> HIDE DEF z
      <4> QED
        BY <4>1, <4>2, <4>3, <3>5, <2>11, <1>1, <2>8, SameLines
    <3>8. CASE l < i /\ i < e
      <4>1. b[i].level = 3
        BY <3>1, <3>3, <3>8
      <4>2. j <= e
        BY <3>1, <3>4, <3>8
      <4>3. \A k \in 1 .. Len(c) : c[k].level = 0
        BY <2>2, <2>4, <1>2
      <4>4. LogAt(next, l, e + d)
        BY <1>1, <2>1, <2>2, <2>3, <2>11, <3>8, <4>2, <4>3, SpliceInside DEF d
      <4>5. LogLines(b) = l + 1 .. e - 1 /\ LogLines(next) = l + 1 .. (e + d) - 1
        <5>1. e + d \in Nat
          BY <4>2, <3>8, <2>7, <2>1, <3>4
        <5> QED
          BY <5>1, <4>4, <2>11, <1>1, <2>8, LogLinesAt
      <4>6. kept = {g \in s : Contains(next, Text(Entry[g]))}
        <5>1. i \in LogLines(b)
          BY <4>5, <3>8, <2>9
        <5>2. ReasonInLog(b)
          BY <5>1, <2>1 DEF ReasonInLog, FirstOf
        <5> QED
          BY <5>2 DEF next
      <4>7. ASSUME NEW g \in kept, NEW p \in LogLines(b), b[p] = Text(Entry[g])
            PROVE  p <= i \/ j <= p
        <5>1. PICK x \in DOMAIN next : next[x] = Text(Entry[g])
          BY <4>6, <4>7 DEF Contains
        <5>2. HasOnly(b, next, i, c, j) /\ ~Holds(c, g) /\ g \in DOMAIN Entry
          <6>1. BringsNew(c) /\ ~Holds(c, g)
            BY <2>5, <4>7 DEF BringsNew, Holds
          <6> QED
            BY <6>1, <2>1, <2>2, <2>3, SplicedOnce
        <5>3. PICK q \in DOMAIN b : b[q] = Text(Entry[g]) /\ ((q <= i) \/ (q >= j))
          BY <5>1, <5>2 DEF HasOnly
        <5>4. p \in DOMAIN b
          BY <1>1, <4>7, LogLinesIn
        <5>5. p = q
          BY <5>2, <5>3, <5>4, <4>7 DEF Tracked, Once
        <5> QED
          BY <5>3, <5>5
      <4> DEFINE to == [p \in LogLines(b) |-> IF p <= i THEN p ELSE p + d]
      <4>8. /\ to \in [LogLines(b) -> Int]
            /\ \A p \in LogLines(b) : to[p] = IF p <= i THEN p ELSE p + d
        BY <4>5, <2>7, <3>1
      <4> HIDE DEF to
      <4>9. ASSUME NEW p \in LogLines(b), NEW g \in kept, b[p] = Text(Entry[g])
            PROVE  to[p] \in LogLines(next) /\ next[to[p]] = b[p]
        <5>1. p \in l + 1 .. e - 1 /\ (p <= i \/ j <= p)
          BY <4>5, <4>7, <4>9
        <5>2. CASE p <= i
          <6>1. to[p] = p /\ p \in 1 .. i /\ p \in l + 1 .. (e + d) - 1
            BY <5>1, <5>2, <4>2, <4>8, <2>7, <3>1
          <6> QED
            BY <6>1, <4>5, <2>8
        <5>3. CASE j <= p
          <6>1. to[p] = p + d
            BY <5>3, <4>8, <4>9, <3>8, <2>1, <5>1
          <6>2. p \in j .. Len(b) /\ p + d \in l + 1 .. (e + d) - 1
            BY <5>1, <5>3, <3>8, <2>1, <2>7, <3>1
          <6> QED
            BY <6>1, <6>2, <4>5, <2>8
        <5> QED
          BY <5>1, <5>2, <5>3
      <4>10. ASSUME NEW p \in LogLines(b), NEW q \in LogLines(b), NEW g \in kept, NEW k \in kept,
                    p < q, b[p] = Text(Entry[g]), b[q] = Text(Entry[k])
             PROVE  to[p] < to[q]
        <5>1. p \in l + 1 .. e - 1 /\ (p <= i \/ j <= p) /\ q \in l + 1 .. e - 1 /\ (q <= i \/ j <= q)
          BY <4>5, <4>7, <4>10
        <5>2. to[p] = (IF p <= i THEN p ELSE p + d) /\ to[q] = (IF q <= i THEN q ELSE q + d)
          BY <4>8
        <5> QED
          BY <5>1, <5>2, <4>10, <2>7, <2>1, <3>1
      <4> QED
        BY <4>8, <4>9, <4>10, <3>5, <1>1, InOrderMoves
    <3> QED
      BY <3>1, <3>2, <3>6, <3>7, <3>8
  <2>12. InOrder(next, kept)
    <3>1. CASE Logs(b) = {}
      <4>1. kept = {}
        BY <3>1, NoLogNoComments
      <4> QED
        BY <4>1, NothingIsInOrder
    <3>2. CASE Logs(b) # {}
      BY <3>2, <2>11, <1>1, LogIsSomewhere
    <3> QED
      BY <3>1, <3>2
  <2>13. Tracked(next) /\ Opens(next, t) /\ InOrder(next, kept)
    BY <2>6, <2>10, <2>12
  <2> QED
    BY <2>13 DEF next, t
<1> QED
  BY <1>1, <1>2, <1>3, <1>4, WithReasonIs DEF next, t, h


------------------------------------------------------------------------------
(* task edit *)

\* A piece of a body, without the cases of the library's lemma.
LEMMA PieceIs ==
  ASSUME NEW b \in Seq(Line), NEW i \in Nat, NEW n \in Nat, 1 <= i, i <= n + 1, n <= Len(b)
  PROVE  /\ SubSeq(b, i, n) \in Seq(Line)
         /\ Len(SubSeq(b, i, n)) = n + 1 - i
         /\ \A x \in 1 .. n + 1 - i : SubSeq(b, i, n)[x] = b[i + x - 1]
<1>1. \A x \in i .. n : b[x] \in Line
  OBVIOUS
<1>2. i \in Int /\ n \in Int
  OBVIOUS
<1>3. /\ SubSeq(b, i, n) \in Seq(Line)
      /\ Len(SubSeq(b, i, n)) = IF i <= n THEN n - i + 1 ELSE 0
      /\ \A x \in 1 .. n - i + 1 : SubSeq(b, i, n)[x] = b[i + x - 1]
  BY <1>1, <1>2, SubSeqProperties
<1>4. n - i + 1 = n + 1 - i
  OBVIOUS
<1>5. Len(SubSeq(b, i, n)) = n + 1 - i
  <2>1. CASE i <= n
    BY <2>1, <1>3, <1>4
  <2>2. CASE ~(i <= n)
    <3>1. n + 1 - i = 0
      BY <2>2
    <3> QED
      BY <2>2, <3>1, <1>3
  <2> QED
    BY <2>1, <2>2
<1> QED
  BY <1>3, <1>4, <1>5

\* The lines of a section.
LEMMA ContentIs ==
  ASSUME NEW b \in Seq(Line), NEW i \in DOMAIN b, NEW j \in Nat, j = End(b, i)
  PROVE  /\ i \in Nat /\ Len(b) \in Nat /\ i + 1 <= j /\ j <= Len(b) + 1
         /\ SectionContent(b, i) \in Seq(Line)
         /\ Len(SectionContent(b, i)) = j - 1 - i
         /\ \A x \in 1 .. j - 1 - i : SectionContent(b, i)[x] = b[i + x]
<1>1. j \in i + 1 .. Len(b) + 1 /\ Len(b) \in Nat /\ i \in Nat
  BY EndIs DEF IsEnd
<1> DEFINE h == i + 1
           n == j - 1
<1>2. h \in Nat /\ n \in Nat /\ 1 <= h /\ h <= n + 1 /\ n <= Len(b) /\ n + 1 - h = j - 1 - i
  BY <1>1
<1>3. \A x \in 1 .. j - 1 - i : h + x - 1 = i + x
  BY <1>1
<1>4. SectionContent(b, i) = SubSeq(b, h, n)
  BY DEF SectionContent
<1> HIDE DEF h, n
<1>5. /\ SubSeq(b, h, n) \in Seq(Line)
      /\ Len(SubSeq(b, h, n)) = n + 1 - h
      /\ \A x \in 1 .. n + 1 - h : SubSeq(b, h, n)[x] = b[h + x - 1]
  BY <1>2, PieceIs
<1>6. Len(SectionContent(b, i)) = j - 1 - i
  BY <1>2, <1>4, <1>5
<1>7. \A x \in 1 .. j - 1 - i : SectionContent(b, i)[x] = b[i + x]
  <2> TAKE x \in 1 .. j - 1 - i
  <2>1. SubSeq(b, h, n)[x] = b[h + x - 1]
    BY <1>2, <1>5
  <2> QED
    BY <2>1, <1>3, <1>4
<1>8. i + 1 <= j /\ j <= Len(b) + 1
  BY <1>1
<1>9. SectionContent(b, i) \in Seq(Line)
  BY <1>4, <1>5
<1> QED
  BY <1>1, <1>6, <1>7, <1>8, <1>9

\* A prefix has the same lines.
LEMMA PrefixLines ==
  ASSUME NEW want \in Seq(Line), NEW got \in Seq(Line), IsPrefix(want, got)
  PROVE  /\ Len(want) <= Len(got)
         /\ \A x \in 1 .. Len(want) : want[x] = got[x]
<1> DEFINE n == Len(want)
<1>1. n \in Nat /\ n <= Len(want) /\ n <= Len(got) /\ SubSeq(want, 1, n) = SubSeq(got, 1, n)
  BY DEF IsPrefix
<1> HIDE DEF n
<1>2. n + 1 - 1 = n /\ (\A x \in 1 .. n : 1 + x - 1 = x) /\ 1 <= n + 1 /\ 1 \in Nat /\ 1 <= 1
  BY <1>1
<1>3. \A x \in 1 .. n + 1 - 1 : SubSeq(want, 1, n)[x] = want[1 + x - 1]
  BY <1>1, <1>2, PieceIs
<1>4. \A x \in 1 .. n + 1 - 1 : SubSeq(got, 1, n)[x] = got[1 + x - 1]
  BY <1>1, <1>2, PieceIs
<1>5. \A x \in 1 .. n : want[x] = got[x]
  <2> TAKE x \in 1 .. n
  <2>1. SubSeq(want, 1, n)[x] = want[x] /\ SubSeq(got, 1, n)[x] = got[x]
    BY <1>2, <1>3, <1>4
  <2> QED
    BY <2>1, <1>1
<1> QED
  BY <1>1, <1>5 DEF n

\* A section that is carried keeps its lines, one by one.
Moved(b, next, i, j, k, m) ==
  /\ j \in i + 1 .. Len(b) + 1 /\ m \in k + 1 .. Len(next) + 1
  /\ j + (k - i) <= m
  /\ \A p \in i + 1 .. j - 1 : next[p + (k - i)] = b[p]

LEMMA CarriedLines ==
  ASSUME NEW b \in Seq(Line), NEW next \in Seq(Line),
         NEW i \in DOMAIN b, NEW k \in DOMAIN next,
         Carries(SectionContent(b, i), SectionContent(next, k))
  PROVE  Moved(b, next, i, End(b, i), k, End(next, k))
<1> DEFINE j == End(b, i)
           m == End(next, k)
           want == SectionContent(b, i)
           got == SectionContent(next, k)
<1>1. j \in Nat /\ m \in Nat /\ j = End(b, i) /\ m = End(next, k)
  <2>1. IsEnd(b, i, j) /\ IsEnd(next, k, m)
    BY EndIs
  <2> QED
    BY <2>1 DEF IsEnd
<1>2. IsPrefix(want, got)
  BY DEF Carries
<1> HIDE DEF j, m, want, got
<1>3. /\ i \in Nat /\ Len(b) \in Nat /\ i + 1 <= j /\ j <= Len(b) + 1
      /\ want \in Seq(Line) /\ Len(want) = j - 1 - i
      /\ \A x \in 1 .. j - 1 - i : want[x] = b[i + x]
  BY <1>1, ContentIs DEF want
<1>4. /\ k \in Nat /\ Len(next) \in Nat /\ k + 1 <= m /\ m <= Len(next) + 1
      /\ got \in Seq(Line) /\ Len(got) = m - 1 - k
      /\ \A x \in 1 .. m - 1 - k : got[x] = next[k + x]
  BY <1>1, ContentIs DEF got
<1>5. Len(want) <= Len(got) /\ \A x \in 1 .. Len(want) : want[x] = got[x]
  BY <1>2, <1>3, <1>4, PrefixLines
<1>6. j - 1 - i <= m - 1 - k /\ \A x \in 1 .. j - 1 - i : want[x] = got[x]
  BY <1>3, <1>4, <1>5
<1>7. ASSUME NEW p \in i + 1 .. j - 1
      PROVE  next[p + (k - i)] = b[p]
  <2> DEFINE x == p - i
  <2>1. i \in Int /\ k \in Int /\ j \in Int /\ m \in Int
    BY <1>1, <1>3, <1>4
  <2>2. p \in Int /\ i + 1 <= p /\ p <= j - 1
    BY <2>1
  <2>3. x \in Int /\ x = p - i
    BY <2>1, <2>2
  <2> HIDE DEF x
  <2>4. j - 1 - i <= m - 1 - k
    BY <1>6
  <2>5. 1 <= x /\ x <= j - 1 - i /\ x <= m - 1 - k
    BY <2>1, <2>2, <2>3, <2>4
  <2>6. x \in 1 .. j - 1 - i /\ x \in 1 .. m - 1 - k /\ i + x = p /\ k + x = p + (k - i)
    BY <2>1, <2>2, <2>3, <2>5
  <2>7. want[x] = b[i + x]
    BY <2>6, <1>3
  <2>8. got[x] = next[k + x]
    BY <2>6, <1>4
  <2>9. want[x] = got[x]
    BY <2>6, <1>6
  <2>10. b[i + x] = b[p] /\ next[k + x] = next[p + (k - i)]
    BY <2>6
  <2> QED
    BY <2>7, <2>8, <2>9, <2>10
<1>8. j \in i + 1 .. Len(b) + 1 /\ m \in k + 1 .. Len(next) + 1 /\ j + (k - i) <= m
  <2>1. /\ i \in Int /\ k \in Int /\ j \in Int /\ m \in Int
        /\ j - 1 - i <= m - 1 - k /\ j <= Len(b) + 1 /\ m <= Len(next) + 1 /\ i + 1 <= j /\ k + 1 <= m
        /\ Len(b) \in Int /\ Len(next) \in Int
    BY <1>1, <1>3, <1>4, <1>6
  <2>2. j + (k - i) <= m
    BY <2>1
  <2> QED
    BY <2>1, <2>2
<1>9. \A p \in i + 1 .. j - 1 : next[p + (k - i)] = b[p]
  BY <1>7
<1>10. Moved(b, next, i, j, k, m)
  BY <1>9, <1>8 DEF Moved
<1> QED
  BY <1>10 DEF j, m

\* The pairs that allCarried makes.
Pairs(b, next, name, to) ==
  /\ to \in [Sections(b, name) -> Sections(next, name)]
  /\ \A i, j \in Sections(b, name) : i < j => to[i] < to[j]
  /\ \A i \in Sections(b, name) : \A k \in Sections(next, name) :
       k < to[i] => \E j \in Sections(b, name) : to[j] = k
  /\ \A i \in Sections(b, name) :
       /\ b[i].level = next[to[i]].level
       /\ Carries(SectionContent(b, i), SectionContent(next, to[i]))

LEMMA CarriedInPairs ==
  ASSUME NEW b, NEW next, NEW name, AllCarried(b, next, name)
  PROVE  \E to : Pairs(b, next, name, to)
BY DEF AllCarried, Pairs

\* A section with a line is not empty, so an edit that does not drop it pairs it.
LEMMA KeptInPairs ==
  ASSUME NEW b \in Seq(Line), NEW next, NEW name \in Protected, name \notin Dropped(b, next),
         NEW i \in Sections(b, name), End(b, i) # i + 1
  PROVE  \E to : Pairs(b, next, name, to)
<1>1. i \in DOMAIN b /\ i \in Nat
  BY DEF Sections
<1> DEFINE e == End(b, i)
<1>2. e \in i + 1 .. Len(b) + 1 /\ Len(b) \in Nat
  BY <1>1, EndIs DEF IsEnd
<1> HIDE DEF e
<1>3. i + 1 <= e - 1
  BY <1>1, <1>2 DEF e
<1>4. SectionContent(b, i) # <<>>
  <2>1. \A x \in i + 1 .. e - 1 : b[x] \in Line
    BY <1>1, <1>2
  <2>2. Len(SubSeq(b, i + 1, e - 1)) = (e - 1) - (i + 1) + 1
    BY <2>1, <1>1, <1>2, <1>3, SubSeqProperties
  <2>3. (e - 1) - (i + 1) + 1 # 0
    BY <1>1, <1>2, <1>3
  <2>4. Len(<<>>) = 0
    OBVIOUS
  <2> QED
    BY <2>2, <2>3, <2>4 DEF SectionContent, e
<1>5. AllCarried(b, next, name)
  BY <1>4 DEF Dropped
<1> QED
  BY <1>5, CarriedInPairs

\* An edit that does not drop the comments keeps them in order: the section that
\* the log is paired with is the log of the new body, because every section before
\* that one is paired with a section before the log.
LEMMA EditKeepsLog ==
  ASSUME NEW b \in Seq(Line), NEW next, Once(next),
         NEW s \in SUBSET DOMAIN Entry, InOrder(b, s),
         Comments \notin Dropped(b, next)
  PROVE  InOrder(next, s)
<1>1. CASE s = {}
  BY <1>1, NothingIsInOrder
<1>2. CASE s # {}
  <2>1. Logs(b) # {}
    BY <1>2, NoLogNoComments
  <2>2. PICK l \in Nat, e \in Nat : LogAt(b, l, e)
    BY <2>1, LogIsSomewhere
  <2>3. LogLines(b) = l + 1 .. e - 1 /\ e \in l + 1 .. Len(b) + 1 /\ l \in 1 .. Len(b)
    BY <2>2, LogLinesAt, LogAtIs
  <2>4. PICK p \in l + 1 .. e - 1 : TRUE
    BY <1>2, <2>3 DEF InOrder
  <2>5. l \in DOMAIN b /\ e = End(b, l)
    BY <2>2, <2>3, EndIsOne DEF LogAt
  <2>6. l \in Sections(b, Comments) /\ b[l].level = 2
    BY <2>2 DEF LogAt, FirstOf, Logs
  <2>7. PICK to : Pairs(b, next, Comments, to)
    <3>1. Comments \in Protected /\ End(b, l) # l + 1
      BY <2>4, <2>5 DEF Protected
    <3> QED
      BY <3>1, <2>6, KeptInPairs
  <2> DEFINE m == to[l]
             f == End(next, m)
  <2>8. next \in Seq(Line)
    BY DEF Once
  <2>9. m \in Sections(next, Comments) /\ m \in DOMAIN next /\ m \in Nat /\ next[m].level = 2
    BY <2>6, <2>7, <2>8 DEF Pairs, Sections
  <2>10. ASSUME NEW k \in Logs(next)
         PROVE  m <= k
    <3>1. k \in Sections(next, Comments) /\ next[k].level = 2 /\ k \in Nat
      BY <2>8 DEF Logs, Sections
    <3> SUFFICES ASSUME k < m PROVE FALSE
      BY <2>9, <3>1
    <3>2. PICK j \in Sections(b, Comments) : to[j] = k
      BY <2>6, <2>7, <3>1 DEF Pairs
    <3>3. b[j].level = 2 /\ j \in Nat
      BY <2>7, <3>1, <3>2 DEF Pairs, Sections
    <3>4. j \in Logs(b)
      BY <3>3, <3>2 DEF Logs
    <3>5. l <= j
      BY <2>2, <3>4 DEF LogAt, FirstOf
    <3>6. l < j => m < k
      BY <2>6, <2>7, <3>2 DEF Pairs
    <3>7. l = j => m = k
      BY <3>2
    <3> QED
      BY <3>1, <3>3, <3>5, <3>6, <3>7, <2>9
  <2>11. Carries(SectionContent(b, l), SectionContent(next, m))
    BY <2>6, <2>7 DEF Pairs
  <2>12. FirstOf(Logs(next), m)
    BY <2>9, <2>10 DEF FirstOf, Logs
  <2> HIDE DEF m
  <2>13. IsEnd(next, m, f)
    BY <2>8, <2>9, EndIs
  <2> HIDE DEF f
  <2>14. f \in Nat /\ LogAt(next, m, f)
    BY <2>9, <2>12, <2>13 DEF IsEnd, LogAt
  <2> DEFINE d == m - l
  <2>15. Moved(b, next, l, e, m, f)
    BY <2>5, <2>8, <2>9, <2>11, CarriedLines DEF f
  <2>16. /\ e + (m - l) <= f
         /\ \A x \in l + 1 .. e - 1 : next[x + (m - l)] = b[x]
    BY <2>15 DEF Moved
  <2>17. /\ d \in Int /\ m = l + d /\ e + d <= f
         /\ \A x \in l + 1 .. e - 1 : next[x + d] = b[x]
    BY <2>9, <2>16
  <2> HIDE DEF d
  <2> QED
    BY <2>2, <2>8, <2>9, <2>14, <2>17, SameLines
<1> QED
  BY <1>1, <1>2

\* An edit that does not drop the reason keeps it in the first of its sections.
LEMMA EditKeepsReason ==
  ASSUME NEW b \in Seq(Line), NEW next \in Seq(Line), NEW line, line.level = 0,
         Opens(b, line), CancellationReason \notin Dropped(b, next)
  PROVE  Opens(next, line)
<1> DEFINE S == Sections(b, CancellationReason)
           T == Sections(next, CancellationReason)
<1>1. PICK r \in Nat : ReasonAt(b, r, line)
  BY OpensIs
<1>2. r \in S /\ r \in DOMAIN b /\ r + 1 \in DOMAIN b /\ b[r + 1] = line
  BY <1>1, ReasonsAre DEF ReasonAt
<1>3. \A k \in S : r <= k /\ k \in Nat
  <2> TAKE k \in S
  <2>1. k \in 1 .. Len(b) /\ IsReasonHeading(b[k])
    BY ReasonsAre
  <2> QED
    BY <2>1, <1>1 DEF ReasonAt
<1> DEFINE e == End(b, r)
<1>4. IsEnd(b, r, e)
  BY <1>2, EndIs
<1> HIDE DEF e
<1>5. e \in Nat /\ r + 2 <= e /\ e <= Len(b) + 1
  <2>1. e \in r + 1 .. Len(b) + 1 /\ (e <= Len(b) => b[e].level \in 1 .. b[r].level) /\ Len(b) \in Nat
    BY <1>4 DEF IsEnd
  <2>2. e # r + 1
    BY <2>1, <1>2
  <2> QED
    BY <2>1, <2>2
<1>6. PICK to : Pairs(b, next, CancellationReason, to)
  <2>1. CancellationReason \in Protected /\ End(b, r) # r + 1
    BY <1>5 DEF Protected, e
  <2> QED
    BY <2>1, <1>2, KeptInPairs
<1> DEFINE m == to[r]
           f == End(next, m)
<1>7. m \in T /\ m \in DOMAIN next /\ m \in Nat
  BY <1>2, <1>6 DEF Pairs, Sections
<1>8. ASSUME NEW k \in T
      PROVE  m <= k
  <2>1. k \in Nat
    BY DEF Sections
  <2> SUFFICES ASSUME k < m PROVE FALSE
    BY <2>1, <1>7
  <2>2. PICK j \in S : to[j] = k
    BY <1>2, <1>6 DEF Pairs
  <2>3. r < j => m < k
    BY <1>2, <1>6, <2>2 DEF Pairs
  <2>4. r = j => m = k
    BY <2>2
  <2>5. r <= j /\ j \in Nat
    BY <1>3
  <2> QED
    BY <2>1, <2>3, <2>4, <2>5, <1>7
<1>9. Carries(SectionContent(b, r), SectionContent(next, m))
  BY <1>2, <1>6 DEF Pairs
<1> HIDE DEF m
<1>10. f \in Nat
  BY <1>7, EndIs DEF IsEnd
<1>11. /\ m + 1 <= f /\ f <= Len(next) + 1
       /\ e + (m - r) <= f
       /\ \A p \in r + 1 .. e - 1 : next[p + (m - r)] = b[p]
  <2>1. Moved(b, next, r, e, m, f)
    BY <1>2, <1>7, <1>9, CarriedLines DEF e
  <2> HIDE DEF f
  <2> QED
    BY <2>1, <1>7, <1>10 DEF Moved
<1> HIDE DEF f
<1>12. next[m + 1] = line /\ m + 1 \in DOMAIN next
  <2>1. r + 1 \in r + 1 .. e - 1 /\ (r + 1) + (m - r) = m + 1
    BY <1>5, <1>7
  <2>2. next[(r + 1) + (m - r)] = b[r + 1]
    BY <2>1, <1>11
  <2>3. m + 1 \in 1 .. Len(next)
    BY <1>5, <1>7, <1>10, <1>11
  <2> QED
    BY <2>1, <2>2, <2>3, <1>2
<1> QED
  BY <1>7, <1>8, <1>12 DEF Opens


\* Whatever an author does to a body, he makes no comment and copies none.
Traces(b, next, f) ==
  /\ \A e \in DOMAIN Entry : \A x \in DOMAIN next :
       next[x] = Text(Entry[e]) => f[x] \in DOMAIN b /\ b[f[x]] = next[x]
  /\ \A x, y \in DOMAIN next : f[x] = f[y] => x = y

LEMMA RearrangedTracked ==
  ASSUME NEW b, Tracked(b), NEW next \in Seq(Line), NEW f, Traces(b, next, f)
  PROVE  Tracked(next)
<1> USE DEF Traces
<1>1. ASSUME NEW e \in DOMAIN Entry, NEW x \in DOMAIN next, next[x] = Text(Entry[e])
      PROVE  f[x] \in DOMAIN b /\ b[f[x]] = Text(Entry[e]) /\ e <= made
  <2>1. f[x] \in DOMAIN b /\ b[f[x]] = Text(Entry[e])
    BY <1>1
  <2> QED
    BY <2>1 DEF Tracked
<1>2. ASSUME NEW e \in DOMAIN Entry, NEW x \in DOMAIN next, NEW y \in DOMAIN next,
             next[x] = Text(Entry[e]), next[y] = Text(Entry[e])
      PROVE  x = y
  <2>1. f[x] \in DOMAIN b /\ b[f[x]] = Text(Entry[e])
    BY <1>1, <1>2
  <2>2. f[y] \in DOMAIN b /\ b[f[y]] = Text(Entry[e])
    BY <1>1, <1>2
  <2>3. f[x] = f[y]
    BY <2>1, <2>2 DEF Tracked, Once
  <2> QED
    BY <2>3
<1> QED
  BY <1>1, <1>2 DEF Tracked, Once

\* Each way to change a body.
LEMMA InsertTracked ==
  ASSUME NEW b, Tracked(b), NEW i \in 1 .. Len(b) + 1, NEW k \in AuthorLine
  PROVE  Tracked(InsertAt(b, i, k))
<1> DEFINE h == i - 1
           c == <<k>>
<1>1. b \in Seq(Line) /\ k \in Line /\ \A e \in DOMAIN Entry : k # Text(Entry[e])
  BY Lines DEF Tracked, Once
<1>2. c \in Seq(Line) /\ Len(c) = 1 /\ c[1] = k
  BY <1>1
<1>3. h \in Nat /\ i \in Nat /\ h < i /\ i <= Len(b) + 1
  BY <1>1
<1>4. InsertAt(b, i, k) = SubSeq(b, 1, h) \o c \o SubSeq(b, i, Len(b))
  BY DEF InsertAt
<1> HIDE DEF h, c
<1>5. Spliced(b, InsertAt(b, i, k), h, c, i)
  BY <1>1, <1>2, <1>3, <1>4, SpliceIs
<1>6. \A x \in 1 .. Len(c) : \A e \in DOMAIN Entry : c[x] # Text(Entry[e])
  BY <1>1, <1>2
<1> QED
  BY <1>2, <1>3, <1>5, <1>6, SplicedTracked

LEMMA RemoveTracked ==
  ASSUME NEW b, Tracked(b), NEW i \in DOMAIN b
  PROVE  Tracked(RemoveAt(b, i))
<1> DEFINE h == i - 1
           j == i + 1
           c == <<>>
<1>1. b \in Seq(Line) /\ Len(b) \in Nat /\ DOMAIN b = 1 .. Len(b)
  BY DEF Tracked, Once
<1>2. c \in Seq(Line) /\ Len(c) = 0
  OBVIOUS
<1>3. h \in Nat /\ j \in Nat /\ h < j /\ j <= Len(b) + 1 /\ 1 <= h + 1 /\ h <= Len(b) /\ 1 \in Nat /\ 1 <= 1
  BY <1>1
<1>4. RemoveAt(b, i) = SubSeq(b, 1, h) \o SubSeq(b, j, Len(b))
  BY DEF RemoveAt
<1> HIDE DEF h, j
<1>5. SubSeq(b, 1, h) \in Seq(Line)
  BY <1>1, <1>3, PieceIs
<1>6. SubSeq(b, 1, h) \o c = SubSeq(b, 1, h)
  BY <1>5, ConcatEmptySeq
<1> HIDE DEF c
<1>7. RemoveAt(b, i) = SubSeq(b, 1, h) \o c \o SubSeq(b, j, Len(b))
  BY <1>4, <1>6
<1>8. Spliced(b, RemoveAt(b, i), h, c, j)
  BY <1>1, <1>2, <1>3, <1>7, SpliceIs
<1>9. \A x \in 1 .. Len(c) : \A e \in DOMAIN Entry : c[x] # Text(Entry[e])
  BY <1>2
<1> QED
  BY <1>2, <1>3, <1>8, <1>9, SplicedTracked

LEMMA ReplaceTracked ==
  ASSUME NEW b, Tracked(b), NEW i \in DOMAIN b, NEW k \in AuthorLine
  PROVE  Tracked(ReplaceAt(b, i, k))
<1> DEFINE next == ReplaceAt(b, i, k)
           f == [x \in DOMAIN next |-> x]
<1>1. b \in Seq(Line) /\ k \in Line /\ (\A e \in DOMAIN Entry : k # Text(Entry[e])) /\ DOMAIN b = 1 .. Len(b)
  BY Lines DEF Tracked, Once
<1>2. /\ next \in Seq(Line) /\ Len(next) = Len(b)
      /\ \A x \in 1 .. Len(b) : next[x] = IF x = i THEN k ELSE b[x]
  BY <1>1, ExceptSeq DEF ReplaceAt
<1> HIDE DEF next
<1>3. DOMAIN next = DOMAIN b
  BY <1>1, <1>2
<1>4. ASSUME NEW e \in DOMAIN Entry, NEW x \in DOMAIN next, next[x] = Text(Entry[e])
      PROVE  f[x] \in DOMAIN b /\ b[f[x]] = next[x]
  BY <1>1, <1>2, <1>3, <1>4
<1>5. \A x, y \in DOMAIN next : f[x] = f[y] => x = y
  OBVIOUS
<1>6. Tracked(next)
  <2>1. Traces(b, next, f)
    BY <1>4, <1>5 DEF Traces
  <2> QED
    BY <1>2, <2>1, RearrangedTracked
<1> QED
  BY <1>6 DEF next

LEMMA RotateTracked ==
  ASSUME NEW b, Tracked(b), NEW i \in DOMAIN b
  PROVE  Tracked(SubSeq(b, i, Len(b)) \o SubSeq(b, 1, i - 1))
<1> DEFINE n == Len(b)
           h == i - 1
           t == n + 1 - i
           s1 == SubSeq(b, i, n)
           s2 == SubSeq(b, 1, h)
           next == s1 \o s2
           f == [x \in DOMAIN next |-> IF x <= t THEN i + x - 1 ELSE x - t]
<1>1. b \in Seq(Line) /\ n \in Nat /\ DOMAIN b = 1 .. n /\ n <= Len(b) /\ i \in Nat /\ 1 <= i /\ i <= n + 1 /\ i <= n
  BY DEF Tracked, Once
<1>2. /\ h \in Nat /\ t \in Nat /\ 1 <= h + 1 /\ h <= Len(b) /\ 1 \in Nat /\ 1 <= 1
      /\ h + 1 - 1 = h /\ t + h = n /\ h = i - 1 /\ t = n + 1 - i
  BY <1>1
<1> HIDE DEF n, h, t
<1>3. s1 \in Seq(Line) /\ Len(s1) = n + 1 - i /\ \A x \in 1 .. n + 1 - i : s1[x] = b[i + x - 1]
  BY <1>1, PieceIs
<1>4. s2 \in Seq(Line) /\ Len(s2) = h + 1 - 1 /\ \A x \in 1 .. h + 1 - 1 : s2[x] = b[1 + x - 1]
  <2>1. SubSeq(b, 1, h) \in Seq(Line) /\ Len(SubSeq(b, 1, h)) = h + 1 - 1
    BY <1>1, <1>2, PieceIs
  <2>2. \A x \in 1 .. h + 1 - 1 : SubSeq(b, 1, h)[x] = b[1 + x - 1]
    BY <1>1, <1>2, PieceIs
  <2> QED
    BY <2>1, <2>2
<1>5. Len(s1) = t /\ Len(s2) = h
  BY <1>2, <1>3, <1>4
<1>6. \A x \in 1 .. t : s1[x] = b[i + x - 1]
  BY <1>2, <1>3
<1>7. \A x \in 1 .. h : s2[x] = b[x]
  BY <1>2, <1>4
<1> HIDE DEF s1, s2
<1>8. /\ next \in Seq(Line) /\ Len(next) = t + h
      /\ \A x \in 1 .. t + h : next[x] = IF x <= t THEN s1[x] ELSE s2[x - t]
  BY <1>3, <1>4, <1>5, ConcatProperties
<1> HIDE DEF next
<1>9. DOMAIN next = 1 .. n
  BY <1>2, <1>8
<1>10. \A x \in 1 .. n : f[x] = IF x <= t THEN i + x - 1 ELSE x - t
  BY <1>9
<1> HIDE DEF f
<1>11. ASSUME NEW x \in 1 .. n
       PROVE  f[x] \in 1 .. n /\ b[f[x]] = next[x]
  <2>1. /\ x \in Int /\ i \in Int /\ t \in Int /\ n \in Int /\ h \in Int /\ 1 <= x /\ x <= n /\ 1 <= i /\ i <= n
        /\ t + h = n /\ h = i - 1 /\ t = n + 1 - i
    BY <1>1, <1>2
  <2>2. CASE x <= t
    <3>1. x \in 1 .. t /\ i + x - 1 \in 1 .. n
      BY <2>2, <2>1
    <3>2. f[x] = i + x - 1
      BY <2>2, <1>10
    <3>3. next[x] = s1[x]
      BY <2>2, <1>2, <1>8
    <3> QED
      BY <3>2, <3>1, <3>3, <1>6
  <2>3. CASE ~(x <= t)
    <3>1. x - t \in 1 .. h /\ x - t \in 1 .. n
      BY <2>3, <2>1
    <3>2. f[x] = x - t
      BY <2>3, <1>10
    <3>3. next[x] = s2[x - t]
      BY <2>3, <1>2, <1>8
    <3> QED
      BY <3>2, <3>1, <3>3, <1>7
  <2> QED
    BY <2>2, <2>3
<1>12. ASSUME NEW x \in 1 .. n, NEW y \in 1 .. n, f[x] = f[y]
       PROVE  x = y
  <2>1. /\ f[x] = IF x <= t THEN i + x - 1 ELSE x - t
        /\ f[y] = IF y <= t THEN i + y - 1 ELSE y - t
    BY <1>10
  <2>2. i + x - 1 = i + y - 1 => x = y
    BY <1>1
  <2>3. x - t = y - t => x = y
    BY <1>2
  <2>4. x <= t /\ ~(y <= t) => i + x - 1 # y - t
    BY <1>1, <1>2
  <2>5. y <= t /\ ~(x <= t) => i + y - 1 # x - t
    BY <1>1, <1>2
  <2> QED
    BY <2>1, <2>2, <2>3, <2>4, <2>5, <1>12
<1>13. Traces(b, next, f)
  BY <1>1, <1>9, <1>11, <1>12 DEF Traces
<1>14. Tracked(next)
  BY <1>8, <1>13, RearrangedTracked
<1> QED
  BY <1>14 DEF next, s1, s2, n, h

LEMMA ChangesTracked ==
  ASSUME NEW b, Tracked(b), NEW next \in Changes(b)
  PROVE  Tracked(next)
<1> DEFINE A == {InsertAt(b, i, k) : i \in 1 .. Len(b) + 1, k \in AuthorLine}
           B == {ReplaceAt(b, i, k) : i \in DOMAIN b, k \in AuthorLine}
           C == {RemoveAt(b, i) : i \in DOMAIN b}
           D == {SubSeq(b, i, Len(b)) \o SubSeq(b, 1, i - 1) : i \in DOMAIN b}
<1>1. next \in A => Tracked(next)
  BY InsertTracked
<1>2. next \in B => Tracked(next)
  BY ReplaceTracked
<1>3. next \in C => Tracked(next)
  BY RemoveTracked
<1>4. next \in D => Tracked(next)
  BY RotateTracked
<1>5. Changes(b) = UNION {A, B, C, D}
  BY DEF Changes
<1> HIDE DEF A, B, C, D
<1> QED
  BY <1>1, <1>2, <1>3, <1>4, <1>5

\* No comment is in what an author writes.
LEMMA AuthorTextIs ==
  ASSUME NEW c \in AuthorText
  PROVE  /\ c \in Seq(Line) /\ Len(c) \in Nat
         /\ \A x \in 1 .. Len(c) : c[x] \in AuthorLine
         /\ \A x \in 1 .. Len(c) : \A e \in DOMAIN Entry : c[x] # Text(Entry[e])
<1>1. ASSUME NEW k \in AuthorLine, c = <<k>>
      PROVE  c \in Seq(Line) /\ Len(c) \in Nat /\ \A x \in 1 .. Len(c) : c[x] \in AuthorLine
  <2>1. k \in Line
    BY Lines
  <2>2. c \in Seq(Line) /\ Len(c) = 1 /\ c[1] = k
    BY <1>1, <2>1, Pieces
  <2> QED
    BY <2>2
<1>2. ASSUME NEW k \in AuthorLine, NEW l \in AuthorLine, c = <<k, l>>
      PROVE  c \in Seq(Line) /\ Len(c) \in Nat /\ \A x \in 1 .. Len(c) : c[x] \in AuthorLine
  <2>1. k \in Line /\ l \in Line
    BY Lines
  <2>2. c \in Seq(Line) /\ Len(c) = 2 /\ c[1] = k /\ c[2] = l
    BY <1>2, <2>1, Pieces
  <2>3. \A x \in 1 .. Len(c) : x = 1 \/ x = 2
    BY <2>2
  <2> QED
    BY <2>2, <2>3
<1>3. c \in Seq(Line) /\ Len(c) \in Nat /\ \A x \in 1 .. Len(c) : c[x] \in AuthorLine
  BY <1>1, <1>2 DEF AuthorText
<1> QED
  BY <1>3, Lines

\* The change that task edit --section makes.
LEMMA SectionTracked ==
  ASSUME NEW b, Tracked(b), NEW h \in Heading, NEW c \in AuthorText
  PROVE  Tracked(WithSection(b, h.text, c))
<1> DEFINE name == h.text
           line == HeadingLine(2, name)
           head == <<line>>
           mid == b \o head
<1>1. b \in Seq(Line) /\ line \in Line /\ \A e \in DOMAIN Entry : line # Text(Entry[e])
  BY Lines DEF Tracked, Once
<1>2. /\ c \in Seq(Line) /\ Len(c) \in Nat
      /\ \A x \in 1 .. Len(c) : \A e \in DOMAIN Entry : c[x] # Text(Entry[e])
  BY AuthorTextIs
<1>3. CASE Sections(b, name) = {}
  <2>1. WithSection(b, name, c) = mid \o c
    BY <1>3 DEF WithSection
  <2> HIDE DEF line
  <2>2. head \in Seq(Line) /\ Len(head) = 1 /\ head[1] = line
    BY <1>1
  <2> HIDE DEF head
  <2>3. \A x \in 1 .. Len(head) : \A e \in DOMAIN Entry : head[x] # Text(Entry[e])
    BY <1>1, <2>2
  <2>4. Tracked(mid)
    <3>1. /\ Len(b) \in Nat /\ Len(b) < Len(b) + 1 /\ Len(b) + 1 <= Len(b) + 1 /\ Len(b) + 1 \in Nat
          /\ Spliced(b, mid, Len(b), head, Len(b) + 1)
      BY <1>1, <2>2, ExtendedIs
    <3> QED
      BY <2>2, <2>3, <3>1, SplicedTracked
  <2>5. Tracked(mid \o c)
    <3>1. mid \in Seq(Line)
      BY <2>4 DEF Tracked, Once
    <3> HIDE DEF mid
    <3>2. /\ Len(mid) \in Nat /\ Len(mid) < Len(mid) + 1 /\ Len(mid) + 1 <= Len(mid) + 1 /\ Len(mid) + 1 \in Nat
          /\ Spliced(mid, mid \o c, Len(mid), c, Len(mid) + 1)
      BY <1>2, <3>1, ExtendedIs
    <3> QED
      BY <1>2, <2>4, <3>2, SplicedTracked
  <2> QED
    BY <2>1, <2>5
<1>4. CASE Sections(b, name) # {}
  <2> DEFINE i == Min(Sections(b, name))
             e == End(b, i)
  <2>1. i \in DOMAIN b
    <3>1. Sections(b, name) \in SUBSET Nat /\ Sections(b, name) \subseteq DOMAIN b
      BY <1>1 DEF Sections
    <3> QED
      BY <1>4, <3>1, MinIsLeast
  <2>2. WithSection(b, name, c) = Rewritten(b, i, c)
    BY <1>4 DEF WithSection
  <2> HIDE DEF i
  <2>3. i \in Nat /\ e \in Nat /\ i < e /\ e <= Len(b) + 1 /\ Spliced(b, Rewritten(b, i, c), i, c, e)
    BY <1>1, <1>2, <2>1, RewrittenIs
  <2> HIDE DEF e
  <2>4. Tracked(Rewritten(b, i, c))
    BY <1>2, <2>3, SplicedTracked
  <2> QED
    BY <2>2, <2>4
<1> QED
  BY <1>3, <1>4


------------------------------------------------------------------------------
(* The record's audit trail *)

LEMMA InitKeeps == BodyInit => BodyInv
<1> SUFFICES ASSUME BodyInit PROVE BodyInv
  OBVIOUS
<1>1. body \in AuthorText
  BY DEF BodyInit, AuthorText
<1>2. /\ body \in Seq(Line)
      /\ \A x \in 1 .. Len(body) : \A e \in DOMAIN Entry : body[x] # Text(Entry[e])
  BY <1>1, AuthorTextIs
<1>3. DOMAIN body = 1 .. Len(body)
  BY <1>2
<1>4. Tracked(body)
  BY <1>2, <1>3 DEF Tracked, Once
<1>5. LogStands /\ ReasonStands
  BY NothingIsInOrder DEF BodyInit, LogStands, ReasonStands
<1>6. made = 0 /\ log = {} /\ reason = None /\ draft = None /\ 0 \in 0 .. Len(Entry)
  BY EntriesDiffer DEF BodyInit
<1> QED
  BY <1>4, <1>5, <1>6 DEF BodyInv, AuditTrailStands

\* What the invariant says of the comments and the reason.
LEMMA InvIs ==
  ASSUME BodyInv
  PROVE  /\ body \in Seq(Line) /\ Tracked(body)
         /\ made \in Nat /\ made <= Len(Entry) /\ Len(Entry) \in Nat
         /\ log \in SUBSET DOMAIN Entry /\ (\A d \in log : d <= made)
         /\ InOrder(body, log)
         /\ reason # None => reason \in Reason /\ Text(reason).level = 0 /\ Opens(body, Text(reason))
         /\ draft # None => Tracked(draft)
<1>1. DOMAIN Entry = 1 .. Len(Entry) /\ Len(Entry) \in Nat
  BY EntriesDiffer
<1>2. made \in Nat /\ made <= Len(Entry) /\ log \in SUBSET DOMAIN Entry /\ \A d \in log : d <= made
  BY <1>1 DEF BodyInv
<1>3. body \in Seq(Line) /\ Tracked(body) /\ (draft # None => Tracked(draft))
  BY DEF BodyInv, Tracked, Once
<1>4. InOrder(body, log)
  BY DEF BodyInv, AuditTrailStands, LogStands
<1>5. reason # None => reason \in Reason /\ Text(reason).level = 0 /\ Opens(body, Text(reason))
  BY Lines DEF BodyInv, AuditTrailStands, ReasonStands
<1> QED
  BY <1>1, <1>2, <1>3, <1>4, <1>5

\* The steps.
LEMMA CommentKeeps == BodyInv /\ Comment => BodyInv'
<1> SUFFICES ASSUME BodyInv, Comment PROVE BodyInv'
  OBVIOUS
<1> DEFINE n == made + 1
           next == Appended(body, Entry[n])
<1>1. /\ made < Len(Entry) /\ made' = n /\ body' = next /\ log' = log \cup {n}
      /\ draft' = draft /\ reason' = reason
  BY DEF Comment
<1>2. n \in DOMAIN Entry /\ n \in 0 .. Len(Entry) /\ made \in Nat /\ \A e \in Int : e <= made => e <= n
  BY <1>1, InvIs, EntriesDiffer
<1>3. /\ InOrder(next, log \cup {n})
      /\ Once(next)
      /\ \A x \in DOMAIN next : \A d \in DOMAIN Entry : next[x] = Text(Entry[d]) => d <= n
  BY <1>2, InvIs, AppendedKeepsLog
<1>4. reason # None => Opens(next, Text(reason))
  BY <1>2, InvIs, AppendedKeepsReason
<1> HIDE DEF next
<1>5. Tracked(body)'
  BY <1>1, <1>3 DEF Tracked
<1>6. (draft # None => Tracked(draft))'
  BY <1>1, <1>2, InvIs, EntriesDiffer DEF Tracked
<1>7. LogStands' /\ ReasonStands'
  BY <1>1, <1>3, <1>4 DEF LogStands, ReasonStands
<1>8. (made \in 0 .. Len(Entry) /\ log \subseteq 1 .. made)'
  BY <1>1, <1>2, InvIs DEF BodyInv
<1>9. (reason \in Reason \cup {None})'
  BY <1>1 DEF BodyInv
<1> QED
  BY <1>5, <1>6, <1>7, <1>8, <1>9 DEF BodyInv, AuditTrailStands

LEMMA CancelIsSound ==
  ASSUME BodyInv, NEW r \in Reason, Cancel(r)
  PROVE  BodyInv'
<1> DEFINE next == WithReason(body, r)
<1>1. /\ body' = next /\ reason' = r /\ draft' = draft /\ made' = made
      /\ log' = IF ReasonInLog(body) THEN {e \in log : Contains(next, Text(Entry[e]))} ELSE log
  BY DEF Cancel
<1>2. log' \subseteq log /\ (ReasonInLog(body) => log' = {e \in log : Contains(next, Text(Entry[e]))})
  BY <1>1
<1>3. Tracked(next) /\ Opens(next, Text(r)) /\ InOrder(next, log')
  BY <1>2, InvIs, CancelKeeps
<1> HIDE DEF next
<1>4. Tracked(body)'
  BY <1>1, <1>3 DEF Tracked
<1>5. (draft # None => Tracked(draft))'
  BY <1>1, InvIs DEF Tracked
<1>6. LogStands' /\ ReasonStands'
  BY <1>1, <1>3 DEF LogStands, ReasonStands
<1>7. (made \in 0 .. Len(Entry) /\ log \subseteq 1 .. made /\ reason \in Reason \cup {None})'
  BY <1>1, <1>2 DEF BodyInv
<1> QED
  BY <1>4, <1>5, <1>6, <1>7 DEF BodyInv, AuditTrailStands

LEMMA ReadKeeps == BodyInv /\ ReadBody => BodyInv'
BY DEF BodyInv, ReadBody, AuditTrailStands, LogStands, ReasonStands, Tracked

\* An edit that is saved, with or without --force, whatever it makes of the body.
LEMMA SaveKeeps ==
  ASSUME BodyInv, NEW next, Tracked(next), Save(next) \/ SaveByForce(next)
  PROVE  BodyInv'
<1>1. /\ body' = next /\ draft' = None /\ made' = made
      /\ log' = log \/ (Comments \in Dropped(body, next) /\ log' = {})
      /\ reason' = reason \/ (CancellationReason \in Dropped(body, next) /\ reason' = None)
      /\ (log' = log => log = {} \/ Comments \notin Dropped(body, next))
      /\ (reason' = reason => reason = None \/ CancellationReason \notin Dropped(body, next))
  <2>1. CASE Save(next)
    BY <2>1 DEF Save
  <2>2. CASE SaveByForce(next)
    BY <2>2 DEF SaveByForce
  <2> QED
    BY <2>1, <2>2
<1>2. Once(next) /\ next \in Seq(Line)
  BY DEF Tracked, Once
<1>3. InOrder(next, log')
  <2>1. CASE log' = {}
    BY <2>1, NothingIsInOrder
  <2>2. CASE log' = log /\ Comments \notin Dropped(body, next)
    BY <2>2, <1>2, InvIs, EditKeepsLog
  <2> QED
    BY <2>1, <2>2, <1>1
<1>4. reason' # None => Opens(next, Text(reason'))
  <2> SUFFICES ASSUME reason' # None PROVE Opens(next, Text(reason'))
    OBVIOUS
  <2>1. reason' = reason /\ CancellationReason \notin Dropped(body, next)
    BY <1>1
  <2>2. Text(reason).level = 0 /\ Opens(body, Text(reason)) /\ body \in Seq(Line)
    BY <2>1, InvIs
  <2>3. Opens(next, Text(reason))
    BY <1>2, <2>1, <2>2, EditKeepsReason
  <2> QED
    BY <2>1, <2>3
<1>5. Tracked(body)'
  BY <1>1 DEF Tracked
<1>6. (draft # None => Tracked(draft))'
  BY <1>1
<1>7. LogStands' /\ ReasonStands'
  BY <1>1, <1>3, <1>4 DEF LogStands, ReasonStands
<1>8. (made \in 0 .. Len(Entry) /\ log \subseteq 1 .. made /\ reason \in Reason \cup {None})'
  BY <1>1 DEF BodyInv
<1> QED
  BY <1>5, <1>6, <1>7, <1>8 DEF BodyInv, AuditTrailStands

LEMMA EditBodyKeeps == BodyInv /\ EditBody => BodyInv'
<1> SUFFICES ASSUME BodyInv, EditBody PROVE BodyInv'
  OBVIOUS
<1>1. PICK next \in Changes(draft) : Save(next) \/ SaveByForce(next)
  BY DEF EditBody
<1>2. Tracked(draft)
  BY InvIs DEF EditBody
<1>3. Tracked(next)
  BY <1>2, ChangesTracked
<1> QED
  BY <1>1, <1>3, SaveKeeps

LEMMA EditSectionKeeps == BodyInv /\ EditSection => BodyInv'
<1> SUFFICES ASSUME BodyInv, EditSection PROVE BodyInv'
  OBVIOUS
<1>1. \E h \in Heading : \E c \in AuthorText :
        Save(WithSection(body, h.text, c)) \/ SaveByForce(WithSection(body, h.text, c))
  BY DEF EditSection, AuthorText
<1>2. PICK h \in Heading : \E c \in AuthorText :
        Save(WithSection(body, h.text, c)) \/ SaveByForce(WithSection(body, h.text, c))
  BY <1>1
<1>3. PICK c \in AuthorText :
        Save(WithSection(body, h.text, c)) \/ SaveByForce(WithSection(body, h.text, c))
  BY <1>2
<1>4. Tracked(WithSection(body, h.text, c))
  BY InvIs, SectionTracked
<1> QED
  BY <1>3, <1>4, SaveKeeps

LEMMA BodyStutterKeeps == BodyInv /\ UNCHANGED bodyVars => BodyInv'
BY DEF BodyInv, bodyVars, AuditTrailStands, LogStands, ReasonStands, Tracked

\* The invariant is inductive.
LEMMA BodyStepKeeps == BodyInv /\ [BodyNext]_bodyVars => BodyInv'
<1> SUFFICES ASSUME BodyInv, [BodyNext]_bodyVars PROVE BodyInv'
  OBVIOUS
<1>1. CASE Comment
  BY <1>1, CommentKeeps
<1>2. CASE \E r \in Reason : Cancel(r)
  BY <1>2, CancelIsSound
<1>3. CASE ReadBody
  BY <1>3, ReadKeeps
<1>4. CASE EditBody
  BY <1>4, EditBodyKeeps
<1>5. CASE EditSection
  BY <1>5, EditSectionKeeps
<1>6. CASE UNCHANGED bodyVars
  BY <1>6, BodyStutterKeeps
<1> QED
  BY <1>1, <1>2, <1>3, <1>4, <1>5, <1>6 DEF BodyNext

\* Whatever is edited without --force, from whatever draft, the comments and the
\* cancellation reason that were recorded stay where the next command finds
\* them (task_comment.go, task_edit.go:652-672).
THEOREM AuditTrailKept == BodySpec => []AuditTrailStands
<1>1. BodyInv => AuditTrailStands
  BY DEF BodyInv
<1> QED
  BY <1>1, InitKeeps, BodyStepKeeps, PTL DEF BodySpec
==============================================================================
