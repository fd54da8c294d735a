---------------------------- MODULE TaskIdsProofs ----------------------------
(***************************************************************************)
(* Proofs about TaskIds, for every set of commands, every number of task   *)
(* IDs and of child letters, and for records in the store or the project:  *)
(* no ID is used twice, no mark falls, and each of the two locks is used   *)
(* as Mutex says.                                                          *)
(***************************************************************************)
EXTENDS TaskIds, TLAPS, WellFoundedInduction

------------------------------------------------------------------------------
(* Numbers and letters *)

\* A non-empty set of bounded naturals has a greatest element.
LEMMA MaxIsGreatest ==
  ASSUME NEW N \in Nat, NEW S \in SUBSET (0 .. N), S # {}
  PROVE  Max(S) \in S /\ \A y \in S : y <= Max(S)
<1> DEFINE T == {N - x : x \in S}
<1>1. T \subseteq Nat /\ T # {}
  <2>1. PICK x \in S : TRUE
    OBVIOUS
  <2>2. N - x \in T
    OBVIOUS
  <2>3. \A y \in S : N - y \in Nat
    OBVIOUS
  <2> QED
    BY <2>2, <2>3
<1>2. PICK m \in T : \A y \in T : ~(<<y, m>> \in OpToRel(<, Nat))
  BY <1>1, NatLessThanWellFounded, WFMin, Zenon
<1>3. PICK g \in S : m = N - g
  OBVIOUS
<1>4. ASSUME NEW y \in T
      PROVE  m <= y
  <2>1. m \in Nat /\ y \in Nat
    BY <1>1
  <2>2. y < m => <<y, m>> \in OpToRel(<, Nat)
    BY <2>1 DEF OpToRel
  <2>3. ~(y < m)
    BY <2>2, <1>2, Zenon
  <2> QED
    BY <2>1, <2>3
<1>5. ASSUME NEW x \in S
      PROVE  g >= x
  <2>1. N - x \in T
    OBVIOUS
  <2>2. N - g <= N - x
    BY <2>1, <1>3, <1>4
  <2>3. g \in Nat /\ x \in Nat
    OBVIOUS
  <2> HIDE DEF T
  <2> QED
    BY <2>2, <2>3
<1>6. \E x \in S : \A y \in S : x >= y
  BY <1>5
<1>7. Max(S) \in S /\ \A y \in S : Max(S) >= y
  BY <1>6, Zenon DEF Max
<1> QED
  BY <1>7

\* A non-empty set of naturals has a least element, so Min is one of its members.
LEMMA MinIsLeast ==
  ASSUME NEW S \in SUBSET Nat, S # {}
  PROVE  Min(S) \in S
<1>1. PICK m \in S : \A y \in S : ~(<<y, m>> \in OpToRel(<, Nat))
  BY NatLessThanWellFounded, WFMin, Zenon
<1>2. ASSUME NEW y \in S
      PROVE  m <= y
  <2>1. m \in Nat /\ y \in Nat
    OBVIOUS
  <2>2. y < m => <<y, m>> \in OpToRel(<, Nat)
    BY <2>1 DEF OpToRel
  <2>3. ~(y < m)
    BY <2>2, <1>1, Zenon
  <2> QED
    BY <2>1, <2>3
<1> QED
  BY <1>2, Zenon DEF Min

\* highestTaskNumber stays within the bound and is no lower than any number present.
LEMMA HighestNumberBounds ==
  ASSUME NEW recs \in SUBSET ID
  PROVE  /\ HighestNumber(recs) \in 0 .. MaxNumber
         /\ \A n \in Number : <<n, 0>> \in recs => n <= HighestNumber(recs)
<1> DEFINE S == {0} \cup {n \in Number : <<n, 0>> \in recs}
<1>1. S \in SUBSET (0 .. MaxNumber) /\ S # {} /\ MaxNumber \in Nat
  BY ConstantsAssumption DEF Number
<1>2. Max(S) \in S /\ \A y \in S : y <= Max(S)
  BY <1>1, MaxIsGreatest
<1> QED
  BY <1>1, <1>2 DEF HighestNumber

\* The highest letter under a parent is a letter or none, and no child has a higher one.
LEMMA HighestLetterBounds ==
  ASSUME NEW recs \in SUBSET ID, NEW n \in Number
  PROVE  /\ HighestLetter(recs, n) \in Letter \cup {0}
         /\ \A l \in Letter : <<n, l>> \in recs => l <= HighestLetter(recs, n)
<1> DEFINE S == {0} \cup Letters(recs, n)
<1>1. S \in SUBSET (0 .. MaxLetter) /\ S # {} /\ MaxLetter \in Nat
  BY ConstantsAssumption DEF Letter, Letters
<1>2. Max(S) \in S /\ \A y \in S : y <= Max(S)
  BY <1>1, MaxIsGreatest
<1> QED
  BY <1>1, <1>2 DEF HighestLetter, Letters, Letter

\* An ID is a pair of a number and a letter.
LEMMA IDShape ==
  \A i \in ID : i = <<i[1], i[2]>> /\ i[1] \in Number /\ i[2] \in Letter \cup {0}
BY DEF ID

\* A spent ID raises the marks past itself and lowers none.
LEMMA RaisedCovers ==
  ASSUME NEW m \in Marks, NEW i \in ID
  PROVE  /\ Raised(m, i) \in Marks
         /\ Raised(m, i).next >= m.next
         /\ \A n \in Number : Raised(m, i).mark[n] >= m.mark[n]
         /\ Covers(Raised(m, i), i)
<1> DEFINE n0 == i[1]
<1> DEFINE l0 == i[2]
<1>1. n0 \in Number /\ l0 \in Letter \cup {0}
  BY IDShape
<1>2. /\ m.next \in 0 .. MaxNumber + 1
      /\ m.mark \in [Number -> Letter \cup {0}]
      /\ m = [next |-> m.next, mark |-> m.mark]
  BY DEF Marks
<1>3. CASE l0 = 0
  <2>1. Raised(m, i) = [m EXCEPT !.next = Higher(m.next, n0 + 1)]
    BY <1>3 DEF Raised
  <2>2. /\ Higher(m.next, n0 + 1) \in 0 .. MaxNumber + 1
        /\ Higher(m.next, n0 + 1) >= m.next
        /\ Higher(m.next, n0 + 1) > n0
    BY <1>1, <1>2, ConstantsAssumption DEF Higher, Number
  <2>3. \A n \in Number : m.mark[n] >= m.mark[n]
    BY <1>2, ConstantsAssumption DEF Letter
  <2> QED
    BY <1>2, <1>3, <2>1, <2>2, <2>3 DEF Covers, Marks
<1>4. CASE l0 # 0
  <2>1. Raised(m, i) = [next |-> m.next,
                        mark |-> [m.mark EXCEPT ![n0] = Higher(m.mark[n0], l0)]]
    BY <1>2, <1>4 DEF Raised
  <2>2. /\ Higher(m.mark[n0], l0) \in Letter \cup {0}
        /\ Higher(m.mark[n0], l0) >= m.mark[n0]
        /\ Higher(m.mark[n0], l0) >= l0
    BY <1>1, <1>2, ConstantsAssumption DEF Higher, Letter
  <2>3. \A n \in Number : Raised(m, i).mark[n] >= m.mark[n]
    BY <1>2, <2>1, <2>2, ConstantsAssumption DEF Letter
  <2> QED
    BY <1>1, <1>2, <1>4, <2>1, <2>2, <2>3, ConstantsAssumption DEF Covers, Marks
<1> QED
  BY <1>3, <1>4

\* The marks that init writes cover every record it found.
LEMMA ImpliedCovers ==
  ASSUME NEW m \in Marks, NEW early \in SUBSET ID, NEW late \in SUBSET ID
  PROVE  /\ Implied(m, early, late) \in Marks
         /\ Implied(m, early, late).next >= m.next
         /\ \A n \in Number : Implied(m, early, late).mark[n] >= m.mark[n]
         /\ \A i \in early : Covers(Implied(m, early, late), i)
<1> DEFINE w == Implied(m, early, late)
<1> DEFINE h == HighestNumber(early \cup late)
<1>1. /\ h \in 0 .. MaxNumber
      /\ \A n \in Number : <<n, 0>> \in early => n <= h
  BY HighestNumberBounds
<1>2. \A n \in Number : /\ HighestLetter(early, n) \in Letter \cup {0}
                        /\ \A l \in Letter : <<n, l>> \in early => l <= HighestLetter(early, n)
  BY HighestLetterBounds
<1>3. w.next = Higher(m.next, h + 1)
      /\ w.mark = [n \in Number |-> Higher(m.mark[n], HighestLetter(early, n))]
      /\ w = [next |-> w.next, mark |-> w.mark]
  BY DEF Implied
<1> HIDE DEF h
<1> HIDE DEF w
<1>4. w.next \in 0 .. MaxNumber + 1 /\ w.next >= m.next /\ w.next > h
  BY <1>1, <1>3, ConstantsAssumption DEF Higher, Marks
<1>5. \A n \in Number : /\ w.mark[n] \in Letter \cup {0}
                        /\ w.mark[n] >= m.mark[n]
                        /\ w.mark[n] >= HighestLetter(early, n)
  BY <1>2, <1>3, ConstantsAssumption DEF Higher, Marks, Letter
<1>6. w \in Marks
  BY <1>3, <1>4, <1>5 DEF Marks
<1>7. ASSUME NEW i \in early
      PROVE  Covers(w, i)
  <2>1. i = <<i[1], i[2]>> /\ i[1] \in Number /\ i[2] \in Letter \cup {0}
    BY IDShape
  <2>2. CASE i[2] = 0
    BY <2>1, <2>2, <1>1, <1>4, ConstantsAssumption DEF Covers, Number
  <2>3. CASE i[2] # 0
    BY <2>1, <2>3, <1>2, <1>5, ConstantsAssumption DEF Covers, Letter
  <2> QED
    BY <2>2, <2>3
<1>8. w = Implied(m, early, late)
  BY DEF w
<1> QED
  BY <1>4, <1>5, <1>6, <1>7, <1>8

\* writeProjectState's merge lowers nothing the command had read.
LEMMA MergedKeeps ==
  ASSUME NEW m \in Marks, TypeOK
  PROVE  /\ Merged(m) \in Marks
         /\ Merged(m).next >= m.next
         /\ \A n \in Number : Merged(m).mark[n] >= m.mark[n]
<1>1. /\ Merged(m).next = Higher(m.next, next)
      /\ Merged(m).mark = [n \in Number |-> Higher(m.mark[n], mark[n])]
      /\ Merged(m) = [next |-> Merged(m).next, mark |-> Merged(m).mark]
  BY DEF Merged
<1>2. Merged(m).next \in 0 .. MaxNumber + 1 /\ Merged(m).next >= m.next
  BY <1>1, ConstantsAssumption DEF Higher, Marks, TypeOK
<1>3. \A n \in Number : /\ Merged(m).mark[n] \in Letter \cup {0}
                        /\ Merged(m).mark[n] >= m.mark[n]
  BY <1>1, ConstantsAssumption DEF Higher, Marks, TypeOK, Letter
<1>4. Merged(m).mark \in [Number -> Letter \cup {0}]
  BY <1>1, <1>3
<1> QED
  BY <1>1, <1>2, <1>3, <1>4 DEF Marks

\* What a command writes into the state file.
LEMMA WrittenCovers ==
  ASSUME TypeOK, Progress, NEW c \in Cmd, pc[c] = "writeState"
  PROVE  /\ Written(c) \in Marks
         /\ Written(c).next >= copy[c].next
         /\ \A n \in Number : Written(c).mark[n] >= copy[c].mark[n]
         /\ \A i \in Remembered(c) : Covers(Written(c), i)
         /\ Remembered(c) \in SUBSET ID
<1>1. copy[c] \in Marks /\ seen[c] \in SUBSET ID /\ records \in SUBSET ID
  BY DEF TypeOK
<1>2. CASE job[c] = "create"
  <2>1. id[c] \in ID
    BY <1>2 DEF Progress, StSection
  <2>2. Written(c) = Raised(copy[c], id[c]) /\ Remembered(c) = {id[c]}
    BY <1>2 DEF Written, Remembered
  <2> QED
    BY <1>1, <2>1, <2>2, RaisedCovers
<1>3. CASE job[c] = "init"
  <2>1. Written(c) = Implied(copy[c], seen[c], records) /\ Remembered(c) = seen[c]
    BY <1>3 DEF Written, Remembered
  <2> QED
    BY <1>1, <2>1, ImpliedCovers
<1>4. CASE job[c] \notin {"create", "init"}
  <2>1. Written(c) = Merged(copy[c]) /\ Remembered(c) = {}
    BY <1>4 DEF Written, Remembered
  <2> QED
    BY <1>1, <2>1, MergedKeeps
<1> QED
  BY <1>2, <1>3, <1>4

------------------------------------------------------------------------------
(* Type correctness *)

\* An absent state file is a well-formed set of marks.
LEMMA NoMarksType == NoMarks \in Marks
BY ConstantsAssumption DEF NoMarks, Marks

\* The value that stands for no ID is not an ID.
LEMMA NoIdIsNoID == NoId \notin ID
BY DEF NoId, ID, Number

\* The initial states are well typed.
LEMMA TypeInit == Init => TypeOK
BY NoMarksType, ConstantsAssumption DEF Init, TypeOK, PC

\* What a command finds present are IDs.
LEMMA PresentType ==
  ASSUME TypeOK, NEW c \in Cmd
  PROVE  Present(c) \in SUBSET ID
BY DEF TypeOK, Present

\* What a command chooses is an ID within the bounds.
LEMMA CreateType ==
  ASSUME TypeOK, Progress, NEW c \in Cmd, Create(c)
  PROVE  TypeOK'
<1> USE ConstantsAssumption, NoMarksType DEF TypeOK, Goto, Step, PC, RecSection, StSection,
        state, locks, ghost
<1>1. CASE StartCreate(c)
  BY <1>1 DEF StartCreate
<1>2. CASE LockRecords(c)
  BY <1>2 DEF LockRecords, Spent
<1>3. CASE ReadCounter(c)
  BY <1>3 DEF ReadCounter
<1>4. CASE ScanNumbers(c)
  <2>1. ASSUME Higher(base[c], HighestNumber(Present(c)) + 1) \in Number
        PROVE  <<Higher(base[c], HighestNumber(Present(c)) + 1), 0>> \in ID
    BY <2>1 DEF ID
  <2> QED
    BY <1>4, <2>1 DEF ScanNumbers
<1>5. CASE ScanLetters(c)
  <2>1. parent[c] \in Number
    BY <1>5 DEF ScanLetters
  <2>2. HighestLetter(Present(c), parent[c]) \in Letter \cup {0}
    BY <2>1, PresentType, HighestLetterBounds
  <2>3. HighestLetter(Present(c), parent[c]) \in Nat
    BY <2>2 DEF Letter
  <2> QED
    BY <1>5, <2>3 DEF ScanLetters
<1>6. CASE ReadMark(c)
  <2>1. parent[c] \in Number
    BY <1>6 DEF ReadMark, Progress
  <2>2. ASSUME NEW l \in Letter
        PROVE  <<parent[c], l>> \in ID
    BY <2>1 DEF ID
  <2> QED
    BY <1>6, <2>2 DEF ReadMark
<1>7. CASE FirstFreeLetter(c)
  <2> DEFINE free == Letter \ Letters(Present(c), parent[c])
  <2>1. CASE free = {}
    BY <1>7, <2>1 DEF FirstFreeLetter
  <2>2. CASE free # {}
    <3>1. Min(free) \in free
      <4>1. free \in SUBSET Nat
        BY DEF Letter
      <4> HIDE DEF free
      <4> QED
        BY <2>2, <4>1, MinIsLeast
    <3>2. parent[c] \in Number
      BY <1>7 DEF FirstFreeLetter
    <3>3. <<parent[c], Min(free)>> \in ID
      BY <3>1, <3>2 DEF ID
    <3> QED
      BY <1>7, <2>2, <3>3 DEF FirstFreeLetter
  <2> QED
    BY <2>1, <2>2
<1>8. CASE CheckFree(c)
  BY <1>8 DEF CheckFree
<1>9. CASE WriteRecord(c)
  <2>1. id[c] \in ID
    BY <1>9 DEF WriteRecord, Progress
  <2>2. fate' \in [ID -> {"new", "written", "spent"}]
    BY <1>9, <2>1 DEF WriteRecord
  <2>3. pc' \in [Cmd -> PC]
    BY <1>9 DEF WriteRecord
  <2> QED
    BY <1>9, <2>1, <2>2, <2>3 DEF WriteRecord
<1>10. CASE UnlockRecords(c)
  BY <1>10 DEF UnlockRecords, Forget
<1> QED
  BY <1>1, <1>2, <1>3, <1>4, <1>5, <1>6, <1>7, <1>8, <1>9, <1>10 DEF Create

\* A step on the state file keeps every variable in its set.
LEMMA PersistType ==
  ASSUME TypeOK, Progress, NEW c \in Cmd, Persist(c)
  PROVE  TypeOK'
<1> USE ConstantsAssumption, NoMarksType DEF TypeOK, Goto, Step, PC, RecSection, StSection,
        state, locks, ghost
<1>1. CASE LockState(c)
  BY <1>1 DEF LockState
<1>2. CASE ReadState(c)
  <2>1. [next |-> next, mark |-> mark] \in Marks
    BY DEF Marks
  <2> QED
    BY <1>2, <2>1 DEF ReadState
<1>3. CASE WriteState(c)
  <2>1. Written(c) \in Marks
    BY <1>3, WrittenCovers DEF WriteState
  <2>2. Written(c).next \in 0 .. MaxNumber + 1 /\ Written(c).mark \in [Number -> Letter \cup {0}]
    BY <2>1 DEF Marks
  <2>3. fate' \in [ID -> {"new", "written", "spent"}]
    BY <1>3 DEF WriteState
  <2> QED
    BY <1>3, <2>2, <2>3 DEF WriteState
<1>4. CASE FreeState(c)
  <2>1. CASE job[c] = "create"
    BY <1>4, <2>1 DEF FreeState
  <2>2. CASE job[c] # "create"
    BY <1>4, <2>2 DEF FreeState, Forget
  <2> QED
    BY <2>1, <2>2
<1> QED
  BY <1>1, <1>2, <1>3, <1>4 DEF Persist

\* So do the steps of init and store path, failures, crashes and the environment.
LEMMA OtherType ==
  ASSUME TypeOK,
         \/ \E c \in Cmd : StartInit(c) \/ StartPath(c) \/ GiveUp(c) \/ GiveUpAll(c) \/ Crash(c)
         \/ HandDelete \/ Reclaim \/ UNCHANGED vars
  PROVE  TypeOK'
<1> USE ConstantsAssumption, NoMarksType DEF TypeOK, Goto, Step, PC, RecSection, StSection,
        state, locks, ghost
<1>1. ASSUME NEW c \in Cmd, StartInit(c) \/ StartPath(c)
      PROVE  TypeOK'
  BY <1>1 DEF StartInit, StartPath
<1>2. ASSUME NEW c \in Cmd, GiveUp(c)
      PROVE  TypeOK'
  BY <1>2 DEF GiveUp
<1>3. ASSUME NEW c \in Cmd, GiveUpAll(c) \/ Crash(c)
      PROVE  TypeOK'
  BY <1>3 DEF GiveUpAll, Crash, Forget
<1>4. CASE HandDelete \/ Reclaim
  BY <1>4 DEF HandDelete, Reclaim
<1>5. CASE UNCHANGED vars
  BY <1>5 DEF vars
<1> QED
  BY <1>1, <1>2, <1>3, <1>4, <1>5

------------------------------------------------------------------------------
(* Locks and control *)

\* Every step leaves each command with the job and the ID its place calls for.
LEMMA ProgressStep == TypeOK /\ Progress /\ [Next]_vars => Progress'
<1> SUFFICES ASSUME TypeOK, Progress, [Next]_vars
             PROVE  Progress'
  OBVIOUS
<1> USE DEF Progress, TypeOK, Goto, Step, RecSection, StSection, PC, state, locks, ghost
<1>1. ASSUME NEW c \in Cmd, Create(c)
      PROVE  Progress'
  <2>1. CASE StartCreate(c)
    BY <2>1 DEF StartCreate
  <2>2. CASE LockRecords(c)
    BY <2>2 DEF LockRecords
  <2>3. CASE ReadCounter(c)
    BY <2>3 DEF ReadCounter
  <2>4. CASE ScanNumbers(c)
    BY <2>4 DEF ScanNumbers, ID
  <2>5. CASE ScanLetters(c)
    BY <2>5 DEF ScanLetters
  <2>6. CASE ReadMark(c)
    BY <2>6 DEF ReadMark, ID
  <2>7. CASE FirstFreeLetter(c)
    <3> DEFINE free == Letter \ Letters(Present(c), parent[c])
    <3>2. CASE free = {}
      BY <2>7, <3>2 DEF FirstFreeLetter
    <3>3. CASE free # {}
      <4>1. Min(free) \in free
        <5>1. free \in SUBSET Nat
          BY DEF Letter
        <5> HIDE DEF free
        <5> QED
          BY <3>3, <5>1, MinIsLeast
      <4>2. <<parent[c], Min(free)>> \in ID
        BY <2>7, <4>1 DEF FirstFreeLetter, ID
      <4> QED
        BY <2>7, <3>3, <4>2 DEF FirstFreeLetter
    <3> QED
      BY <3>2, <3>3
  <2>8. CASE CheckFree(c)
    BY <2>8 DEF CheckFree
  <2>9. CASE WriteRecord(c)
    BY <2>9 DEF WriteRecord
  <2>10. CASE UnlockRecords(c)
    BY <2>10 DEF UnlockRecords, Forget
  <2> QED
    BY <1>1, <2>1, <2>2, <2>3, <2>4, <2>5, <2>6, <2>7, <2>8, <2>9, <2>10 DEF Create
<1>2. ASSUME NEW c \in Cmd, Persist(c)
      PROVE  Progress'
  <2>1. CASE LockState(c)
    BY <2>1 DEF LockState
  <2>2. CASE ReadState(c)
    BY <2>2 DEF ReadState
  <2>3. CASE WriteState(c)
    BY <2>3 DEF WriteState
  <2>4. CASE FreeState(c) /\ job[c] = "create"
    BY <2>4 DEF FreeState
  <2>5. CASE FreeState(c) /\ job[c] # "create"
    BY <2>5 DEF FreeState, Forget
  <2> QED
    BY <1>2, <2>1, <2>2, <2>3, <2>4, <2>5 DEF Persist
<1>3. ASSUME NEW c \in Cmd, StartInit(c) \/ StartPath(c)
      PROVE  Progress'
  BY <1>3 DEF StartInit, StartPath
<1>4. ASSUME NEW c \in Cmd, GiveUp(c)
      PROVE  Progress'
  BY <1>4 DEF GiveUp, OwnsState
<1>5. ASSUME NEW c \in Cmd, GiveUpAll(c) \/ Crash(c)
      PROVE  Progress'
  BY <1>5 DEF GiveUpAll, Crash, Forget
<1>6. CASE HandDelete \/ Reclaim \/ UNCHANGED vars
  BY <1>6 DEF HandDelete, Reclaim, vars
<1> QED
  BY <1>1, <1>2, <1>3, <1>4, <1>5, <1>6 DEF Next

\* Every step keeps every variable in its set.
LEMMA TypeStep == TypeOK /\ Progress /\ [Next]_vars => TypeOK'
BY CreateType, PersistType, OtherType DEF Next

\* No command has an ID at first.
LEMMA ProgressInit == Init => Progress
BY DEF Init, Progress, RecSection, StSection

\* Every variable stays in its set: no ID leaves the numbers and letters there are,
\* and no mark passes the last of them.
THEOREM TypeCorrect == Spec => []TypeOK
<1>1. Init => TypeOK /\ Progress
  BY TypeInit, ProgressInit
<1>2. TypeOK /\ Progress /\ [Next]_vars => TypeOK' /\ Progress'
  BY TypeStep, ProgressStep
<1> QED
  BY <1>1, <1>2, PTL DEF Spec

------------------------------------------------------------------------------
(* Whose step it was *)

\* A command that stays where it is did not move: what it holds is unchanged.
LEMMA Stays ==
  ASSUME TypeOK, [Next]_vars, NEW d \in Cmd, pc'[d] = pc[d]
  PROVE  /\ id'[d] = id[d] /\ known'[d] = known[d]
         /\ base'[d] = base[d] /\ copy'[d] = copy[d] /\ parent'[d] = parent[d]
<1> USE DEF TypeOK, Goto, Step, ghost, RecSection, StSection
<1>1. ASSUME NEW c \in Cmd, Create(c)
      PROVE  /\ id'[d] = id[d] /\ known'[d] = known[d]
             /\ base'[d] = base[d] /\ copy'[d] = copy[d] /\ parent'[d] = parent[d]
  <2>1. c # d
    BY <1>1 DEF Create, StartCreate, LockRecords, ReadCounter, ScanNumbers, ScanLetters,
       ReadMark, FirstFreeLetter, CheckFree, WriteRecord, UnlockRecords
  <2> QED
    BY <1>1, <2>1 DEF Create, StartCreate, LockRecords, ReadCounter, ScanNumbers, ScanLetters,
       ReadMark, FirstFreeLetter, CheckFree, WriteRecord, UnlockRecords, Forget
<1>2. ASSUME NEW c \in Cmd, Persist(c)
      PROVE  /\ id'[d] = id[d] /\ known'[d] = known[d]
             /\ base'[d] = base[d] /\ copy'[d] = copy[d] /\ parent'[d] = parent[d]
  <2>1. c # d
    BY <1>2 DEF Persist, LockState, ReadState, WriteState, FreeState
  <2> QED
    BY <1>2, <2>1 DEF Persist, LockState, ReadState, WriteState, FreeState, Forget
<1>3. ASSUME NEW c \in Cmd, StartInit(c) \/ StartPath(c) \/ GiveUp(c) \/ GiveUpAll(c) \/ Crash(c)
      PROVE  /\ id'[d] = id[d] /\ known'[d] = known[d]
             /\ base'[d] = base[d] /\ copy'[d] = copy[d] /\ parent'[d] = parent[d]
  <2>1. c # d
    BY <1>3 DEF StartInit, StartPath, GiveUp, GiveUpAll, Crash, OwnsState
  <2> QED
    BY <1>3, <2>1 DEF StartInit, StartPath, GiveUp, GiveUpAll, Crash, Forget
<1>4. CASE HandDelete \/ Reclaim \/ UNCHANGED vars
  BY <1>4 DEF HandDelete, Reclaim, vars
<1> QED
  BY <1>1, <1>2, <1>3, <1>4 DEF Next

\* The only ways to the places where the invariants say something new.
LEMMA Arrives ==
  ASSUME TypeOK, [Next]_vars, NEW d \in Cmd, pc'[d] # pc[d]
  PROVE  /\ pc'[d] = "locked" => LockRecords(d)
         /\ pc'[d] = "scan" => ReadCounter(d)
         /\ pc'[d] = "readMark" => ScanLetters(d)
         /\ pc'[d] = "stat" => ScanNumbers(d) \/ ReadMark(d) \/ FirstFreeLetter(d)
         /\ pc'[d] = "write" => CheckFree(d)
         /\ pc'[d] = "writeState" => ReadState(d)
<1> USE DEF TypeOK, Goto, Step, RecSection, StSection
<1>1. ASSUME NEW c \in Cmd, Create(c)
      PROVE  /\ c = d
             /\ \/ StartCreate(d) \/ LockRecords(d) \/ ReadCounter(d) \/ ScanNumbers(d)
                \/ ScanLetters(d) \/ ReadMark(d) \/ FirstFreeLetter(d) \/ CheckFree(d)
                \/ WriteRecord(d) \/ UnlockRecords(d)
  <2>1. c = d
    BY <1>1 DEF Create, StartCreate, LockRecords, ReadCounter, ScanNumbers, ScanLetters,
       ReadMark, FirstFreeLetter, CheckFree, WriteRecord, UnlockRecords
  <2> QED
    BY <1>1, <2>1 DEF Create
<1>2. ASSUME StartCreate(d) \/ WriteRecord(d) \/ UnlockRecords(d)
      PROVE  pc'[d] \in {"wantRec", "wantState", "unlock", "idle"}
  BY <1>2 DEF StartCreate, WriteRecord, UnlockRecords
<1>3. ASSUME LockRecords(d) \/ ReadCounter(d) \/ ScanLetters(d)
      PROVE  /\ LockRecords(d) => pc'[d] = "locked"
             /\ ReadCounter(d) => pc'[d] = "scan"
             /\ ScanLetters(d) => pc'[d] = "readMark"
  BY <1>3 DEF LockRecords, ReadCounter, ScanLetters
<1>4. ASSUME ScanNumbers(d) \/ ReadMark(d) \/ FirstFreeLetter(d)
      PROVE  pc'[d] \in {"stat", "unlock"}
  BY <1>4 DEF ScanNumbers, ReadMark, FirstFreeLetter
<1>5. ASSUME CheckFree(d)
      PROVE  pc'[d] \in {"write", "unlock"}
  BY <1>5 DEF CheckFree
<1>6. CASE \E c \in Cmd : Create(c)
  BY <1>6, <1>1, <1>2, <1>3, <1>4, <1>5
<1>7. CASE \E c \in Cmd : Persist(c)
  BY <1>7 DEF Persist, LockState, ReadState, WriteState, FreeState
<1>8. CASE \E c \in Cmd : StartInit(c) \/ StartPath(c) \/ GiveUp(c) \/ GiveUpAll(c) \/ Crash(c)
  BY <1>8 DEF StartInit, StartPath, GiveUp, GiveUpAll, Crash
<1>9. CASE HandDelete \/ Reclaim \/ UNCHANGED vars
  BY <1>9 DEF HandDelete, Reclaim, vars
<1> QED
  BY <1>6, <1>7, <1>8, <1>9 DEF Next

------------------------------------------------------------------------------
(* The locks, and the state file under its lock *)

\* Nobody enters a section without its lock or loses the lock inside it.
LEMMA LocksStep ==
  TypeOK /\ Progress /\ OwnersHoldLocks /\ [Next]_vars => OwnersHoldLocks'
<1> SUFFICES ASSUME TypeOK, Progress, OwnersHoldLocks, [Next]_vars
             PROVE  OwnersHoldLocks'
  OBVIOUS
<1> USE ConstantsAssumption
    DEF OwnersHoldLocks, OwnsRecords, OwnsState, RecSection, StSection, TypeOK, Goto, Step,
        state, locks, ghost
<1>1. ASSUME NEW c \in Cmd, Create(c)
      PROVE  OwnersHoldLocks'
  <2>1. CASE StartCreate(c)
    BY <2>1 DEF StartCreate
  <2>2. CASE LockRecords(c)
    BY <2>2 DEF LockRecords
  <2>3. CASE ReadCounter(c) \/ ScanNumbers(c) \/ ScanLetters(c)
    BY <2>3 DEF ReadCounter, ScanNumbers, ScanLetters
  <2>4. CASE ReadMark(c) \/ FirstFreeLetter(c) \/ CheckFree(c)
    BY <2>4 DEF ReadMark, FirstFreeLetter, CheckFree
  <2>5. CASE WriteRecord(c)
    BY <2>5 DEF WriteRecord
  <2>6. CASE UnlockRecords(c)
    BY <2>6 DEF UnlockRecords, Forget
  <2> QED
    BY <1>1, <2>1, <2>2, <2>3, <2>4, <2>5, <2>6 DEF Create
<1>2. ASSUME NEW c \in Cmd, Persist(c)
      PROVE  OwnersHoldLocks'
  <2>1. CASE LockState(c)
    BY <2>1 DEF LockState
  <2>2. CASE ReadState(c) \/ WriteState(c)
    BY <2>2 DEF ReadState, WriteState
  <2>3. CASE FreeState(c) /\ job[c] = "create"
    BY <2>3 DEF FreeState
  <2>4. CASE FreeState(c) /\ job[c] # "create"
    BY <2>4 DEF FreeState, Forget
  <2> QED
    BY <1>2, <2>1, <2>2, <2>3, <2>4 DEF Persist
<1>3. ASSUME NEW c \in Cmd, StartInit(c) \/ StartPath(c)
      PROVE  OwnersHoldLocks'
  BY <1>3 DEF StartInit, StartPath
<1>4. ASSUME NEW c \in Cmd, GiveUp(c)
      PROVE  OwnersHoldLocks'
  BY <1>4 DEF GiveUp, Progress
<1>5. ASSUME NEW c \in Cmd, GiveUpAll(c) \/ Crash(c)
      PROVE  OwnersHoldLocks'
  BY <1>5 DEF GiveUpAll, Crash, Forget
<1>6. CASE HandDelete \/ UNCHANGED vars
  BY <1>6 DEF HandDelete, vars
<1>7. CASE Reclaim
  BY <1>7 DEF Reclaim
<1> QED
  BY <1>1, <1>2, <1>3, <1>4, <1>5, <1>6, <1>7 DEF Next

\* Only WriteState changes the marks.
LEMMA OnlyWriteState ==
  ASSUME [Next]_vars, ~(\E c \in Cmd : WriteState(c))
  PROVE  next' = next /\ mark' = mark
BY DEF Next, Create, Persist, StartCreate, LockRecords, ReadCounter, ScanNumbers, ScanLetters,
       ReadMark, FirstFreeLetter, CheckFree, WriteRecord, UnlockRecords, LockState, ReadState,
       FreeState, StartInit, StartPath, GiveUp, GiveUpAll, Crash, HandDelete, Reclaim,
       vars, state

\* The state a command read is still there when it writes.
LEMMA CopyStep ==
  TypeOK /\ OwnersHoldLocks /\ CopyIsCurrent /\ [Next]_vars => CopyIsCurrent'
<1> SUFFICES ASSUME TypeOK, OwnersHoldLocks, CopyIsCurrent, [Next]_vars,
                    NEW d \in Cmd, pc'[d] = "writeState"
             PROVE  copy'[d] = [next |-> next', mark |-> mark']
  BY DEF CopyIsCurrent
<1> USE DEF TypeOK, Goto, Step
<1>1. CASE \E c \in Cmd : WriteState(c)
  <2>1. PICK c \in Cmd : WriteState(c)
    BY <1>1
  <2>2. c # d /\ pc[d] = "writeState"
    BY <2>1 DEF WriteState
  <2>3. stLock = c /\ stLock = d
    BY <2>1, <2>2 DEF OwnersHoldLocks, OwnsState, StSection, WriteState
  <2> QED
    BY <2>2, <2>3
<1>2. CASE ReadState(d)
  BY <1>2 DEF ReadState, state
<1>3. CASE ~(\E c \in Cmd : WriteState(c)) /\ ~ReadState(d)
  <2>1. next' = next /\ mark' = mark
    BY <1>3, OnlyWriteState
  <2>2. pc[d] = "writeState" /\ copy'[d] = copy[d]
    BY <1>3, Arrives, Stays
  <2> QED
    BY <2>1, <2>2 DEF CopyIsCurrent
<1> QED
  BY <1>1, <1>2, <1>3

\* No step lowers a mark.
LEMMA MarksStep ==
  ASSUME TypeOK, Progress, CopyIsCurrent, [Next]_vars
  PROVE  /\ next' >= next
         /\ \A n \in Number : mark'[n] >= mark[n]
<1>1. CASE \E c \in Cmd : WriteState(c)
  <2>1. PICK c \in Cmd : WriteState(c)
    BY <1>1
  <2>2. pc[c] = "writeState" /\ next' = Written(c).next /\ mark' = Written(c).mark
    BY <2>1 DEF WriteState, Step
  <2>3. copy[c].next = next /\ copy[c].mark = mark
    BY <2>2 DEF CopyIsCurrent
  <2> QED
    BY <2>2, <2>3, WrittenCovers
<1>2. CASE ~(\E c \in Cmd : WriteState(c))
  BY <1>2, OnlyWriteState, ConstantsAssumption DEF TypeOK, Letter
<1> QED
  BY <1>1, <1>2

\* What the marks cover stays covered.
LEMMA CoveredStays ==
  ASSUME TypeOK, Progress, CopyIsCurrent, [Next]_vars, TypeOK',
         NEW i \in ID, Covers([next |-> next, mark |-> mark], i)
  PROVE  Covers([next |-> next', mark |-> mark'], i)
<1>1. i[1] \in Number /\ i[2] \in Letter \cup {0}
  BY IDShape
<1>2. next' >= next /\ mark'[i[1]] >= mark[i[1]]
  BY <1>1, MarksStep
<1>3. /\ i[2] = 0 => i[1] < next
      /\ i[2] # 0 => i[2] <= mark[i[1]]
  BY DEF Covers
<1>4. /\ i[1] \in Nat /\ i[2] \in Nat
      /\ next \in Nat /\ next' \in Nat /\ mark[i[1]] \in Nat /\ mark'[i[1]] \in Nat
  <2>1. /\ next \in 0 .. MaxNumber + 1 /\ next' \in 0 .. MaxNumber + 1
        /\ mark[i[1]] \in Letter \cup {0} /\ mark'[i[1]] \in Letter \cup {0}
    BY <1>1 DEF TypeOK
  <2>2. Number \in SUBSET Nat /\ Letter \cup {0} \in SUBSET Nat
    BY ConstantsAssumption DEF Number, Letter
  <2>3. next \in Nat /\ next' \in Nat
    BY <2>1, ConstantsAssumption
  <2> QED
    BY <1>1, <2>1, <2>2, <2>3
<1>5. /\ i[2] = 0 => i[1] < next'
      /\ i[2] # 0 => i[2] <= mark'[i[1]]
  BY <1>2, <1>3, <1>4
<1> QED
  BY <1>5 DEF Covers

\* The marks are written before an ID counts as spent, and cover it for good.
LEMMA SpentStep ==
  ASSUME TypeOK, Progress, CopyIsCurrent, SpentIsCovered, [Next]_vars, TypeOK'
  PROVE  SpentIsCovered'
<1> SUFFICES ASSUME NEW i \in ID, fate'[i] = "spent"
             PROVE  Covers([next |-> next', mark |-> mark'], i)
  BY DEF SpentIsCovered, Spent
<1>1. CASE fate[i] = "spent"
  BY <1>1, CoveredStays DEF SpentIsCovered, Spent
<1>2. CASE fate[i] # "spent"
  <2>1. PICK c \in Cmd : WriteState(c)
    <3>1. ASSUME NEW c \in Cmd, WriteRecord(c)
          PROVE  FALSE
      BY <1>2, <3>1 DEF WriteRecord, TypeOK
    <3>2. ASSUME NEW c \in Cmd, Create(c), ~WriteRecord(c)
          PROVE  FALSE
      BY <1>2, <3>2 DEF Create, StartCreate, LockRecords, ReadCounter, ScanNumbers, ScanLetters,
         ReadMark, FirstFreeLetter, CheckFree, UnlockRecords, ghost
    <3>3. ASSUME NEW c \in Cmd, LockState(c) \/ ReadState(c) \/ FreeState(c)
          PROVE  FALSE
      BY <1>2, <3>3 DEF LockState, ReadState, FreeState, ghost
    <3>4. ASSUME NEW c \in Cmd,
                 StartInit(c) \/ StartPath(c) \/ GiveUp(c) \/ GiveUpAll(c) \/ Crash(c)
          PROVE  FALSE
      BY <1>2, <3>4 DEF StartInit, StartPath, GiveUp, GiveUpAll, Crash, ghost
    <3>5. CASE HandDelete \/ Reclaim \/ UNCHANGED vars
      BY <1>2, <3>5 DEF HandDelete, Reclaim, vars, ghost
    <3> QED
      BY <3>1, <3>2, <3>3, <3>4, <3>5 DEF Next, Persist
  <2>2. i \in Remembered(c) /\ pc[c] = "writeState"
        /\ next' = Written(c).next /\ mark' = Written(c).mark
    BY <1>2, <2>1 DEF WriteState, Step
  <2>3. Covers(Written(c), i)
    BY <2>2, WrittenCovers
  <2> QED
    BY <2>2, <2>3 DEF Covers
<1> QED
  BY <1>1, <1>2

------------------------------------------------------------------------------
(* Allocation *)

\* The record lock keeps other creates away: while a command is in its section
\* and does not write itself, records only disappear.
LEMMA OthersWriteNothing ==
  ASSUME TypeOK, OwnersHoldLocks, [Next]_vars,
         NEW d \in Cmd, pc[d] \in RecSection, ~WriteRecord(d)
  PROVE  records' \subseteq records
<1>1. ASSUME NEW c \in Cmd, WriteRecord(c)
      PROVE  FALSE
  <2>1. c # d
    BY <1>1
  <2>2. recLock = c /\ recLock = d
    BY <1>1 DEF WriteRecord, Step, OwnersHoldLocks, OwnsRecords, RecSection
  <2> QED
    BY <2>1, <2>2
<1> QED
  BY <1>1 DEF Next, Create, Persist, StartCreate, LockRecords, ReadCounter, ScanNumbers,
     ScanLetters, ReadMark, FirstFreeLetter, CheckFree, UnlockRecords, LockState, ReadState,
     WriteState, FreeState, StartInit, StartPath, GiveUp, GiveUpAll, Crash, HandDelete,
     Reclaim, vars, state

\* The highest letter a command found stays the highest until it reads the mark.
LEMMA ScanStep ==
  ASSUME TypeOK, Progress, OwnersHoldLocks, ScanIsCurrent, [Next]_vars
  PROVE  ScanIsCurrent'
<1> SUFFICES ASSUME NEW d \in Cmd, pc'[d] = "readMark", NEW l \in Letter,
                    <<parent'[d], l>> \in records'
             PROVE  l <= base'[d]
  BY DEF ScanIsCurrent, Letters
<1>1. CASE pc[d] # "readMark"
  <2>1. ScanLetters(d)
    BY <1>1, Arrives
  <2>2. /\ parent[d] # 0 /\ parent' = parent /\ records' = records
        /\ base'[d] = HighestLetter(Present(d), parent[d])
    BY <2>1 DEF ScanLetters, TypeOK, state
  <2>3. parent[d] \in Number /\ Present(d) \in SUBSET ID
    BY <2>2, PresentType DEF TypeOK
  <2>4. <<parent[d], l>> \in Present(d)
    BY <2>2 DEF Present
  <2> QED
    BY <2>2, <2>3, <2>4, HighestLetterBounds
<1>2. CASE pc[d] = "readMark"
  <2>1. parent'[d] = parent[d] /\ base'[d] = base[d]
    BY <1>2, Stays
  <2>2. records' \subseteq records
    BY <1>2, OthersWriteNothing DEF RecSection, WriteRecord, Step
  <2>3. l \in Letters(records, parent[d])
    BY <2>1, <2>2 DEF Letters
  <2> QED
    BY <1>2, <2>1, <2>3 DEF ScanIsCurrent
<1> QED
  BY <1>1, <1>2

\* What a command allocates is free when it is chosen ...
LEMMA ChosenIsFree ==
  ASSUME TypeOK, Progress, ScanIsCurrent, NEW d \in Cmd, pc'[d] = "stat",
         ScanNumbers(d) \/ ReadMark(d) \/ FirstFreeLetter(d)
  PROVE  id'[d] \notin records'
<1>1. records' = records
  BY DEF ScanNumbers, ReadMark, FirstFreeLetter, state
<1>2. CASE ScanNumbers(d)
  <2> DEFINE n == Higher(base[d], HighestNumber(Present(d)) + 1)
  <2>1. n \in Number /\ id'[d] = <<n, 0>>
    BY <1>2 DEF ScanNumbers, Goto, TypeOK
  <2>2. /\ HighestNumber(Present(d)) \in 0 .. MaxNumber /\ base[d] \in Nat
        /\ <<n, 0>> \in records => n <= HighestNumber(Present(d))
    BY <2>1, PresentType, HighestNumberBounds DEF TypeOK, Present
  <2>3. ~(n <= HighestNumber(Present(d)))
    BY <2>2, ConstantsAssumption DEF Higher
  <2> QED
    BY <1>1, <2>1, <2>2, <2>3
<1>3. CASE ReadMark(d)
  <2> DEFINE l == Higher(mark[parent[d]], base[d]) + 1
  <2>1. pc[d] = "readMark" /\ l \in Letter /\ id'[d] = <<parent[d], l>>
    BY <1>3 DEF ReadMark, Goto, TypeOK
  <2>2. parent[d] \in Number
    BY <2>1 DEF Progress, TypeOK
  <2>3. mark[parent[d]] \in Letter \cup {0} /\ base[d] \in Nat
    BY <2>2 DEF TypeOK
  <2>4. ~(l <= base[d])
    BY <2>3 DEF Higher, Letter
  <2> HIDE DEF l
  <2>5. <<parent[d], l>> \in records => l <= base[d]
    BY <2>1 DEF ScanIsCurrent, Letters
  <2> QED
    BY <1>1, <2>1, <2>4, <2>5
<1>4. CASE FirstFreeLetter(d)
  <2> DEFINE free == Letter \ Letters(Present(d), parent[d])
  <2>1. free # {} /\ id'[d] = <<parent[d], Min(free)>>
    BY <1>4 DEF FirstFreeLetter, Goto, TypeOK
  <2>2. free \in SUBSET Nat
    BY DEF Letter
  <2>3. Min(free) \in free
    BY <2>1, <2>2, MinIsLeast
  <2>4. <<parent[d], Min(free)>> \notin records
    BY <2>3 DEF Letters, Present
  <2> QED
    BY <1>1, <2>1, <2>4
<1> QED
  BY <1>2, <1>3, <1>4

\* ... and until it is written.
LEMMA FreeStep ==
  ASSUME TypeOK, Progress, OwnersHoldLocks, ScanIsCurrent, AllocatedIsFree, [Next]_vars
  PROVE  AllocatedIsFree'
<1> SUFFICES ASSUME NEW d \in Cmd, pc'[d] \in {"stat", "write"}
             PROVE  id'[d] \notin records'
  BY DEF AllocatedIsFree
<1>1. CASE pc'[d] = "stat" /\ pc[d] # "stat"
  BY <1>1, Arrives, ChosenIsFree
<1>2. CASE pc'[d] = "write" /\ pc[d] # "write"
  <2>1. CheckFree(d)
    BY <1>2, Arrives
  <2>2. pc[d] = "stat" /\ id' = id /\ records' = records
    BY <2>1 DEF CheckFree, Step, state
  <2> QED
    BY <2>2 DEF AllocatedIsFree
<1>3. CASE pc'[d] = pc[d]
  <2>1. id'[d] = id[d] /\ id[d] \notin records
    BY <1>3, Stays DEF AllocatedIsFree
  <2>2. ~WriteRecord(d)
    BY <1>3 DEF WriteRecord, Step, Goto, TypeOK
  <2>3. records' \subseteq records
    BY <1>3, <2>2, OthersWriteNothing DEF RecSection
  <2> QED
    BY <2>1, <2>3
<1> QED
  BY <1>1, <1>2, <1>3

\* The counter a command has read is past every ID it must avoid, and so are
\* the marks it has still to read.
LEMMA KnownStep ==
  ASSUME TypeOK, TypeOK', Progress, CopyIsCurrent, SpentIsCovered, KnownIsCovered, [Next]_vars
  PROVE  KnownIsCovered'
<1> SUFFICES ASSUME Home, NEW d \in Cmd, pc'[d] \in {"locked", "scan", "readMark"},
                    NEW i \in known'[d]
             PROVE  /\ Covers([next |-> next', mark |-> mark'], i)
                    /\ pc'[d] = "scan" /\ i[2] = 0 => i[1] < base'[d]
  BY DEF KnownIsCovered
<1>1. CASE pc'[d] = pc[d]
  <2>1. known'[d] = known[d] /\ base'[d] = base[d]
    BY <1>1, Stays
  <2>2. /\ Covers([next |-> next, mark |-> mark], i)
        /\ pc[d] = "scan" /\ i[2] = 0 => i[1] < base[d]
    BY <1>1, <2>1 DEF KnownIsCovered
  <2>3. i \in ID
    BY <2>1 DEF TypeOK
  <2>4. Covers([next |-> next', mark |-> mark'], i)
    BY <2>2, <2>3, CoveredStays
  <2> QED
    BY <1>1, <2>1, <2>2, <2>4
<1>2. CASE LockRecords(d)
  <2>1. i \in Spent /\ next' = next /\ mark' = mark /\ pc'[d] = "locked"
    BY <1>2 DEF LockRecords, Step, Goto, TypeOK, state
  <2> QED
    BY <2>1 DEF SpentIsCovered
<1>3. CASE ReadCounter(d)
  <2>1. /\ pc[d] = "locked" /\ known' = known /\ next' = next /\ mark' = mark
        /\ base'[d] = next
    BY <1>3 DEF ReadCounter, Step, TypeOK, state, ghost
  <2>2. Covers([next |-> next, mark |-> mark], i)
    BY <2>1 DEF KnownIsCovered
  <2> QED
    BY <2>1, <2>2 DEF Covers
<1>4. CASE ScanLetters(d)
  <2>1. /\ pc[d] = "locked" /\ known' = known /\ next' = next /\ mark' = mark
        /\ pc'[d] = "readMark"
    BY <1>4 DEF ScanLetters, Step, Goto, TypeOK, state, ghost
  <2> QED
    BY <2>1 DEF KnownIsCovered
<1> QED
  BY <1>1, <1>2, <1>3, <1>4, Arrives

\* A command chooses an ID past the counter or the mark it read.
LEMMA NothingStep ==
  ASSUME TypeOK, Progress, KnownIsCovered, NothingSpentIsReissued, [Next]_vars
  PROVE  NothingSpentIsReissued'
<1> SUFFICES ASSUME Home, NEW d \in Cmd
             PROVE  id'[d] \notin known'[d]
  BY DEF NothingSpentIsReissued
<1>1. CASE pc'[d] = pc[d]
  BY <1>1, Stays DEF NothingSpentIsReissued
<1>2. CASE pc'[d] = "locked" /\ pc[d] # "locked"
  <2>1. LockRecords(d)
    BY <1>2, Arrives
  <2>2. id'[d] = NoId /\ known'[d] = Spent
    BY <2>1 DEF LockRecords, Step, Progress, TypeOK
  <2> QED
    BY <2>2, NoIdIsNoID DEF Spent
<1>3. CASE ScanNumbers(d)
  <2> DEFINE n == Higher(base[d], HighestNumber(Present(d)) + 1)
  <2>1. pc[d] = "scan" /\ known' = known
    BY <1>3 DEF ScanNumbers, ghost
  <2>2. CASE n \in Number
    <3>1. id'[d] = <<n, 0>>
      BY <1>3, <2>2 DEF ScanNumbers, TypeOK
    <3>2. HighestNumber(Present(d)) \in 0 .. MaxNumber /\ base[d] \in Nat
      BY PresentType, HighestNumberBounds DEF TypeOK
    <3>3. ~(n < base[d])
      BY <3>2, ConstantsAssumption DEF Higher
    <3>4. ASSUME <<n, 0>> \in known[d]
          PROVE  n < base[d]
      BY <2>1, <3>4 DEF KnownIsCovered
    <3> QED
      BY <2>1, <3>1, <3>3, <3>4
  <2>3. CASE n \notin Number
    BY <1>3, <2>1, <2>3 DEF ScanNumbers, NothingSpentIsReissued
  <2> QED
    BY <2>2, <2>3
<1>4. CASE ReadMark(d)
  <2> DEFINE l == Higher(mark[parent[d]], base[d]) + 1
  <2>1. pc[d] = "readMark" /\ known' = known
    BY <1>4 DEF ReadMark, ghost
  <2>2. CASE l \in Letter
    <3>1. id'[d] = <<parent[d], l>>
      BY <1>4, <2>2 DEF ReadMark, TypeOK
    <3>2. parent[d] \in Number
      BY <2>1 DEF Progress, TypeOK
    <3>3. mark[parent[d]] \in Nat /\ base[d] \in Nat
      <4>1. mark[parent[d]] \in Letter \cup {0} /\ base[d] \in Nat
        BY <3>2 DEF TypeOK
      <4> QED
        BY <4>1 DEF Letter
    <3>4. ~(l <= mark[parent[d]]) /\ l # 0
      BY <3>3 DEF Higher
    <3> HIDE DEF l
    <3>5. ASSUME <<parent[d], l>> \in known[d]
          PROVE  l <= mark[parent[d]]
      <4>1. Covers([next |-> next, mark |-> mark], <<parent[d], l>>)
        BY <2>1, <3>5 DEF KnownIsCovered
      <4> QED
        BY <4>1, <3>4 DEF Covers
    <3> QED
      BY <2>1, <3>1, <3>4, <3>5
  <2>3. CASE l \notin Letter
    BY <1>4, <2>1, <2>3 DEF ReadMark, NothingSpentIsReissued
  <2> QED
    BY <2>2, <2>3
<1>5. CASE CheckFree(d)
  BY <1>5 DEF CheckFree, TypeOK
<1>6. CASE ~ScanNumbers(d) /\ ~ReadMark(d) /\ ~CheckFree(d)
           /\ pc'[d] # pc[d] /\ pc'[d] # "locked"
  <2>1. \/ id'[d] = id[d] /\ known'[d] = known[d]
        \/ known'[d] = {}
    <3> USE <1>6 DEF Goto, Step, TypeOK, ghost, Forget
    <3>1. CASE \E c \in Cmd : Create(c)
      BY <3>1 DEF Create, StartCreate, LockRecords, ReadCounter, ScanNumbers, ScanLetters,
         ReadMark, FirstFreeLetter, CheckFree, WriteRecord, UnlockRecords
    <3>2. CASE \E c \in Cmd : Persist(c)
      BY <3>2 DEF Persist, LockState, ReadState, WriteState, FreeState
    <3>3. CASE \E c \in Cmd :
                 StartInit(c) \/ StartPath(c) \/ GiveUp(c) \/ GiveUpAll(c) \/ Crash(c)
      BY <3>3 DEF StartInit, StartPath, GiveUp, GiveUpAll, Crash
    <3>4. CASE HandDelete \/ Reclaim \/ UNCHANGED vars
      BY <3>4 DEF HandDelete, Reclaim, vars
    <3> QED
      BY <3>1, <3>2, <3>3, <3>4 DEF Next
  <2> QED
    BY <2>1 DEF NothingSpentIsReissued
<1> QED
  BY <1>1, <1>2, <1>3, <1>4, <1>5, <1>6

\* The inductive invariant holds at first.
LEMMA InitInv == Init => IInv
<1> SUFFICES ASSUME Init
             PROVE  IInv
  OBVIOUS
<1>1. TypeOK /\ Progress
  BY TypeInit, ProgressInit
<1>2. OwnersHoldLocks /\ CopyIsCurrent /\ ScanIsCurrent /\ KnownIsCovered /\ AllocatedIsFree
  BY DEF Init, OwnersHoldLocks, OwnsRecords, OwnsState, RecSection, StSection, CopyIsCurrent,
     ScanIsCurrent, KnownIsCovered, AllocatedIsFree
<1>3. SpentIsCovered /\ NothingSpentIsReissued
  BY DEF Init, SpentIsCovered, Spent, NothingSpentIsReissued
<1> QED
  BY <1>1, <1>2, <1>3 DEF IInv

\* Every step keeps the inductive invariant.
LEMMA Inductive == IInv /\ [Next]_vars => IInv'
<1> SUFFICES ASSUME IInv, [Next]_vars
             PROVE  IInv'
  OBVIOUS
<1>1. TypeOK' /\ Progress' /\ OwnersHoldLocks' /\ CopyIsCurrent'
  BY TypeStep, ProgressStep, LocksStep, CopyStep DEF IInv
<1>2. SpentIsCovered' /\ ScanIsCurrent' /\ AllocatedIsFree'
  BY <1>1, SpentStep, ScanStep, FreeStep DEF IInv
<1>3. KnownIsCovered' /\ NothingSpentIsReissued'
  BY <1>1, KnownStep, NothingStep DEF IInv
<1> QED
  BY <1>1, <1>2, <1>3 DEF IInv

\* A create never overwrites a record: from its choice to its write, what it is
\* about to write is in no bucket.
THEOREM CreateOverwritesNothing == Spec => []AllocatedIsFree
<1>1. IInv => AllocatedIsFree
  BY DEF IInv
<1> QED
  BY <1>1, InitInv, Inductive, PTL DEF Spec

\* In the store no ID that was spent before a command took the record lock is
\* given out by that command again.
THEOREM NoSpentIdReturns == Spec => [](SpentIsCovered /\ NothingSpentIsReissued)
<1>1. IInv => SpentIsCovered /\ NothingSpentIsReissued
  BY DEF IInv
<1> QED
  BY <1>1, InitInv, Inductive, PTL DEF Spec

\* No step of any command, crash or hand deletion lowers a mark.
THEOREM MarksOnlyRise == Spec => MarksNeverFall
<1>1. IInv /\ [Next]_vars => [/\ next' >= next
                            /\ \A n \in Number : mark'[n] >= mark[n]]_<<next, mark>>
  BY MarksStep DEF IInv
<1> QED
  BY <1>1, InitInv, Inductive, PTL DEF Spec, MarksNeverFall

------------------------------------------------------------------------------
(* The locks are used as Mutex says *)

\* The commands at work under each lock, as Rec and St have them.
RecWorkers == {c \in Cmd : OwnsRecords(c) /\ pc[c] \notin {"locked", "unlock"}}
StWorkers == {c \in Cmd : pc[c] = "writeState"}

\* A step moves one command, and only its own lock steps change a lock; or it is
\* the reclamation of an orphan; or it changes neither.
LEMMA OneCommandMoves ==
  ASSUME TypeOK, [Next]_vars
  PROVE  \/ \E c \in Cmd :
              /\ \A d \in Cmd \ {c} : pc'[d] = pc[d] /\ job'[d] = job[d]
              /\ recLock' = recLock \/ LockRecords(c) \/ UnlockRecords(c)
              /\ stLock' = stLock \/ LockState(c) \/ FreeState(c)
         \/ Reclaim
         \/ UNCHANGED <<locks, pc, job>>
<1> DEFINE Moves(c) == /\ \A d \in Cmd \ {c} : pc'[d] = pc[d] /\ job'[d] = job[d]
                       /\ recLock' = recLock \/ LockRecords(c) \/ UnlockRecords(c)
                       /\ stLock' = stLock \/ LockState(c) \/ FreeState(c)
<1>1. ASSUME NEW c \in Cmd, Create(c)
      PROVE  Moves(c)
  BY <1>1
     DEF Create, StartCreate, LockRecords, ReadCounter, ScanNumbers, ScanLetters, ReadMark,
         FirstFreeLetter, CheckFree, WriteRecord, UnlockRecords, Goto, Step, Forget, TypeOK,
         locks
<1>2. ASSUME NEW c \in Cmd, Persist(c)
      PROVE  Moves(c)
  BY <1>2
     DEF Persist, LockState, ReadState, WriteState, FreeState, Goto, Step, Forget, TypeOK,
         locks
<1>3. ASSUME NEW c \in Cmd,
             StartInit(c) \/ StartPath(c) \/ GiveUp(c) \/ GiveUpAll(c) \/ Crash(c)
      PROVE  Moves(c)
  BY <1>3
     DEF StartInit, StartPath, GiveUp, GiveUpAll, Crash, Goto, Step, Forget, TypeOK, locks
<1>4. ASSUME HandDelete \/ UNCHANGED vars
      PROVE  UNCHANGED <<locks, pc, job>>
  BY <1>4 DEF HandDelete, vars
<1> HIDE DEF Moves
<1>5. (\E c \in Cmd : Moves(c)) \/ Reclaim \/ UNCHANGED <<locks, pc, job>>
  BY <1>1, <1>2, <1>3, <1>4 DEF Next
<1> QED
  BY <1>5 DEF Moves

\* Two sets that differ in one element at most.
LEMMA DifferInOne ==
  ASSUME NEW c, NEW V, NEW W, \A d : d # c => (d \in V <=> d \in W)
  PROVE  W = V \/ (c \in W /\ W = V \cup {c}) \/ (c \in V /\ W = V \ {c})
OBVIOUS

LEMMA RecordsLockIsUsed ==
  ASSUME IInv, IInv', [Next]_vars
  PROVE  [Rec!Next]_(Rec!vars)
<1> SUFFICES \/ \E c \in Cmd : \/ recLock = Nobody /\ recLock' = c /\ RecWorkers' = RecWorkers
                               \/ /\ recLock = c /\ recLock' = recLock
                                  /\ RecWorkers' = RecWorkers \cup {c}
                               \/ /\ c \in RecWorkers /\ recLock' = recLock
                                  /\ RecWorkers' = RecWorkers \ {c}
             \/ /\ recLock # Nobody /\ recLock \notin RecWorkers /\ recLock' = Nobody
                /\ RecWorkers' = RecWorkers
             \/ recLock' = recLock /\ RecWorkers' = RecWorkers
  BY DEF Rec!Next, Rec!vars, Rec!Acquire, Rec!Enter, Rec!Leave, Rec!Free, RecWorkers
<1>1. TypeOK /\ OwnersHoldLocks /\ OwnersHoldLocks'
  BY DEF IInv
<1>2. CASE UNCHANGED <<locks, pc, job>>
  BY <1>2 DEF RecWorkers, OwnsRecords, locks
<1>3. CASE Reclaim
  <2>1. RecWorkers' = RecWorkers
    BY <1>3 DEF Reclaim, RecWorkers, OwnsRecords
  <2> QED
    BY <1>3, <2>1, ConstantsAssumption DEF Reclaim, RecWorkers
<1>4. ASSUME NEW c \in Cmd, \A d \in Cmd \ {c} : pc'[d] = pc[d] /\ job'[d] = job[d],
             recLock' = recLock \/ LockRecords(c) \/ UnlockRecords(c)
      PROVE  \/ recLock = Nobody /\ recLock' = c /\ RecWorkers' = RecWorkers
             \/ /\ recLock = c /\ recLock' = recLock
                /\ RecWorkers' = RecWorkers \cup {c}
             \/ /\ c \in RecWorkers /\ recLock' = recLock
                /\ RecWorkers' = RecWorkers \ {c}
             \/ /\ recLock # Nobody /\ recLock \notin RecWorkers /\ recLock' = Nobody
                /\ RecWorkers' = RecWorkers
             \/ recLock' = recLock /\ RecWorkers' = RecWorkers
  <2>1. \A d : d # c => (d \in RecWorkers <=> d \in RecWorkers')
    BY <1>4 DEF RecWorkers, OwnsRecords
  <2>2. CASE LockRecords(c)
    <3>1. c \notin RecWorkers /\ c \notin RecWorkers'
      BY <1>1, <2>2
         DEF LockRecords, Step, Goto, RecWorkers, OwnsRecords, RecSection, StSection, TypeOK
    <3> QED
      BY <2>1, <2>2, <3>1, DifferInOne DEF LockRecords
  <2>3. CASE UnlockRecords(c)
    <3>1. c \notin RecWorkers /\ c \notin RecWorkers'
      BY <1>1, <2>3
         DEF UnlockRecords, Step, Goto, RecWorkers, OwnsRecords, RecSection, StSection, TypeOK
    <3>2. recLock = c /\ c # Nobody /\ recLock' = Nobody
      BY <1>1, <2>3, ConstantsAssumption DEF UnlockRecords, Step, OwnersHoldLocks, OwnsRecords
    <3> QED
      BY <2>1, <3>1, <3>2, DifferInOne
  <2>4. CASE recLock' = recLock
    <3>1. c \in RecWorkers' => recLock' = c
      BY <1>1 DEF RecWorkers, OwnersHoldLocks
    <3> QED
      BY <2>1, <2>4, <3>1, DifferInOne
  <2> QED
    BY <1>4, <2>2, <2>3, <2>4
<1> QED
  BY <1>1, <1>2, <1>3, <1>4, OneCommandMoves

LEMMA StateLockIsUsed ==
  ASSUME IInv, IInv', [Next]_vars
  PROVE  [St!Next]_(St!vars)
<1> SUFFICES \/ \E c \in Cmd : \/ stLock = Nobody /\ stLock' = c /\ StWorkers' = StWorkers
                               \/ /\ stLock = c /\ stLock' = stLock
                                  /\ StWorkers' = StWorkers \cup {c}
                               \/ /\ c \in StWorkers /\ stLock' = stLock
                                  /\ StWorkers' = StWorkers \ {c}
             \/ /\ stLock # Nobody /\ stLock \notin StWorkers /\ stLock' = Nobody
                /\ StWorkers' = StWorkers
             \/ stLock' = stLock /\ StWorkers' = StWorkers
  BY DEF St!Next, St!vars, St!Acquire, St!Enter, St!Leave, St!Free, StWorkers
<1>1. TypeOK /\ OwnersHoldLocks /\ OwnersHoldLocks'
  BY DEF IInv
<1>2. CASE UNCHANGED <<locks, pc, job>>
  BY <1>2 DEF StWorkers, locks
<1>3. CASE Reclaim
  <2>1. StWorkers' = StWorkers
    BY <1>3 DEF Reclaim, StWorkers
  <2>2. stLock \in Cmd /\ ~OwnsState(stLock) => stLock \notin StWorkers
    BY DEF StWorkers, OwnsState, StSection
  <2> QED
    BY <1>3, <2>1, <2>2, ConstantsAssumption DEF Reclaim
<1>4. ASSUME NEW c \in Cmd, \A d \in Cmd \ {c} : pc'[d] = pc[d] /\ job'[d] = job[d],
             stLock' = stLock \/ LockState(c) \/ FreeState(c)
      PROVE  \/ stLock = Nobody /\ stLock' = c /\ StWorkers' = StWorkers
             \/ /\ stLock = c /\ stLock' = stLock
                /\ StWorkers' = StWorkers \cup {c}
             \/ /\ c \in StWorkers /\ stLock' = stLock
                /\ StWorkers' = StWorkers \ {c}
             \/ /\ stLock # Nobody /\ stLock \notin StWorkers /\ stLock' = Nobody
                /\ StWorkers' = StWorkers
             \/ stLock' = stLock /\ StWorkers' = StWorkers
  <2>1. \A d : d # c => (d \in StWorkers <=> d \in StWorkers')
    BY <1>4 DEF StWorkers
  <2>2. CASE LockState(c)
    <3>1. c \notin StWorkers /\ c \notin StWorkers'
      BY <1>1, <2>2 DEF LockState, Step, Goto, StWorkers, TypeOK
    <3> QED
      BY <2>1, <2>2, <3>1, DifferInOne DEF LockState
  <2>3. CASE FreeState(c)
    <3>1. pc[c] = "freeState" /\ pc'[c] \in {"unlock", "idle"} /\ stLock' = Nobody
      BY <1>1, <2>3 DEF FreeState, Goto, TypeOK
    <3>2. c \notin StWorkers /\ c \notin StWorkers'
      BY <3>1 DEF StWorkers
    <3>3. stLock = c /\ c # Nobody
      BY <1>1, <3>1, ConstantsAssumption DEF OwnersHoldLocks, OwnsState, StSection
    <3> QED
      BY <2>1, <3>1, <3>2, <3>3, DifferInOne
  <2>4. CASE stLock' = stLock
    <3>1. c \in StWorkers' => stLock' = c
      BY <1>1 DEF StWorkers, OwnersHoldLocks, OwnsState, StSection
    <3> QED
      BY <2>1, <2>4, <3>1, DifferInOne
  <2> QED
    BY <1>4, <2>2, <2>3, <2>4
<1> QED
  BY <1>1, <1>2, <1>3, <1>4, OneCommandMoves

\* The commands rely on each lock for what Mutex promises and no more: they work in
\* a section only as the owner of its lock, and only an owner that has left it, or
\* died, is freed of the lock.
THEOREM LocksAreUsed == Spec => UsesLocks
<1>1. Init => Rec!Init /\ St!Init
  <2> SUFFICES ASSUME Init PROVE Rec!Init /\ St!Init
    OBVIOUS
  <2>1. \A c \in Cmd : pc[c] = "idle"
    BY DEF Init
  <2> QED
    BY <2>1 DEF Init, Rec!Init, St!Init, OwnsRecords, RecSection, StSection
<1>2. IInv /\ IInv' /\ [Next]_vars => [Rec!Next]_(Rec!vars) /\ [St!Next]_(St!vars)
  BY RecordsLockIsUsed, StateLockIsUsed
<1> QED
  BY <1>1, <1>2, InitInv, Inductive, PTL DEF Spec, UsesLocks, Rec!Spec, St!Spec
==============================================================================
