------------------------- MODULE TaskLifecycleProofs -------------------------
(***************************************************************************)
(* Proofs about TaskLifecycle, for every set of tasks, any choice of the   *)
(* commands used and any number of crashes and hand edits: no record is    *)
(* ever lost, a verb leaves its task in the one bucket of its status, the  *)
(* indexes say what the buckets hold when a command ends, complete         *)
(* unblocks what it satisfied, and only reopen closes a cycle. A command   *)
(* is sound when it begins (StartIsSound); what it then does follows from  *)
(* its plan alone. Then the readers of TaskScan: what a scan without the   *)
(* lock reports is right about the tasks left alone. Last, the search for  *)
(* circles of DepCycles, over any graph: it reports circles only, and a    *)
(* step of each one there is.                                              *)
(***************************************************************************)
EXTENDS TaskScan, DepCycles, TLAPS

LEMMA NoneIsNothing ==
  /\ None \notin Record
  /\ None \notin Status
  /\ None \notin Command
BY ConstantsAssumption

LEMMA ContractTyped ==
  ASSUME NEW v \in Verb
  PROVE  /\ Contract[v].target \in Status
         /\ BucketForStatus(Contract[v].target) \in Bucket
<1>1. v \in {"accept", "start", "complete", "cancel", "reopen", "block", "unblock"}
  BY Zenon DEF Verb, Contract
<1>2. Contract[v].target \in {"Pending", "In Progress", "Completed", "Cancelled",
                              "Open", "Blocked"}
  <2>1. CASE v = "accept"   BY <2>1 DEF Contract
  <2>2. CASE v = "start"    BY <2>2 DEF Contract
  <2>3. CASE v = "complete" BY <2>3 DEF Contract
  <2>4. CASE v = "cancel"   BY <2>4 DEF Contract
  <2>5. CASE v = "reopen"   BY <2>5 DEF Contract
  <2>6. CASE v = "block"    BY <2>6 DEF Contract
  <2>7. CASE v = "unblock"  BY <2>7 DEF Contract
  <2> QED
    BY <1>1, <2>1, <2>2, <2>3, <2>4, <2>5, <2>6, <2>7
<1> QED
  BY <1>2 DEF Status, Terminal, Bucket, BucketForStatus

LEMMA NoFilesListed == Listing(NoFiles) \in Index
BY DEF Listing, NoFiles, Index

LEMMA FilesListed == TypeOK => Listing(file) \in Index
BY NoneIsNothing DEF TypeOK, Listing, Index, Record

\* The indexes a command plans say a status or nothing of every task.
LEMMA ListAfterTyped ==
  ASSUME TypeOK, NEW ws \in SUBSET Write, NEW t \in Task, NEW bs \in SUBSET Bucket
  PROVE  ListAfter(ws, t, bs) \in Index
<1>1. ASSUME NEW b \in Bucket, NEW u \in Task
      PROVE  (IF \E w \in ws : w.bucket = b /\ w.task = u
              THEN (CHOOSE w \in ws : w.bucket = b /\ w.task = u).rec.status
              ELSE IF u = t /\ b \in bs THEN None
              ELSE Listing(file)[b][u]) \in Status \cup {None}
  <2>1. CASE \E w \in ws : w.bucket = b /\ w.task = u
    <3>1. (CHOOSE w \in ws : w.bucket = b /\ w.task = u) \in ws
      BY <2>1
    <3>2. (CHOOSE w \in ws : w.bucket = b /\ w.task = u).rec.status \in Status
      BY <3>1 DEF Write, Record
    <3> QED
      BY <2>1, <3>2
  <2>2. CASE ~ \E w \in ws : w.bucket = b /\ w.task = u
    <3>1. Listing(file)[b][u] \in Status \cup {None}
      BY FilesListed DEF Index
    <3> QED
      BY <2>2, <3>1
  <2> QED
    BY <2>1, <2>2
<1> QED
  BY <1>1, Zenon DEF ListAfter, Index

------------------------------------------------------------------------------
\* What every command guarantees of the plan it begins with.
Sound(verb, w, gone, ws) ==
  /\ [verb |-> verb, task |-> w.task] \in Command
  /\ w \in Write
  /\ gone \in SUBSET Bucket
  /\ ws \in SUBSET Write
  /\ w.bucket \notin gone
  /\ \A x \in ws : x.task # w.task
  /\ \A x \in {w} \cup ws : x.task \notin x.rec.deps
  /\ verb \in Verb =>
       /\ w.rec.status = Contract[verb].target
       /\ w.bucket = BucketForStatus(Contract[verb].target)
       /\ Copies(w.task) \subseteq gone \cup {w.bucket}

LEMMA VerbIsNoOther == {"create", "dep", "edit"} \cap Verb = {}
BY DEF Verb, Contract

\* Commands that rewrite a record where it is.
LEMMA RewriteIsSound ==
  ASSUME IInv, NEW verb \in {"dep", "edit"}, NEW t \in Task, NEW b \in Bucket,
         file[b][t] # None, NEW deps \in SUBSET Task, t \notin deps
  PROVE  Sound(verb, [bucket |-> b, task |-> t,
                      rec |-> [file[b][t] EXCEPT !.deps = deps]], {}, {})
<1>1. file[b][t] \in Record
  BY DEF IInv, TypeOK
<1>2. [file[b][t] EXCEPT !.deps = deps] \in Record
  BY <1>1 DEF Record
<1>3. [file[b][t] EXCEPT !.deps = deps].deps = deps
  BY <1>1 DEF Record
<1> DEFINE w == [bucket |-> b, task |-> t, rec |-> [file[b][t] EXCEPT !.deps = deps]]
<1>4. w \in Write /\ w.task = t /\ w.rec.deps = deps
  BY <1>2, <1>3 DEF Write
<1> HIDE DEF w
<1>5. Sound(verb, w, {}, {})
  BY <1>4, VerbIsNoOther DEF Sound, Command
<1> QED
  BY <1>5 DEF w

\* A dependent to be unblocked is a record of a task that waits for another.
LEMMA UnblockedIsSound ==
  ASSUME IInv, NEW t \in Task
  PROVE  /\ Unblocked(t) \in SUBSET Write
         /\ \A x \in Unblocked(t) : x.task # t /\ x.task \notin x.rec.deps
<1>1. ASSUME NEW u \in Task, file["active"][u] # None,
             TaskDependsOn(file["active"][u], t)
      PROVE  /\ file["active"][u].deps \in SUBSET Task
             /\ u \notin file["active"][u].deps
             /\ u # t
  BY <1>1 DEF IInv, TypeOK, NoTaskAwaitsItself, Bucket, Record, TaskDependsOn
<1>2. ASSUME NEW x \in Unblocked(t)
      PROVE  x \in Write /\ x.task # t /\ x.task \notin x.rec.deps
  <2>1. PICK u \in Task :
          /\ file["active"][u] # None
          /\ TaskDependsOn(file["active"][u], t)
          /\ x = [bucket |-> "active", task |-> u,
                  rec |-> [status |-> "Pending", deps |-> file["active"][u].deps,
                           reason |-> FALSE]]
    BY <1>2 DEF Unblocked
  <2> QED
    BY <1>1, <2>1 DEF Write, Record, Bucket, Status
<1> QED
  BY <1>2

LEMMA VerbIsSound ==
  ASSUME IInv, NEW v \in Verb, NEW t \in Task, NEW b \in Bucket, StatusVerb(v, t, b)
  PROVE  \E w, gone, ws : Begin(v, w, gone, ws) /\ Sound(v, w, gone, ws)
<1> DEFINE s == Contract[v].target
           w == [bucket |-> BucketForStatus(s), task |-> t,
                 rec |-> [status |-> s, deps |-> file[b][t].deps,
                          reason |-> Reason(file[b][t], s)]]
           gone == Moved(file[b][t], s, b)
           ws == IF s = "Completed" THEN Unblocked(t) ELSE {}
<1>1. Copies(t) = {b} /\ Begin(v, w, gone, ws)
  BY DEF StatusVerb, Resolved
<1>2. s \in Status /\ BucketForStatus(s) \in Bucket
  BY ContractTyped
<1>3. file[b][t] # None /\ file[b][t] \in Record /\ t \notin file[b][t].deps
  BY <1>1 DEF Copies, IInv, TypeOK, NoTaskAwaitsItself
<1>4. w \in Write
  BY <1>2, <1>3 DEF Write, Record, Reason
<1>5. ws \in SUBSET Write /\ \A x \in ws : x.task # t /\ x.task \notin x.rec.deps
  BY UnblockedIsSound
<1>6. gone \in SUBSET Bucket /\ w.bucket \notin gone /\ Copies(t) \subseteq gone \cup {w.bucket}
  BY <1>1 DEF Moved
<1>7. [verb |-> v, task |-> t] \in Command
  BY DEF Command
<1>8. w.task = t /\ w.bucket = BucketForStatus(s) /\ w.rec.status = s
        /\ w.rec.deps = file[b][t].deps
  OBVIOUS
<1> HIDE DEF w, gone, ws, s
<1>9. Sound(v, w, gone, ws)
  BY <1>3, <1>4, <1>5, <1>6, <1>7, <1>8 DEF Sound, s
<1> QED
  BY <1>1, <1>9

LEMMA CreateIsSound ==
  ASSUME IInv, NEW t \in Task, NEW s \in Status, NEW deps \in SUBSET (Task \ {t})
  PROVE  Sound("create", [bucket |-> "active", task |-> t,
                          rec |-> [status |-> s, deps |-> deps, reason |-> FALSE]], {}, {})
BY VerbIsNoOther DEF Sound, Command, Write, Record, Bucket

LEMMA StartIsSound ==
  ASSUME IInv, Start
  PROVE  \E verb, w, gone, ws : Begin(verb, w, gone, ws) /\ Sound(verb, w, gone, ws)
<1>1. PICK t \in Task :
        \/ \E v \in Verb, b \in Bucket : StatusVerb(v, t, b)
        \/ \E s \in InitialStatus, deps \in SUBSET (Task \ {t}) : Create(t, s, deps)
        \/ \E b, e \in Bucket, d \in Task : DepAdd(t, b, d, e) \/ DepRemove(t, b, d, e)
        \/ \E b \in Bucket : Edit(t, b)
  BY DEF Start
<1>2. ASSUME NEW b \in Bucket, Resolved(t, b)
      PROVE  /\ file[b][t] # None
             /\ file[b][t].deps \in SUBSET Task
             /\ t \notin file[b][t].deps
  BY <1>2 DEF Resolved, Copies, IInv, TypeOK, NoTaskAwaitsItself, Record
<1>3. ASSUME NEW v \in Verb, NEW b \in Bucket, StatusVerb(v, t, b)
      PROVE  \E verb, w, gone, ws : Begin(verb, w, gone, ws) /\ Sound(verb, w, gone, ws)
  BY <1>3, VerbIsSound
<1>4. ASSUME NEW s \in InitialStatus, NEW deps \in SUBSET (Task \ {t}), Create(t, s, deps)
      PROVE  \E verb, w, gone, ws : Begin(verb, w, gone, ws) /\ Sound(verb, w, gone, ws)
  BY <1>4, CreateIsSound, ConstantsAssumption DEF Create
<1>5. ASSUME NEW b \in Bucket, NEW e \in Bucket, NEW d \in Task,
             DepAdd(t, b, d, e) \/ DepRemove(t, b, d, e)
      PROVE  \E verb, w, gone, ws : Begin(verb, w, gone, ws) /\ Sound(verb, w, gone, ws)
  <2>1. PICK deps \in SUBSET Task : t \notin deps /\ Rewrite("dep", t, b, deps)
    BY <1>2, <1>5 DEF DepAdd, DepRemove
  <2>2. file[b][t] # None
    BY <1>2, <1>5 DEF DepAdd, DepRemove
  <2> QED
    BY <2>1, <2>2, RewriteIsSound DEF Rewrite
<1>6. ASSUME NEW b \in Bucket, Edit(t, b)
      PROVE  \E verb, w, gone, ws : Begin(verb, w, gone, ws) /\ Sound(verb, w, gone, ws)
  BY <1>2, <1>6, RewriteIsSound DEF Edit, Rewrite
<1> QED
  BY <1>1, <1>3, <1>4, <1>5, <1>6

------------------------------------------------------------------------------
(* From the plan on *)

LEMMA InitIsSound == Init => IInv
<1> SUFFICES ASSUME Init
             PROVE  IInv
  OBVIOUS
<1>1. NoFiles \in [Bucket -> [Task -> Record \cup {None}]]
  BY DEF NoFiles
<1>2. TypeOK
  BY <1>1, NoFilesListed, ConstantsAssumption DEF Init, TypeOK
<1>3. PlanIsSafe /\ VerbIsUnderWay
  BY DEF Init, PlanIsSafe, VerbIsUnderWay
<1>4. NoTaskAwaitsItself
  BY DEF Init, NoTaskAwaitsItself, NoFiles
<1> QED
  BY <1>2, <1>3, <1>4 DEF IInv

LEMMA BeginKeeps ==
  ASSUME IInv, NEW verb, NEW w, NEW gone, NEW ws,
         Begin(verb, w, gone, ws), Sound(verb, w, gone, ws)
  PROVE  IInv'
<1> USE DEF Begin, Sound, IInv
<1>1. w.task \in Task /\ w.bucket \in Bucket
  BY DEF Write
<1>2. list' \in Index
  BY <1>1, ListAfterTyped
<1>3. cmd' \in Command /\ cmd'.verb = verb /\ cmd'.task = w.task
  OBVIOUS
<1>4. TypeOK'
  BY <1>2, <1>3, NoneIsNothing DEF TypeOK
<1>5. PlanIsSafe'
  BY <1>3 DEF PlanIsSafe
<1>6. VerbIsUnderWay'
  BY <1>3 DEF VerbIsUnderWay, Copies
<1>7. NoTaskAwaitsItself'
  BY DEF NoTaskAwaitsItself
<1> QED
  BY <1>4, <1>5, <1>6, <1>7

\* The write of one record keeps the set of files well-formed.
LEMMA WriteTyped ==
  ASSUME TypeOK, NEW w \in Write, file' = [file EXCEPT ![w.bucket][w.task] = w.rec]
  PROVE  /\ file' \in [Bucket -> [Task -> Record \cup {None}]]
         /\ file'[w.bucket][w.task] = w.rec
         /\ w.rec \in Record /\ w.rec # None
         /\ w.bucket \in Bucket /\ w.task \in Task
         /\ \A b \in Bucket, t \in Task :
              b # w.bucket \/ t # w.task => file'[b][t] = file[b][t]
BY NoneIsNothing DEF TypeOK, Write

LEMMA WriteMainKeeps == IInv /\ WriteMain => IInv'
<1> SUFFICES ASSUME IInv, WriteMain
             PROVE  IInv'
  OBVIOUS
<1> USE DEF IInv
<1>1. PICK w \in main : file' = [file EXCEPT ![w.bucket][w.task] = w.rec]
  BY DEF WriteMain
<1>2. w \in Write /\ w.task = cmd.task /\ cmd # None
  BY <1>1 DEF TypeOK
<1>3. /\ file' \in [Bucket -> [Task -> Record \cup {None}]]
      /\ file'[w.bucket][w.task] = w.rec
      /\ w.rec \in Record /\ w.rec # None
      /\ w.bucket \in Bucket /\ w.task \in Task
      /\ \A b \in Bucket, t \in Task :
           b # w.bucket \/ t # w.task => file'[b][t] = file[b][t]
  BY <1>1, <1>2, WriteTyped
<1>4. TypeOK'
  BY <1>3 DEF WriteMain, TypeOK
<1>5. PlanIsSafe'
  BY <1>2, <1>3 DEF WriteMain, PlanIsSafe
<1>6. VerbIsUnderWay'
  BY <1>2, <1>3 DEF WriteMain, VerbIsUnderWay, Copies
<1>7. NoTaskAwaitsItself'
  BY <1>2, <1>3 DEF WriteMain, NoTaskAwaitsItself
<1> QED
  BY <1>4, <1>5, <1>6, <1>7

LEMMA WriteOtherKeeps == IInv /\ WriteOther => IInv'
<1> SUFFICES ASSUME IInv, WriteOther
             PROVE  IInv'
  OBVIOUS
<1> USE DEF IInv
<1>1. PICK w \in others : /\ file' = [file EXCEPT ![w.bucket][w.task] = w.rec]
                          /\ others' = others \ {w}
  BY DEF WriteOther
<1>2. w \in Write /\ cmd # None /\ cmd \in Command
  BY <1>1 DEF TypeOK
<1>3. w.task # cmd.task /\ cmd.task \in Task
  BY <1>2 DEF PlanIsSafe, Command
<1>4. /\ file' \in [Bucket -> [Task -> Record \cup {None}]]
      /\ file'[w.bucket][w.task] = w.rec
      /\ w.rec \in Record /\ w.rec # None
      /\ w.bucket \in Bucket /\ w.task \in Task
      /\ \A b \in Bucket, t \in Task :
           b # w.bucket \/ t # w.task => file'[b][t] = file[b][t]
  BY <1>1, <1>2, WriteTyped
<1>5. \A b \in Bucket : file'[b][cmd.task] = file[b][cmd.task]
  BY <1>3, <1>4
<1>6. TypeOK'
  BY <1>1, <1>4 DEF WriteOther, TypeOK
<1>7. PlanIsSafe'
  BY <1>1, <1>2, <1>5 DEF WriteOther, PlanIsSafe
<1>8. VerbIsUnderWay'
  BY <1>2, <1>5, ContractTyped DEF WriteOther, VerbIsUnderWay, Copies
<1>9. NoTaskAwaitsItself'
  BY <1>1, <1>4 DEF WriteOther, NoTaskAwaitsItself
<1> QED
  BY <1>6, <1>7, <1>8, <1>9

\* A file disappears from one bucket.
LEMMA RemoveTyped ==
  ASSUME TypeOK, NEW b \in Bucket, NEW t \in Task, file' = [file EXCEPT ![b][t] = None]
  PROVE  /\ file' \in [Bucket -> [Task -> Record \cup {None}]]
         /\ file'[b][t] = None
         /\ \A a \in Bucket, u \in Task : a # b \/ u # t => file'[a][u] = file[a][u]
BY DEF TypeOK

LEMMA RemoveOldKeeps == IInv /\ RemoveOld => IInv'
<1> SUFFICES ASSUME IInv, RemoveOld
             PROVE  IInv'
  OBVIOUS
<1> USE DEF IInv
<1>1. PICK b \in old : file' = [file EXCEPT ![b][cmd.task] = None] /\ old' = old \ {b}
  BY DEF RemoveOld
<1>2. b \in Bucket /\ cmd # None /\ cmd \in Command /\ cmd.task \in Task
  BY <1>1 DEF TypeOK, Command
<1>3. /\ file' \in [Bucket -> [Task -> Record \cup {None}]]
      /\ file'[b][cmd.task] = None
      /\ \A a \in Bucket, u \in Task : a # b \/ u # cmd.task => file'[a][u] = file[a][u]
  BY <1>1, <1>2, RemoveTyped
<1>4. TypeOK'
  BY <1>1, <1>3 DEF RemoveOld, TypeOK
<1>5. PlanIsSafe'
  BY <1>1, <1>2, <1>3 DEF RemoveOld, PlanIsSafe
<1>6. VerbIsUnderWay'
  BY <1>1, <1>2, <1>3, ContractTyped DEF RemoveOld, VerbIsUnderWay, Copies
<1>7. NoTaskAwaitsItself'
  BY <1>3 DEF RemoveOld, NoTaskAwaitsItself
<1> QED
  BY <1>4, <1>5, <1>6, <1>7

LEMMA FirstTyped == ASSUME NEW bs PROVE First(bs) \in Bucket
BY DEF First, Bucket

LEMMA WriteIndexKeeps == IInv /\ WriteIndex => IInv'
<1> SUFFICES ASSUME IInv, WriteIndex
             PROVE  IInv'
  OBVIOUS
<1> USE DEF IInv
<1>1. First(pending) \in Bucket
  BY FirstTyped
<1>2. index' \in Index
  BY <1>1 DEF WriteIndex, TypeOK, Index
<1>3. TypeOK'
  BY <1>2 DEF WriteIndex, TypeOK
<1>4. PlanIsSafe' /\ VerbIsUnderWay' /\ NoTaskAwaitsItself'
  BY DEF WriteIndex, PlanIsSafe, VerbIsUnderWay, NoTaskAwaitsItself, Copies
<1> QED
  BY <1>3, <1>4

\* Without a command there is no plan.
LEMMA NoPlanKeeps ==
  ASSUME IInv, NoPlan, UNCHANGED <<file, index>>, mishaps' \in 0 .. MaxMishaps
  PROVE  IInv'
<1> USE DEF IInv, NoPlan
<1>1. TypeOK'
  BY NoFilesListed DEF TypeOK
<1>2. PlanIsSafe' /\ VerbIsUnderWay' /\ NoTaskAwaitsItself'
  BY DEF PlanIsSafe, VerbIsUnderWay, NoTaskAwaitsItself
<1> QED
  BY <1>1, <1>2

LEMMA AnotherMishap ==
  ASSUME TypeOK, mishaps < MaxMishaps, mishaps' = mishaps + 1
  PROVE  mishaps' \in 0 .. MaxMishaps
BY ConstantsAssumption DEF TypeOK

LEMMA HandKeeps == IInv /\ Hand => IInv'
<1> SUFFICES ASSUME IInv, Hand
             PROVE  IInv'
  OBVIOUS
<1> USE DEF IInv
<1>1. PICK t \in Task, b \in Bucket :
        HandResolve(t, b) \/ \E a \in Bucket : HandMove(t, a, b)
  BY DEF Hand
<1>2. ASSUME file' \in [Bucket -> [Task -> Record \cup {None}]],
             \A a \in Bucket, u \in Task :
               file'[a][u] # None => \E e \in Bucket : file'[a][u] = file[e][u],
             cmd = None, UNCHANGED <<index, plan>>, mishaps' \in 0 .. MaxMishaps
      PROVE  IInv'
  <2>1. TypeOK'
    BY <1>2 DEF TypeOK, plan
  <2>2. PlanIsSafe' /\ VerbIsUnderWay'
    BY <1>2 DEF plan, PlanIsSafe, VerbIsUnderWay
  <2>3. NoTaskAwaitsItself'
    BY <1>2 DEF TypeOK, plan, NoTaskAwaitsItself
  <2> QED
    BY <2>1, <2>2, <2>3
<1>3. CASE HandResolve(t, b)
  <2>1. file' = [file EXCEPT ![b][t] = None] /\ TypeOK
    BY <1>3 DEF HandResolve
  <2>2. /\ file' \in [Bucket -> [Task -> Record \cup {None}]]
        /\ file'[b][t] = None
        /\ \A a \in Bucket, u \in Task : a # b \/ u # t => file'[a][u] = file[a][u]
    BY <2>1, RemoveTyped
  <2> QED
    BY <1>2, <1>3, <2>2 DEF HandResolve, TypeOK
<1>4. ASSUME NEW a \in Bucket, HandMove(t, a, b)
      PROVE  IInv'
  <2>1. file' = [file EXCEPT ![a][t] = None, ![b][t] = file[a][t]] /\ file[a][t] # None
          /\ a # b
    BY <1>4 DEF HandMove
  <2>2. /\ file' \in [Bucket -> [Task -> Record \cup {None}]]
        /\ \A e \in Bucket, u \in Task :
             file'[e][u] = IF u # t THEN file[e][u]
                           ELSE IF e = b THEN file[a][t]
                           ELSE IF e = a THEN None ELSE file[e][u]
    <3>1. file \in [Bucket -> [Task -> Record \cup {None}]]
      BY DEF TypeOK
    <3> HIDE DEF IInv
    <3> QED
      BY <2>1, <3>1
  <2>3. mishaps' \in 0 .. MaxMishaps
    BY <1>4, AnotherMishap DEF HandMove
  <2> QED
    BY <1>2, <1>4, <2>2, <2>3 DEF HandMove
<1> QED
  BY <1>1, <1>3, <1>4

LEMMA Inductive == IInv /\ [Next]_vars => IInv'
<1> SUFFICES ASSUME IInv, [Next]_vars
             PROVE  IInv'
  OBVIOUS
<1>1. CASE Start
  BY <1>1, StartIsSound, BeginKeeps
<1>2. CASE WriteMain
  BY <1>2, WriteMainKeeps
<1>3. CASE RemoveOld
  BY <1>3, RemoveOldKeeps
<1>4. CASE WriteOther
  BY <1>4, WriteOtherKeeps
<1>5. CASE WriteIndex
  BY <1>5, WriteIndexKeeps
<1>6. CASE End
  BY <1>6, NoPlanKeeps DEF End, IInv, TypeOK
<1>7. CASE Stop
  BY <1>7, NoPlanKeeps, AnotherMishap DEF Stop, IInv
<1>8. CASE Hand
  BY <1>8, HandKeeps
<1>9. CASE UNCHANGED vars
  BY <1>9 DEF vars, plan, IInv, TypeOK, PlanIsSafe, VerbIsUnderWay,
               NoTaskAwaitsItself, Copies
<1> QED
  BY <1>1, <1>2, <1>3, <1>4, <1>5, <1>6, <1>7, <1>8, <1>9 DEF Next, Carry

------------------------------------------------------------------------------
(* The theorems *)

\* The variables keep their types, and a plan is there only while its command is.
THEOREM TypeCorrect == Spec => []TypeOK
<1>1. IInv => TypeOK
  BY DEF IInv
<1> QED
  BY InitIsSound, Inductive, <1>1, PTL DEF Spec

\* Only a removal and a hand take a file away, and each leaves another copy.
LEMMA NoStepLosesARecord ==
  ASSUME IInv, [Next]_vars, NEW t \in Task, \E b \in Bucket : file[b][t] # None
  PROVE  \E b \in Bucket : file'[b][t] # None
<1>1. PICK b \in Bucket : file[b][t] # None
  OBVIOUS
<1> USE DEF IInv
<1>2. ASSUME NEW w \in Write, file' = [file EXCEPT ![w.bucket][w.task] = w.rec]
      PROVE  file'[b][t] # None
  BY <1>1, <1>2, WriteTyped
<1>3. CASE WriteMain
  BY <1>2, <1>3 DEF WriteMain, TypeOK
<1>4. CASE WriteOther
  BY <1>2, <1>4 DEF WriteOther, TypeOK
<1>5. CASE RemoveOld
  <2>1. PICK c \in old : file' = [file EXCEPT ![c][cmd.task] = None]
    BY <1>5 DEF RemoveOld
  <2>2. c \in Bucket /\ cmd # None /\ cmd.task \in Task
    BY <2>1 DEF TypeOK, Command
  <2>3. PICK a \in Bucket \ old : file[a][cmd.task] # None
    BY <1>5, <2>2 DEF RemoveOld, PlanIsSafe
  <2>4. \A e \in Bucket, u \in Task : e # c \/ u # cmd.task => file'[e][u] = file[e][u]
    BY <2>1, <2>2, RemoveTyped
  <2>5. CASE t = cmd.task
    BY <2>1, <2>3, <2>4, <2>5
  <2>6. CASE t # cmd.task
    BY <1>1, <2>4, <2>6
  <2> QED
    BY <2>5, <2>6
<1>6. CASE Hand
  <2>1. PICK u \in Task, e \in Bucket :
          HandResolve(u, e) \/ \E a \in Bucket : HandMove(u, a, e)
    BY <1>6 DEF Hand
  <2>2. CASE HandResolve(u, e)
    <3>1. PICK a \in Bucket : a # e /\ file[a][u] # None
      BY <2>2 DEF HandResolve, Duplicated, Copies
    <3>2. \A d \in Bucket, v \in Task : d # e \/ v # u => file'[d][v] = file[d][v]
      BY <2>2, RemoveTyped DEF HandResolve
    <3> QED
      BY <1>1, <3>1, <3>2
  <2>3. ASSUME NEW a \in Bucket, HandMove(u, a, e)
        PROVE  \E c \in Bucket : file'[c][t] # None
    <3>1. file[a][u] # None /\ file' = [file EXCEPT ![a][u] = None, ![e][u] = file[a][u]]
      BY <2>3 DEF HandMove
    <3>2. \A d \in Bucket, v \in Task :
            file'[d][v] = IF v # u THEN file[d][v]
                          ELSE IF d = e THEN file[a][u]
                          ELSE IF d = a THEN None ELSE file[d][v]
      BY <2>3, <3>1 DEF TypeOK, HandMove
    <3>3. CASE t = u
      <4>1. file'[e][u] = file[a][u]
        BY <3>2
      <4> QED
        BY <3>1, <3>3, <4>1
    <3>4. CASE t # u
      BY <1>1, <3>2, <3>4
    <3> QED
      BY <3>3, <3>4
  <2> QED
    BY <2>1, <2>2, <2>3
<1>7. CASE Start
  BY <1>1, <1>7, StartIsSound DEF Begin
<1>8. CASE WriteIndex \/ End \/ Stop \/ UNCHANGED vars
  BY <1>1, <1>8 DEF WriteIndex, End, Stop, vars
<1> QED
  BY <1>3, <1>4, <1>5, <1>6, <1>7, <1>8 DEF Next, Carry

\* No step of any command, wherever it dies, loses a record.
THEOREM NothingIsLost == Spec => RecordsSurvive
<1>1. IInv /\ [Next]_vars
        => [\A t \in Task : (\E b \in Bucket : file[b][t] # None)
                              => \E b \in Bucket : file'[b][t] # None]_file
  BY NoStepLosesARecord
<1> QED
  BY InitIsSound, Inductive, <1>1, PTL DEF Spec, RecordsSurvive

\* A verb that has written and removed leaves its task in the bucket of its
\* status, in no other, with that status.
THEOREM VerbsPlaceTasks == Spec => []VerbPlacesItsTask
<1>1. IInv => VerbPlacesItsTask
  <2> SUFFICES ASSUME IInv, cmd # None, cmd.verb \in Verb, main = {}, old = {}
               PROVE  LET s == Contract[cmd.verb].target IN
                        /\ Copies(cmd.task) = {BucketForStatus(s)}
                        /\ file[BucketForStatus(s)][cmd.task].status = s
    BY DEF VerbPlacesItsTask
  <2> DEFINE s == Contract[cmd.verb].target
  <2>1. BucketForStatus(s) \in Bucket
    BY ContractTyped
  <2>2. /\ Copies(cmd.task) \subseteq {BucketForStatus(s)}
        /\ file[BucketForStatus(s)][cmd.task] # None
        /\ file[BucketForStatus(s)][cmd.task].status = s
    BY DEF IInv, VerbIsUnderWay
  <2> HIDE DEF s
  <2>3. BucketForStatus(s) \in Copies(cmd.task)
    BY <2>1, <2>2 DEF Copies
  <2>4. /\ Copies(cmd.task) = {BucketForStatus(s)}
        /\ file[BucketForStatus(s)][cmd.task].status = s
    BY <2>2, <2>3
  <2> QED
    BY <2>4 DEF s
<1> QED
  BY InitIsSound, Inductive, <1>1, PTL DEF Spec

------------------------------------------------------------------------------
(***************************************************************************)
(* What a command leaves behind when it ends: the indexes, the dependents  *)
(* of a completed task, and the dependencies.                              *)
(***************************************************************************)

LEMMA CompleteIsComplete ==
  /\ "complete" \in Verb
  /\ Contract["complete"].target = "Completed"
  /\ BucketForStatus("Completed") = "completed"
BY DEF Verb, Contract, BucketForStatus

LEMMA VerbTargets ==
  ASSUME NEW v \in Verb
  PROVE  /\ Contract[v].target = "Completed" <=> v = "complete"
         /\ Contract[v].target \notin Terminal => v \notin {"complete", "cancel"}
         /\ v \notin {"complete", "cancel", "reopen"} =>
              Contract[v].from \cap Terminal = {}
<1>1. v \in {"accept", "start", "complete", "cancel", "reopen", "block", "unblock"}
  BY Zenon DEF Verb, Contract
<1> USE DEF Contract, Terminal
<1>2. CASE v = "accept"   BY <1>2
<1>3. CASE v = "start"    BY <1>3
<1>4. CASE v = "complete" BY <1>4
<1>5. CASE v = "cancel"   BY <1>5
<1>6. CASE v = "reopen"   BY <1>6
<1>7. CASE v = "block"    BY <1>7
<1>8. CASE v = "unblock"  BY <1>8
<1> QED
  BY <1>1, <1>2, <1>3, <1>4, <1>5, <1>6, <1>7, <1>8

\* Only a verb that completes has dependents to write.
LEMMA StartUnblocks ==
  ASSUME Start
  PROVE  /\ cmd'.verb # "complete" => others' = {}
         /\ cmd'.verb = "complete" => others' = Unblocked(cmd'.task)
<1>1. PICK t \in Task :
        \/ \E v \in Verb, b \in Bucket : StatusVerb(v, t, b)
        \/ \E s \in InitialStatus, deps \in SUBSET (Task \ {t}) : Create(t, s, deps)
        \/ \E b, e \in Bucket, d \in Task : DepAdd(t, b, d, e) \/ DepRemove(t, b, d, e)
        \/ \E b \in Bucket : Edit(t, b)
  BY DEF Start
<1>2. ASSUME NEW v \in Verb, NEW b \in Bucket, StatusVerb(v, t, b)
      PROVE  /\ cmd'.verb # "complete" => others' = {}
             /\ cmd'.verb = "complete" => others' = Unblocked(cmd'.task)
  <2>1. /\ cmd'.verb = v /\ cmd'.task = t
        /\ others' = IF Contract[v].target = "Completed" THEN Unblocked(t) ELSE {}
    BY <1>2 DEF StatusVerb, Begin
  <2>2. Contract[v].target = "Completed" <=> v = "complete"
    BY VerbTargets
  <2> QED
    BY <2>1, <2>2
<1>3. ASSUME \/ \E s \in InitialStatus, deps \in SUBSET (Task \ {t}) : Create(t, s, deps)
             \/ \E b, e \in Bucket, d \in Task : DepAdd(t, b, d, e) \/ DepRemove(t, b, d, e)
             \/ \E b \in Bucket : Edit(t, b)
      PROVE  cmd'.verb # "complete" /\ others' = {}
  <2>1. ASSUME NEW verb \in {"create", "dep", "edit"}, NEW w, Begin(verb, w, {}, {})
        PROVE  cmd'.verb # "complete" /\ others' = {}
    BY <2>1 DEF Begin
  <2>2. CASE \E s \in InitialStatus, deps \in SUBSET (Task \ {t}) : Create(t, s, deps)
    BY <2>1, <2>2 DEF Create
  <2>3. CASE \E b, e \in Bucket, d \in Task : DepAdd(t, b, d, e) \/ DepRemove(t, b, d, e)
    BY <2>1, <2>3 DEF DepAdd, DepRemove, Rewrite
  <2>4. CASE \E b \in Bucket : Edit(t, b)
    BY <2>1, <2>4 DEF Edit, Rewrite
  <2> QED
    BY <1>3, <2>2, <2>3, <2>4
<1> QED
  BY <1>1, <1>2, <1>3

LEMMA UnblockedShape ==
  ASSUME NEW t \in Task, NEW x \in Unblocked(t)
  PROVE  /\ x.bucket = "active" /\ x.task \in Task
         /\ file["active"][x.task] # None
         /\ file["active"][x.task].status = "Blocked"
         /\ TaskDependsOn(file["active"][x.task], t)
         /\ x.rec.status = "Pending"
         /\ x.rec.deps = file["active"][x.task].deps
         /\ \A d \in x.rec.deps : d = t \/ HasCompleted(d)
         /\ \A y \in Unblocked(t) : y.task = x.task => y = x
<1> DEFINE W(u) == [bucket |-> "active", task |-> u,
                    rec |-> [status |-> "Pending", deps |-> file["active"][u].deps,
                             reason |-> FALSE]]
<1>1. \A y \in Unblocked(t) : \E u \in Task :
        /\ y = W(u)
        /\ file["active"][u] # None
        /\ file["active"][u].status = "Blocked"
        /\ TaskDependsOn(file["active"][u], t)
        /\ \A d \in file["active"][u].deps : d = t \/ HasCompleted(d)
  BY DEF Unblocked
<1>2. \A u : /\ W(u).bucket = "active" /\ W(u).task = u
             /\ W(u).rec.status = "Pending" /\ W(u).rec.deps = file["active"][u].deps
  OBVIOUS
<1> HIDE DEF W
<1> QED
  BY <1>1, <1>2

LEMMA StartPromises ==
  ASSUME IInv, Start
  PROVE  ListIsPromised'
<1>1. PICK verb, w, gone, ws : Begin(verb, w, gone, ws) /\ Sound(verb, w, gone, ws)
  BY StartIsSound
<1> DEFINE t == w.task
           W == {w} \cup ws
<1>2. /\ cmd'.task = t /\ main' = {w} /\ old' = gone /\ others' = ws
      /\ pending' = Bucket /\ file' = file
      /\ \A b \in Bucket, u \in Task :
           list'[b][u] = IF \E x \in W : x.bucket = b /\ x.task = u
                         THEN (CHOOSE x \in W : x.bucket = b /\ x.task = u).rec.status
                         ELSE IF u = t /\ b \in gone THEN None
                         ELSE Listing(file)[b][u]
  BY <1>1 DEF Begin, ListAfter
<1>3. \A x \in W : x.bucket \in Bucket /\ x.task \in Task
  BY <1>1 DEF Sound, Write
<1>4. \A x, y \in ws : x.bucket = y.bucket /\ x.task = y.task => x = y
  <2>1. CASE cmd'.verb = "complete"
    <3>1. ws = Unblocked(t)
      BY <1>2, <2>1, StartUnblocks
    <3> QED
      BY <1>3, <3>1, UnblockedShape
  <2>2. CASE cmd'.verb # "complete"
    BY <1>2, <2>2, StartUnblocks
  <2> QED
    BY <2>1, <2>2
<1>5. \A x, y \in W : x.bucket = y.bucket /\ x.task = y.task => x = y
  BY <1>1, <1>4 DEF Sound
<1>6. ASSUME NEW x \in W
      PROVE  list'[x.bucket][x.task] = x.rec.status
  <2>1. (CHOOSE y \in W : y.bucket = x.bucket /\ y.task = x.task) = x
    BY <1>5
  <2> QED
    BY <1>2, <1>3, <2>1
<1>7. ASSUME NEW b \in gone
      PROVE  list'[b][t] = None
  <2>1. ~ \E x \in W : x.bucket = b /\ x.task = t
    BY <1>1, <1>7 DEF Sound
  <2> QED
    BY <1>1, <1>2, <1>3, <2>1 DEF Sound
<1>8. Listing(file)' = Listing(file)
  BY <1>2 DEF Listing
<1> HIDE DEF W, t
<1>9. W = main' \cup others'
  BY <1>2 DEF W
<1> QED
  BY <1>2, <1>6, <1>7, <1>8, <1>9 DEF ListIsPromised

LEMMA StartKnowsDependents ==
  ASSUME IInv, Start
  PROVE  DependentsAreKnown'
<1>1. PICK verb, w, gone, ws : Begin(verb, w, gone, ws) /\ Sound(verb, w, gone, ws)
  BY StartIsSound
<1> DEFINE t == w.task
<1>2. cmd'.task = t /\ t \in Task /\ file' = file /\ others' = ws
  BY <1>1 DEF Begin, Sound, Write
<1>3. /\ \A u : AwaitsInVain(u)' <=> /\ file["active"][u] # None
                                     /\ file["active"][u].status = "Blocked"
                                     /\ TaskDependsOn(file["active"][u], t)
      /\ \A d : HasCompleted(d)' <=> HasCompleted(d)
  BY <1>2 DEF AwaitsInVain, TaskDependsOn, HasCompleted, Copies
<1>4. CASE cmd'.verb # "complete"
  BY <1>4, StartUnblocks DEF DependentsAreKnown
<1>5. CASE cmd'.verb = "complete"
  <2>1. others' = Unblocked(t)
    BY <1>2, <1>5, StartUnblocks
  <2>2. \A x \in others' :
          /\ x.bucket = "active" /\ x.rec.status = "Pending"
          /\ AwaitsInVain(x.task)' /\ x.rec.deps = file'["active"][x.task].deps
          /\ \A d \in x.rec.deps : d = t \/ HasCompleted(d)'
          /\ \A y \in others' : y.task = x.task => y = x
    BY <1>2, <1>3, <2>1, UnblockedShape
  <2>3. ASSUME NEW u \in Task, AwaitsInVain(u)'
        PROVE  \/ \E x \in others' : x.task = u
               \/ \E d \in file'["active"][u].deps : d # t /\ ~HasCompleted(d)'
    <3>1. CASE \A d \in file["active"][u].deps : d = t \/ HasCompleted(d)
      <4> DEFINE x == [bucket |-> "active", task |-> u,
                       rec |-> [status |-> "Pending", deps |-> file["active"][u].deps,
                                reason |-> FALSE]]
      <4>1. x \in Unblocked(t)
        BY <1>3, <2>3, <3>1 DEF Unblocked
      <4> QED
        BY <2>1, <4>1
    <3>2. CASE ~ \A d \in file["active"][u].deps : d = t \/ HasCompleted(d)
      BY <1>2, <1>3, <3>2
    <3> QED
      BY <3>1, <3>2
  <2> QED
    BY <1>2, <1>5, <2>2, <2>3 DEF DependentsAreKnown
<1> QED
  BY <1>4, <1>5

\* One more write is on the disk, which is what the indexes will say.
LEMMA WritePromised ==
  ASSUME TypeOK, ListIsPromised, cmd # None, NEW w \in main \cup others,
         file' = [file EXCEPT ![w.bucket][w.task] = w.rec],
         main' = {}, others' = (main \cup others) \ {w},
         UNCHANGED <<index, cmd, old, pending, list>>
  PROVE  ListIsPromised'
<1>1. w \in Write
  BY DEF TypeOK
<1>2. /\ file'[w.bucket][w.task] = w.rec /\ w.rec # None
      /\ w.bucket \in Bucket /\ w.task \in Task
      /\ \A b \in Bucket, t \in Task :
           b # w.bucket \/ t # w.task => file'[b][t] = file[b][t]
  BY <1>1, WriteTyped
<1>3. \A b \in Bucket, t \in Task :
        Listing(file)'[b][t] = IF b = w.bucket /\ t = w.task THEN w.rec.status
                               ELSE Listing(file)[b][t]
  BY <1>2 DEF Listing
<1>4. main' # {} \/ old' # {} \/ others' # {} => main # {} \/ old # {} \/ others # {}
  OBVIOUS
<1>5. \A x \in main' \cup others' : x \in main \cup others
  OBVIOUS
<1>6. ASSUME NEW b \in Bucket, NEW t \in Task
      PROVE  \/ \E x \in main' \cup others' : x.bucket = b /\ x.task = t
             \/ b \in old /\ t = cmd.task
             \/ list[b][t] = Listing(file)'[b][t]
  <2>1. CASE b = w.bucket /\ t = w.task
    BY <1>3, <2>1 DEF ListIsPromised
  <2>2. CASE ~(b = w.bucket /\ t = w.task)
    <3>1. \/ \E x \in main \cup others : x.bucket = b /\ x.task = t
          \/ b \in old /\ t = cmd.task
          \/ list[b][t] = Listing(file)[b][t]
      BY DEF ListIsPromised
    <3> QED
      BY <1>3, <2>2, <3>1
  <2> QED
    BY <2>1, <2>2
<1> QED
  BY <1>4, <1>5, <1>6 DEF ListIsPromised

LEMMA WriteMainPromised ==
  ASSUME IInv, ListIsPromised, WriteMain
  PROVE  ListIsPromised'
<1>1. PICK w \in main : file' = [file EXCEPT ![w.bucket][w.task] = w.rec]
  BY DEF WriteMain
<1>2. cmd # None /\ main = {w} /\ w \notin others
  BY <1>1 DEF IInv, TypeOK, PlanIsSafe, ListIsPromised
<1>3. others' = (main \cup others) \ {w} /\ main' = {}
  BY <1>2 DEF WriteMain
<1> QED
  BY <1>1, <1>2, <1>3, WritePromised DEF WriteMain, IInv

LEMMA WriteOtherPromised ==
  ASSUME IInv, ListIsPromised, WriteOther
  PROVE  ListIsPromised'
<1>1. PICK w \in others : /\ file' = [file EXCEPT ![w.bucket][w.task] = w.rec]
                          /\ others' = others \ {w}
  BY DEF WriteOther
<1>2. cmd # None /\ main = {} /\ main' = {}
  BY <1>1 DEF WriteOther, IInv, TypeOK
<1>3. others' = (main \cup others) \ {w}
  BY <1>1, <1>2
<1> QED
  BY <1>1, <1>2, <1>3, WritePromised DEF WriteOther, IInv

LEMMA RemoveOldPromised ==
  ASSUME IInv, ListIsPromised, RemoveOld
  PROVE  ListIsPromised'
<1>1. PICK b \in old : file' = [file EXCEPT ![b][cmd.task] = None] /\ old' = old \ {b}
  BY DEF RemoveOld
<1>2. b \in Bucket /\ cmd # None /\ cmd.task \in Task
  BY <1>1 DEF IInv, TypeOK, Command
<1>3. /\ file'[b][cmd.task] = None
      /\ \A a \in Bucket, u \in Task : a # b \/ u # cmd.task => file'[a][u] = file[a][u]
  BY <1>1, <1>2, RemoveTyped DEF IInv
<1>4. \A a \in Bucket, t \in Task :
        Listing(file)'[a][t] = IF a = b /\ t = cmd.task THEN None ELSE Listing(file)[a][t]
  BY <1>3 DEF Listing
<1>5. ASSUME NEW a \in Bucket, NEW t \in Task
      PROVE  \/ \E x \in main \cup others : x.bucket = a /\ x.task = t
             \/ a \in old' /\ t = cmd.task
             \/ list[a][t] = Listing(file)'[a][t]
  <2>1. CASE a = b /\ t = cmd.task
    BY <1>2, <1>4, <2>1 DEF ListIsPromised
  <2>2. CASE ~(a = b /\ t = cmd.task)
    <3>1. \/ \E x \in main \cup others : x.bucket = a /\ x.task = t
          \/ a \in old /\ t = cmd.task
          \/ list[a][t] = Listing(file)[a][t]
      BY <1>2 DEF ListIsPromised
    <3> QED
      BY <1>1, <1>4, <2>2, <3>1
  <2> QED
    BY <2>1, <2>2
<1> QED
  BY <1>1, <1>2, <1>5 DEF RemoveOld, ListIsPromised

LEMMA WriteIndexPromised ==
  ASSUME IInv, ListIsPromised, WriteIndex
  PROVE  ListIsPromised'
<1> DEFINE b == First(pending)
<1>1. b \in Bucket
  BY FirstTyped
<1>2. /\ index'[b] = list[b] /\ \A a \in Bucket \ {b} : index'[a] = index[a]
      /\ pending' = pending \ {b}
  BY <1>1 DEF WriteIndex, IInv, TypeOK, Index
<1>3. UNCHANGED <<file, cmd, main, old, others, list>>
      /\ main = {} /\ old = {} /\ others = {}
  BY DEF WriteIndex
<1>4. cmd # None => \A a \in Bucket, t \in Task : list[a][t] = Listing(file)[a][t]
  BY <1>3 DEF ListIsPromised
<1>5. Listing(file)' = Listing(file)
  BY <1>3 DEF Listing
<1> HIDE DEF b
<1> QED
  BY <1>2, <1>3, <1>4, <1>5 DEF ListIsPromised

------------------------------------------------------------------------------
(* The dependents of a task that is completed *)

\* A write that takes nothing Completed away and touches no other task but one.
LEMMA WriteMainKnows ==
  ASSUME IInv, DependentsAreKnown, WriteMain
  PROVE  DependentsAreKnown'
<1>1. PICK w \in main : file' = [file EXCEPT ![w.bucket][w.task] = w.rec]
  BY DEF WriteMain
<1>2. w \in Write /\ w.task = cmd.task /\ cmd # None /\ UNCHANGED <<cmd, others>>
  BY <1>1 DEF WriteMain, IInv, TypeOK
<1>3. /\ w.task \in Task /\ w.task \notin w.rec.deps
      /\ file'[w.bucket][w.task] = w.rec
      /\ \A b \in Bucket, t \in Task :
           b # w.bucket \/ t # w.task => file'[b][t] = file[b][t]
  BY <1>1, <1>2, WriteTyped DEF IInv, NoTaskAwaitsItself
<1>4. \A d \in Task : d # cmd.task => (HasCompleted(d)' <=> HasCompleted(d))
  BY <1>2, <1>3 DEF HasCompleted, Copies
<1>5. \A u \in Task \ {cmd.task} : /\ file'["active"][u] = file["active"][u]
                                   /\ AwaitsInVain(u)' <=> AwaitsInVain(u)
  BY <1>2, <1>3 DEF AwaitsInVain, TaskDependsOn, Bucket
<1>6. \A u \in Task : AwaitsInVain(u)' => u # cmd.task
  BY <1>2, <1>3 DEF AwaitsInVain, TaskDependsOn, IInv, NoTaskAwaitsItself, Bucket
<1>7. \A u \in Task : file["active"][u] # None => file["active"][u].deps \subseteq Task
  BY DEF IInv, TypeOK, Record, Bucket
<1>8. \A x \in others : x.task \in Task \ {cmd.task} /\ x.rec.deps \subseteq Task
  BY <1>2 DEF IInv, TypeOK, PlanIsSafe, Write, Record
<1>9. ASSUME NEW x \in others
      PROVE  /\ x.bucket = "active" /\ x.rec.status = "Pending"
             /\ AwaitsInVain(x.task)' /\ x.rec.deps = file'["active"][x.task].deps
             /\ \A d \in x.rec.deps : d = cmd.task \/ HasCompleted(d)'
             /\ \A v \in others : v.task = x.task => v = x
  BY <1>2, <1>4, <1>5, <1>8 DEF DependentsAreKnown
<1>10. ASSUME NEW u \in Task, AwaitsInVain(u)', cmd.verb = "complete"
       PROVE  \/ \E x \in others : x.task = u
              \/ \E d \in file'["active"][u].deps : d # cmd.task /\ ~HasCompleted(d)'
  <2>1. u # cmd.task /\ AwaitsInVain(u) /\ file'["active"][u] = file["active"][u]
    BY <1>5, <1>6, <1>10
  <2>2. file["active"][u].deps \subseteq Task
    BY <1>7, <2>1 DEF AwaitsInVain
  <2>3. \/ \E x \in others : x.task = u
        \/ \E d \in file["active"][u].deps : d # cmd.task /\ ~HasCompleted(d)
    BY <1>2, <1>10, <2>1 DEF DependentsAreKnown
  <2> QED
    BY <1>4, <2>1, <2>2, <2>3
<1>11. cmd.verb # "complete" => others = {}
  BY <1>2 DEF DependentsAreKnown
<1> QED
  BY <1>2, <1>9, <1>10, <1>11 DEF DependentsAreKnown

LEMMA RemoveOldKnows ==
  ASSUME IInv, DependentsAreKnown, RemoveOld
  PROVE  DependentsAreKnown'
<1>1. PICK b \in old : file' = [file EXCEPT ![b][cmd.task] = None]
  BY DEF RemoveOld
<1>2. b \in Bucket /\ cmd # None /\ cmd.task \in Task /\ UNCHANGED <<cmd, others>>
  BY <1>1 DEF RemoveOld, IInv, TypeOK, Command
<1>3. \A a \in Bucket, u \in Task : a # b \/ u # cmd.task => file'[a][u] = file[a][u]
  BY <1>1, <1>2, RemoveTyped DEF IInv
<1>4. \A d \in Task : d # cmd.task => (HasCompleted(d)' <=> HasCompleted(d))
  BY <1>3 DEF HasCompleted, Copies
<1>5. \A u \in Task \ {cmd.task} : /\ file'["active"][u] = file["active"][u]
                                   /\ AwaitsInVain(u)' <=> AwaitsInVain(u)
  BY <1>2, <1>3 DEF AwaitsInVain, TaskDependsOn, Bucket
<1>6. \A u \in Task : AwaitsInVain(u)' => u # cmd.task
  <2>1. file'["active"][cmd.task] \in {None, file["active"][cmd.task]}
    BY <1>1, <1>2, <1>3, RemoveTyped DEF IInv, Bucket
  <2> QED
    BY <1>2, <2>1 DEF AwaitsInVain, TaskDependsOn, IInv, NoTaskAwaitsItself, Bucket
<1>7. \A u \in Task : file["active"][u] # None => file["active"][u].deps \subseteq Task
  BY DEF IInv, TypeOK, Record, Bucket
<1>8. \A x \in others : x.task \in Task \ {cmd.task} /\ x.rec.deps \subseteq Task
  BY <1>2 DEF IInv, TypeOK, PlanIsSafe, Write, Record
<1>9. ASSUME NEW x \in others
      PROVE  /\ x.bucket = "active" /\ x.rec.status = "Pending"
             /\ AwaitsInVain(x.task)' /\ x.rec.deps = file'["active"][x.task].deps
             /\ \A d \in x.rec.deps : d = cmd.task \/ HasCompleted(d)'
             /\ \A v \in others : v.task = x.task => v = x
  BY <1>2, <1>4, <1>5, <1>8 DEF DependentsAreKnown
<1>10. ASSUME NEW u \in Task, AwaitsInVain(u)', cmd.verb = "complete"
       PROVE  \/ \E x \in others : x.task = u
              \/ \E d \in file'["active"][u].deps : d # cmd.task /\ ~HasCompleted(d)'
  <2>1. u # cmd.task /\ AwaitsInVain(u) /\ file'["active"][u] = file["active"][u]
    BY <1>5, <1>6, <1>10
  <2>2. file["active"][u].deps \subseteq Task
    BY <1>7, <2>1 DEF AwaitsInVain
  <2>3. \/ \E x \in others : x.task = u
        \/ \E d \in file["active"][u].deps : d # cmd.task /\ ~HasCompleted(d)
    BY <1>2, <1>10, <2>1 DEF DependentsAreKnown
  <2> QED
    BY <1>4, <2>1, <2>2, <2>3
<1>11. cmd.verb # "complete" => others = {}
  BY <1>2 DEF DependentsAreKnown
<1> QED
  BY <1>2, <1>9, <1>10, <1>11 DEF DependentsAreKnown

LEMMA WriteOtherKnows ==
  ASSUME IInv, DependentsAreKnown, WriteOther
  PROVE  DependentsAreKnown'
<1>1. PICK w \in others : /\ file' = [file EXCEPT ![w.bucket][w.task] = w.rec]
                          /\ others' = others \ {w}
  BY DEF WriteOther
<1>2. w \in Write /\ cmd # None /\ cmd' = cmd
  BY <1>1 DEF WriteOther, IInv, TypeOK
<1>3. /\ w.bucket = "active" /\ w.rec.status = "Pending" /\ AwaitsInVain(w.task)
      /\ \A v \in others : v.task = w.task => v = w
  BY <1>1, <1>2 DEF DependentsAreKnown
<1>4. /\ w.task \in Task
      /\ file'["active"][w.task] = w.rec
      /\ \A b \in Bucket, t \in Task :
           b # "active" \/ t # w.task => file'[b][t] = file[b][t]
  BY <1>1, <1>2, <1>3, WriteTyped DEF IInv
<1>5. \A d \in Task : HasCompleted(d)' <=> HasCompleted(d)
  BY <1>3, <1>4 DEF HasCompleted, Copies, AwaitsInVain, Bucket
<1>6. \A u \in Task \ {w.task} : /\ file'["active"][u] = file["active"][u]
                                 /\ AwaitsInVain(u)' <=> AwaitsInVain(u)
  BY <1>2, <1>4 DEF AwaitsInVain, TaskDependsOn, Bucket
<1>7. ~AwaitsInVain(w.task)'
  BY <1>3, <1>4 DEF AwaitsInVain
<1>8. \A u \in Task : file["active"][u] # None => file["active"][u].deps \subseteq Task
  BY DEF IInv, TypeOK, Record, Bucket
<1>9. \A x \in others : x.task \in Task /\ x.rec.deps \subseteq Task
  BY DEF IInv, TypeOK, Write, Record
<1>10. \A x \in others' : x \in others /\ x.task # w.task
  BY <1>1, <1>3
<1>11. \A x \in others : x.task # w.task => x \in others'
  BY <1>1
<1>12. ASSUME NEW u \in Task, AwaitsInVain(u)', cmd.verb = "complete"
       PROVE  \/ \E x \in others' : x.task = u
              \/ \E d \in file'["active"][u].deps : d # cmd.task /\ ~HasCompleted(d)'
  <2>1. u # w.task /\ AwaitsInVain(u) /\ file'["active"][u] = file["active"][u]
    BY <1>6, <1>7, <1>12
  <2>2. file["active"][u].deps \subseteq Task
    BY <1>8, <2>1 DEF AwaitsInVain
  <2> QED
    BY <1>2, <1>5, <1>11, <1>12, <2>1, <2>2 DEF DependentsAreKnown
<1>13. ASSUME NEW x \in others'
       PROVE  /\ x.bucket = "active" /\ x.rec.status = "Pending"
              /\ AwaitsInVain(x.task)' /\ x.rec.deps = file'["active"][x.task].deps
              /\ \A d \in x.rec.deps : d = cmd.task \/ HasCompleted(d)'
              /\ \A v \in others' : v.task = x.task => v = x
  BY <1>2, <1>5, <1>6, <1>9, <1>10 DEF DependentsAreKnown
<1>14. cmd.verb # "complete" => others' = {}
  BY <1>1, <1>2 DEF DependentsAreKnown
<1> QED
  BY <1>2, <1>12, <1>13, <1>14 DEF DependentsAreKnown

------------------------------------------------------------------------------
(* Dependencies: whose tasks exist, and which closes a cycle *)

\* A command that begins has read the tasks it makes others depend on.
LEMMA StartDepsExist ==
  ASSUME IInv, DepsExist, Start
  PROVE  DepsExist'
<1>1. PICK verb, w, gone, ws : Begin(verb, w, gone, ws) /\ Sound(verb, w, gone, ws)
  BY StartIsSound
<1>2. main' = {w} /\ others' = ws /\ file' = file /\ cmd'.verb = verb /\ cmd'.task = w.task
  BY <1>1 DEF Begin
<1>3. \A d : Copies(d)' = Copies(d)
  BY <1>2 DEF Copies
<1>4. \A x \in ws : \A d \in x.rec.deps : Copies(d) # {}
  <2>1. CASE verb = "complete"
    <3>1. ws = Unblocked(w.task) /\ w.task \in Task
      BY <1>1, <1>2, <2>1, StartUnblocks DEF Sound, Write
    <3> QED
      BY <3>1, UnblockedShape DEF DepsExist, Bucket
  <2>2. CASE verb # "complete"
    BY <1>2, <2>2, StartUnblocks
  <2> QED
    BY <2>1, <2>2
<1>5. \A d \in w.rec.deps : Copies(d) # {}
  <2>1. PICK t \in Task :
          \/ \E v \in Verb, b \in Bucket : StatusVerb(v, t, b)
          \/ \E s \in InitialStatus, deps \in SUBSET (Task \ {t}) : Create(t, s, deps)
          \/ \E b, e \in Bucket, d \in Task : DepAdd(t, b, d, e) \/ DepRemove(t, b, d, e)
          \/ \E b \in Bucket : Edit(t, b)
    BY DEF Start
  <2>2. ASSUME NEW b \in Bucket, Resolved(t, b)
        PROVE  /\ file[b][t] \in Record /\ file[b][t] # None
               /\ \A d \in file[b][t].deps : Copies(d) # {}
    BY <2>2 DEF Resolved, Copies, IInv, TypeOK, DepsExist
  <2>3. ASSUME NEW v \in Verb, NEW b \in Bucket, StatusVerb(v, t, b)
        PROVE  \A d \in w.rec.deps : Copies(d) # {}
    <3>1. w.rec.deps = file[b][t].deps
      BY <1>2, <2>3 DEF StatusVerb, Begin
    <3> QED
      BY <2>2, <2>3, <3>1 DEF StatusVerb
  <2>4. ASSUME NEW s \in InitialStatus, NEW deps \in SUBSET (Task \ {t}), Create(t, s, deps)
        PROVE  \A d \in w.rec.deps : Copies(d) # {}
    <3>1. w.rec.deps = deps
      BY <1>2, <2>4 DEF Create, Begin
    <3> QED
      BY <2>4, <3>1 DEF Create, Resolved
  <2>5. ASSUME NEW b \in Bucket, Resolved(t, b), NEW verb2, NEW deps, Rewrite(verb2, t, b, deps),
               \A d \in deps : Copies(d) # {}
        PROVE  \A d \in w.rec.deps : Copies(d) # {}
    <3>1. w.rec = [file[b][t] EXCEPT !.deps = deps]
      BY <1>2, <2>5 DEF Rewrite, Begin
    <3> QED
      BY <2>2, <2>5, <3>1 DEF Record
  <2>6. ASSUME NEW b \in Bucket, NEW e \in Bucket, NEW d \in Task,
               DepAdd(t, b, d, e) \/ DepRemove(t, b, d, e)
        PROVE  \A c \in w.rec.deps : Copies(c) # {}
    <3>1. CASE DepAdd(t, b, d, e)
      <4>1. \A c \in file[b][t].deps \cup {d} : Copies(c) # {}
        BY <2>2, <3>1 DEF DepAdd, Resolved
      <4> QED
        BY <2>5, <3>1, <4>1 DEF DepAdd
    <3>2. CASE DepRemove(t, b, d, e)
      <4>1. \A c \in file[b][t].deps \ {d} : Copies(c) # {}
        BY <2>2, <3>2 DEF DepRemove
      <4> QED
        BY <2>5, <3>2, <4>1 DEF DepRemove
    <3> QED
      BY <2>6, <3>1, <3>2
  <2>7. ASSUME NEW b \in Bucket, Edit(t, b)
        PROVE  \A d \in w.rec.deps : Copies(d) # {}
    BY <2>2, <2>5, <2>7 DEF Edit
  <2> QED
    BY <2>1, <2>3, <2>4, <2>6, <2>7
<1> QED
  BY <1>2, <1>3, <1>4, <1>5 DEF DepsExist

\* No step loses a record, so what a task depends on stays.
LEMMA DepsStay ==
  ASSUME IInv, DepsExist, [Next]_vars
  PROVE  DepsExist'
<1>1. ASSUME NEW d \in Task, Copies(d) # {}
      PROVE  Copies(d)' # {}
  BY <1>1, NoStepLosesARecord DEF Copies
<1>2. ASSUME NEW b \in Bucket, NEW t \in Task, file[b][t] # None, NEW d \in file[b][t].deps
      PROVE  d \in Task /\ Copies(d)' # {}
  BY <1>1, <1>2 DEF DepsExist, IInv, TypeOK, Record
<1>3. ASSUME NEW w \in main \cup others, NEW d \in w.rec.deps
      PROVE  d \in Task /\ Copies(d)' # {}
  BY <1>1, <1>3 DEF DepsExist, IInv, TypeOK, Write, Record
<1>4. ASSUME main' \cup others' \subseteq main \cup others,
             \A b \in Bucket, t \in Task :
               \/ file'[b][t] = None
               \/ \E a \in Bucket : file'[b][t] = file[a][t]
               \/ \E w \in main \cup others : file'[b][t] = w.rec
      PROVE  DepsExist'
  BY <1>2, <1>3, <1>4 DEF DepsExist
<1>5. ASSUME NEW w \in main \cup others, file' = [file EXCEPT ![w.bucket][w.task] = w.rec],
             main' \cup others' \subseteq main \cup others
      PROVE  DepsExist'
  <2>1. w \in Write
    BY DEF IInv, TypeOK
  <2>2. \A b \in Bucket, t \in Task : file'[b][t] \in {file[b][t], w.rec}
    BY <1>5, <2>1, WriteTyped DEF IInv
  <2> QED
    BY <1>4, <1>5, <2>2
<1>6. CASE WriteMain
  BY <1>5, <1>6 DEF WriteMain
<1>7. CASE WriteOther
  BY <1>5, <1>7 DEF WriteOther
<1>8. CASE RemoveOld
  <2>1. PICK b \in old : file' = [file EXCEPT ![b][cmd.task] = None]
    BY <1>8 DEF RemoveOld
  <2>2. b \in Bucket /\ cmd.task \in Task
    BY <2>1 DEF IInv, TypeOK, Command
  <2>3. \A a \in Bucket, u \in Task : file'[a][u] \in {file[a][u], None}
    BY <2>1, <2>2, RemoveTyped DEF IInv
  <2> QED
    BY <1>4, <1>8, <2>3 DEF RemoveOld
<1>9. CASE Hand
  <2>1. PICK t \in Task, b \in Bucket :
          HandResolve(t, b) \/ \E a \in Bucket : HandMove(t, a, b)
    BY <1>9 DEF Hand
  <2>2. CASE HandResolve(t, b)
    <3>1. \A a \in Bucket, u \in Task : file'[a][u] \in {file[a][u], None}
      BY <2>2, RemoveTyped DEF HandResolve, IInv
    <3> QED
      BY <1>4, <2>2, <3>1 DEF HandResolve, plan
  <2>3. ASSUME NEW a \in Bucket, HandMove(t, a, b)
        PROVE  DepsExist'
    <3>1. file' = [file EXCEPT ![a][t] = None, ![b][t] = file[a][t]]
      BY <2>3 DEF HandMove
    <3>2. \A e \in Bucket, u \in Task :
            \/ file'[e][u] = None
            \/ \E c \in Bucket : file'[e][u] = file[c][u]
      BY <3>1 DEF IInv, TypeOK
    <3> QED
      BY <1>4, <2>3, <3>2 DEF HandMove, plan
  <2> QED
    BY <2>1, <2>2, <2>3
<1>10. CASE WriteIndex \/ End \/ Stop \/ UNCHANGED vars
  <2>1. file' = file /\ main' \cup others' \subseteq main \cup others
    BY <1>10 DEF WriteIndex, End, Stop, NoPlan, vars, plan
  <2> QED
    BY <1>4, <2>1
<1> QED
  BY <1>6, <1>7, <1>8, <1>9, <1>10, StartDepsExist DEF Next, Carry

\* Records whose dependencies were already there close no cycle.
LEMMA LessClosesNoCycle ==
  ASSUME NEW f, NEW g, CycleIn(g),
         \A b \in Bucket, t \in Task : g[b][t] # None /\ g[b][t].status \notin Terminal =>
           \E c \in Bucket : /\ f[c][t] # None
                             /\ f[c][t].status \notin Terminal
                             /\ g[b][t].deps \subseteq f[c][t].deps
  PROVE  CycleIn(f)
<1>1. PICK S \in (SUBSET Task) \ {{}} :
        \A t \in S : \E b \in Bucket :
          g[b][t] # None /\ g[b][t].status \notin Terminal /\ g[b][t].deps \cap S # {}
  BY DEF CycleIn
<1>2. ASSUME NEW t \in S
      PROVE  \E b \in Bucket :
               f[b][t] # None /\ f[b][t].status \notin Terminal /\ f[b][t].deps \cap S # {}
  <2>1. PICK b \in Bucket :
          g[b][t] # None /\ g[b][t].status \notin Terminal /\ g[b][t].deps \cap S # {}
    BY <1>1
  <2> QED
    BY <2>1
<1> QED
  BY <1>2 DEF CycleIn

LEMMA RewriteClosesNoCycle ==
  ASSUME IInv, NEW w \in Write, NEW c \in Bucket, file[c][w.task] # None,
         w.rec.status \notin Terminal => file[c][w.task].status \notin Terminal,
         w.rec.deps \subseteq file[c][w.task].deps,
         CycleIn([file EXCEPT ![w.bucket][w.task] = w.rec])
  PROVE  ActiveCycle
<1> DEFINE g == [file EXCEPT ![w.bucket][w.task] = w.rec]
<1>1. \A b \in Bucket, t \in Task :
        g[b][t] = IF b = w.bucket /\ t = w.task THEN w.rec ELSE file[b][t]
  BY DEF IInv, TypeOK, Write
<1>2. w.bucket \in Bucket /\ w.task \in Task
  BY DEF Write
<1> HIDE DEF g
<1>3. ASSUME NEW b \in Bucket, NEW t \in Task, g[b][t] # None, g[b][t].status \notin Terminal
      PROVE  \E e \in Bucket : /\ file[e][t] # None
                               /\ file[e][t].status \notin Terminal
                               /\ g[b][t].deps \subseteq file[e][t].deps
  <2>1. CASE b = w.bucket /\ t = w.task
    BY <1>1, <1>2, <1>3, <2>1
  <2>2. CASE ~(b = w.bucket /\ t = w.task)
    BY <1>1, <1>3, <2>2
  <2> QED
    BY <2>1, <2>2
<1>4. CycleIn(g)
  BY DEF g
<1> QED
  BY <1>3, <1>4, LessClosesNoCycle DEF ActiveCycle

\* A new task is one that no other waits for.
LEMMA CreateClosesNoCycle ==
  ASSUME IInv, DepsExist, NEW w \in Write, Copies(w.task) = {}, w.task \notin w.rec.deps,
         CycleIn([file EXCEPT ![w.bucket][w.task] = w.rec])
  PROVE  ActiveCycle
<1> DEFINE g == [file EXCEPT ![w.bucket][w.task] = w.rec]
           n == w.task
<1>1. \A b \in Bucket, t \in Task :
        g[b][t] = IF b = w.bucket /\ t = w.task THEN w.rec ELSE file[b][t]
  BY DEF IInv, TypeOK, Write
<1>2. w.bucket \in Bucket /\ n \in Task
  BY DEF Write
<1> HIDE DEF g
<1>3. PICK S \in (SUBSET Task) \ {{}} :
        \A t \in S : \E b \in Bucket :
          g[b][t] # None /\ g[b][t].status \notin Terminal /\ g[b][t].deps \cap S # {}
  BY DEF CycleIn, g
<1>4. \A b \in Bucket : file[b][n] = None
  BY DEF Copies
<1>5. ASSUME NEW t \in S \ {n}
      PROVE  \E b \in Bucket : /\ file[b][t] # None
                               /\ file[b][t].status \notin Terminal
                               /\ file[b][t].deps \cap (S \ {n}) # {}
  <2>1. PICK b \in Bucket :
          g[b][t] # None /\ g[b][t].status \notin Terminal /\ g[b][t].deps \cap S # {}
    BY <1>3, <1>5
  <2>2. g[b][t] = file[b][t]
    BY <1>1, <1>5
  <2>3. \A d \in file[b][t].deps : Copies(d) # {}
    BY <2>1, <2>2, <1>5 DEF DepsExist
  <2>4. n \notin file[b][t].deps
    BY <2>3
  <2> QED
    BY <2>1, <2>2, <2>4
<1>6. S \ {n} # {}
  <2>1. CASE n \in S
    <3>1. PICK b \in Bucket : g[b][n] # None /\ g[b][n].deps \cap S # {}
      BY <1>3, <2>1
    <3>2. g[b][n] = w.rec
      BY <1>1, <1>2, <1>4, <3>1
    <3> QED
      BY <3>1, <3>2
  <2>2. CASE n \notin S
    BY <2>2
  <2> QED
    BY <2>1, <2>2
<1> QED
  BY <1>5, <1>6 DEF ActiveCycle, CycleIn

\* dep add looks for a cycle in one copy of each task. While no other task is
\* duplicated there is no other copy that could close one.
LEMMA DepAddClosesNoCycle ==
  ASSUME IInv, NEW t \in Task, NEW b \in Bucket, Resolved(t, b), NEW deps \in SUBSET Task,
         \E rec \in ByID : ~Cyclic([rec EXCEPT ![t].deps = deps]),
         \A u \in Task : Duplicated(u) => u = t
  PROVE  ~CycleIn([file EXCEPT ![b][t] = [file[b][t] EXCEPT !.deps = deps]])
<1> DEFINE r == [file[b][t] EXCEPT !.deps = deps]
           g == [file EXCEPT ![b][t] = r]
<1>1. PICK rec \in ByID : ~Cyclic([rec EXCEPT ![t].deps = deps])
  OBVIOUS
<1>2. PICK p \in [Task -> Bucket] :
        /\ \A u \in Task : Copies(u) # {} => p[u] \in Copies(u)
        /\ rec = [u \in Task |-> file[p[u]][u]]
  BY DEF ByID
<1>3. \A u \in Task, c \in Bucket : file[c][u] # None => rec[u] = file[c][u]
  <2> SUFFICES ASSUME NEW u \in Task, NEW c \in Bucket, file[c][u] # None
               PROVE  p[u] = c
    BY <1>2
  <2>1. c \in Copies(u) /\ p[u] \in Copies(u)
    BY <1>2 DEF Copies
  <2>2. CASE u = t
    BY <2>1, <2>2 DEF Resolved
  <2>3. CASE u # t
    BY <2>1, <2>3 DEF Duplicated
  <2> QED
    BY <2>2, <2>3
<1>4. file[b][t] \in Record /\ file[b][t] # None /\ \A c \in Bucket \ {b} : file[c][t] = None
  BY DEF Resolved, Copies, IInv, TypeOK
<1>5. r.deps = deps /\ r.status = file[b][t].status
  BY <1>4 DEF Record
<1>6. \A c \in Bucket, u \in Task : g[c][u] = IF c = b /\ u = t THEN r ELSE file[c][u]
  BY DEF IInv, TypeOK
<1> DEFINE q == [rec EXCEPT ![t].deps = deps]
<1>7. \A u \in Task : q[u] = IF u = t THEN [rec[t] EXCEPT !.deps = deps] ELSE rec[u]
  BY <1>2
<1>8. q[t] = r
  BY <1>3, <1>4, <1>7
<1> HIDE DEF g, q, r
<1>9. SUFFICES ASSUME CycleIn(g) PROVE Cyclic(q)
  BY <1>1 DEF g, q, r
<1>10. PICK S \in (SUBSET Task) \ {{}} :
        \A u \in S : \E c \in Bucket :
          g[c][u] # None /\ g[c][u].status \notin Terminal /\ g[c][u].deps \cap S # {}
  BY <1>9 DEF CycleIn
<1>11. ASSUME NEW u \in S
       PROVE  q[u] # None /\ q[u].status \notin Terminal /\ q[u].deps \cap S # {}
  <2>1. PICK c \in Bucket :
          g[c][u] # None /\ g[c][u].status \notin Terminal /\ g[c][u].deps \cap S # {}
    BY <1>10
  <2>2. q[u] = g[c][u]
    <3>1. CASE u = t
      BY <1>4, <1>6, <1>8, <2>1, <3>1
    <3>2. CASE u # t
      BY <1>3, <1>6, <1>7, <2>1, <3>2
    <3> QED
      BY <3>1, <3>2
  <2> QED
    BY <2>1, <2>2
<1> QED
  BY <1>11 DEF Cyclic

LEMMA StartClosesNoCycle ==
  ASSUME IInv, DepsExist, Start
  PROVE  MainClosesNoCycle'
<1>1. PICK verb, w, gone, ws : Begin(verb, w, gone, ws) /\ Sound(verb, w, gone, ws)
  BY StartIsSound
<1>2. /\ main' = {w} /\ file' = file /\ cmd'.verb = verb /\ cmd'.task = w.task
      /\ w \in Write /\ w.task \notin w.rec.deps
  BY <1>1 DEF Begin, Sound
<1> DEFINE n == w.task
           g == [file EXCEPT ![w.bucket][w.task] = w.rec]
<1>3. SUFFICES ASSUME verb # "reopen", \A u \in Task : Duplicated(u) => u = n, CycleIn(g)
               PROVE  ActiveCycle
  BY <1>2 DEF MainClosesNoCycle, Duplicated, Copies, ActiveCycle
<1> HIDE DEF g
<1>4. PICK t \in Task :
        \/ \E v \in Verb, b \in Bucket : StatusVerb(v, t, b)
        \/ \E s \in InitialStatus, deps \in SUBSET (Task \ {t}) : Create(t, s, deps)
        \/ \E b, e \in Bucket, d \in Task : DepAdd(t, b, d, e) \/ DepRemove(t, b, d, e)
        \/ \E b \in Bucket : Edit(t, b)
  BY DEF Start
<1>5. ASSUME NEW b \in Bucket, Resolved(t, b)
      PROVE  file[b][t] \in Record /\ file[b][t] # None
  BY <1>5 DEF Resolved, Copies, IInv, TypeOK
<1>6. ASSUME NEW v \in Verb, NEW b \in Bucket, StatusVerb(v, t, b)
      PROVE  ActiveCycle
  <2> DEFINE s == Contract[v].target
  <2>1. /\ verb = v /\ w.task = t /\ w.rec.deps = file[b][t].deps /\ w.rec.status = s
        /\ Resolved(t, b)
        /\ file[b][t].status = s \/ file[b][t].status \in Contract[v].from
    BY <1>2, <1>6 DEF StatusVerb, Begin
  <2>2. s \notin Terminal => file[b][t].status \notin Terminal
    BY <1>3, <2>1, VerbTargets
  <2> QED
    BY <1>2, <1>3, <1>5, <2>1, <2>2, RewriteClosesNoCycle DEF g
<1>7. ASSUME NEW s \in InitialStatus, NEW deps \in SUBSET (Task \ {t}), Create(t, s, deps)
      PROVE  ActiveCycle
  <2>1. w.task = t /\ Copies(t) = {}
    BY <1>2, <1>7 DEF Create, Begin
  <2> QED
    BY <1>2, <1>3, <2>1, CreateClosesNoCycle DEF g
<1>8. ASSUME NEW b \in Bucket, Resolved(t, b), NEW verb2, NEW deps, Rewrite(verb2, t, b, deps)
      PROVE  /\ w = [bucket |-> b, task |-> t, rec |-> [file[b][t] EXCEPT !.deps = deps]]
             /\ w.rec.deps = deps /\ w.rec.status = file[b][t].status
  <2>1. w = [bucket |-> b, task |-> t, rec |-> [file[b][t] EXCEPT !.deps = deps]]
    BY <1>2, <1>8 DEF Rewrite, Begin
  <2> QED
    BY <1>5, <1>8, <2>1 DEF Record
<1>9. ASSUME NEW b \in Bucket, Resolved(t, b), NEW verb2, NEW deps, Rewrite(verb2, t, b, deps),
             deps \subseteq file[b][t].deps
      PROVE  ActiveCycle
  <2>1. w.bucket = b /\ w.task = t /\ w.rec.deps = deps /\ w.rec.status = file[b][t].status
    BY <1>8, <1>9
  <2> QED
    BY <1>2, <1>3, <1>5, <1>9, <2>1, RewriteClosesNoCycle DEF g
<1>10. ASSUME NEW b \in Bucket, NEW e \in Bucket, NEW d \in Task, DepAdd(t, b, d, e)
       PROVE  ActiveCycle
  <2> DEFINE deps == file[b][t].deps \cup {d}
  <2>1. /\ Resolved(t, b) /\ Rewrite("dep", t, b, deps)
        /\ \E rec \in ByID : ~Cyclic([rec EXCEPT ![t].deps = deps])
    BY <1>10 DEF DepAdd
  <2>2. deps \in SUBSET Task
    BY <1>5, <2>1 DEF Record
  <2> HIDE DEF deps
  <2>3. w = [bucket |-> b, task |-> t, rec |-> [file[b][t] EXCEPT !.deps = deps]]
    BY <1>8, <2>1
  <2>4. w.task = t /\ g = [file EXCEPT ![b][t] = [file[b][t] EXCEPT !.deps = deps]]
    BY <2>3 DEF g
  <2> QED
    BY <1>3, <2>1, <2>2, <2>4, DepAddClosesNoCycle
<1>11. ASSUME NEW b \in Bucket, NEW e \in Bucket, NEW d \in Task, DepRemove(t, b, d, e)
       PROVE  ActiveCycle
  BY <1>9, <1>11 DEF DepRemove
<1>12. ASSUME NEW b \in Bucket, Edit(t, b)
       PROVE  ActiveCycle
  BY <1>9, <1>12 DEF Edit
<1> QED
  BY <1>4, <1>6, <1>7, <1>10, <1>11, <1>12

------------------------------------------------------------------------------
(* The three invariants together *)

LEMMA EffectsInit == Init => Effects
BY DEF Init, Effects, ListIsPromised, DependentsAreKnown, DepsExist, MainClosesNoCycle,
       NoFiles

LEMMA EffectsStep == IInv /\ Effects /\ [Next]_vars => Effects'
<1> SUFFICES ASSUME IInv, Effects, [Next]_vars PROVE Effects'
  OBVIOUS
<1> USE DEF Effects
<1>1. DepsExist'
  BY DepsStay
<1>2. CASE Start
  BY <1>1, <1>2, StartPromises, StartKnowsDependents, StartClosesNoCycle
<1>3. CASE WriteMain
  <2>1. MainClosesNoCycle'
    BY <1>3 DEF WriteMain, MainClosesNoCycle
  <2> QED
    BY <1>1, <1>3, <2>1, WriteMainPromised, WriteMainKnows
<1>4. CASE RemoveOld
  <2>1. MainClosesNoCycle'
    BY <1>4 DEF RemoveOld, MainClosesNoCycle
  <2> QED
    BY <1>1, <1>4, <2>1, RemoveOldPromised, RemoveOldKnows
<1>5. CASE WriteOther
  <2>1. MainClosesNoCycle'
    BY <1>5 DEF WriteOther, MainClosesNoCycle
  <2> QED
    BY <1>1, <1>5, <2>1, WriteOtherPromised, WriteOtherKnows
<1>6. CASE WriteIndex
  <2>1. UNCHANGED <<file, cmd, main, others>> /\ main = {}
    BY <1>6 DEF WriteIndex
  <2>2. MainClosesNoCycle'
    BY <2>1 DEF MainClosesNoCycle
  <2>3. DependentsAreKnown'
    BY <2>1 DEF DependentsAreKnown, AwaitsInVain, HasCompleted, Copies
  <2> QED
    BY <1>1, <1>6, <2>2, <2>3, WriteIndexPromised
<1>7. CASE End \/ Stop \/ Hand
  <2>1. cmd' = None
    BY <1>7 DEF End, Stop, NoPlan, Hand, HandMove, HandResolve, plan
  <2> QED
    BY <1>1, <2>1 DEF ListIsPromised, DependentsAreKnown, MainClosesNoCycle
<1>8. CASE UNCHANGED vars
  <2>1. ListIsPromised' /\ DependentsAreKnown'
    BY <1>8 DEF vars, plan, ListIsPromised, Listing, DependentsAreKnown, AwaitsInVain,
                HasCompleted, Copies
  <2>2. MainClosesNoCycle'
    BY <1>8 DEF vars, plan, MainClosesNoCycle, Duplicated, Copies, ActiveCycle
  <2> QED
    BY <1>1, <2>1, <2>2
<1> QED
  BY <1>2, <1>3, <1>4, <1>5, <1>6, <1>7, <1>8 DEF Next, Carry

\* What a command is under way to is what it does, wherever it stops.
THEOREM EffectsHold == Spec => [](IInv /\ Effects)
<1>1. Init => IInv /\ Effects
  BY InitIsSound, EffectsInit
<1>2. IInv /\ Effects /\ [Next]_vars => (IInv /\ Effects)'
  BY Inductive, EffectsStep
<1> QED
  BY <1>1, <1>2, PTL DEF Spec

\* writeIndexesForTasks (indexes.go): when a command ends, each index says what
\* its bucket holds, though it was rendered before the files were read again.
THEOREM IndexesAreTrue == Spec => []IndexesFollowFiles
<1>1. IInv /\ Effects => IndexesFollowFiles
  <2> SUFFICES ASSUME IInv, Effects, cmd # None, Done
               PROVE  index = Listing(file)
    BY DEF IndexesFollowFiles
  <2>1. \A b \in Bucket, t \in Task : index[b][t] = Listing(file)[b][t]
    BY DEF Effects, ListIsPromised, Done
  <2>2. index \in Index /\ Listing(file) \in Index
    BY FilesListed DEF IInv, TypeOK
  <2>3. \A b \in Bucket : index[b] = Listing(file)[b]
    BY <2>1, <2>2 DEF Index
  <2> QED
    BY <2>2, <2>3 DEF Index
<1> QED
  BY <1>1, EffectsHold, PTL

\* taskUnblockDependents (task_status.go): a complete that ran to its end has
\* unblocked every dependent it satisfied, and none that waits for another task.
THEOREM CompletionUnblocks == Spec => []UnblocksWhatItSatisfied
<1>1. IInv /\ Effects => UnblocksWhatItSatisfied
  <2> SUFFICES ASSUME IInv, Effects, cmd # None, cmd.verb = "complete", main = {}, old = {}
               PROVE  /\ others = {} => \A u \in Task : AwaitsInVain(u) =>
                           \E d \in file["active"][u].deps : ~HasCompleted(d)
                      /\ \A w \in others : \A d \in w.rec.deps : HasCompleted(d)
    BY DEF UnblocksWhatItSatisfied, AwaitsInVain
  <2>1. HasCompleted(cmd.task)
    <3>1. /\ file["completed"][cmd.task] # None
          /\ file["completed"][cmd.task].status = "Completed"
      BY CompleteIsComplete DEF IInv, VerbIsUnderWay
    <3> QED
      BY <3>1 DEF HasCompleted, Copies, Bucket
  <2>2. ASSUME NEW w \in others, NEW d \in w.rec.deps
        PROVE  HasCompleted(d)
    BY <2>1 DEF Effects, DependentsAreKnown
  <2>3. ASSUME others = {}, NEW u \in Task, AwaitsInVain(u)
        PROVE  \E d \in file["active"][u].deps : ~HasCompleted(d)
    BY <2>3 DEF Effects, DependentsAreKnown
  <2> QED
    BY <2>2, <2>3
<1> QED
  BY <1>1, EffectsHold, PTL

\* taskDependencyCycles (task_deps.go) is asked by dep add and create, and that is
\* enough: while no other task is duplicated, only a reopen closes a cycle.
LEMMA NoStepButReopenClosesACycle ==
  ASSUME IInv, Effects, [Next]_vars, file' # file, ~ActiveCycle, ActiveCycle',
         \A t \in Task : Duplicated(t) => cmd # None /\ t = cmd.task
  PROVE  cmd # None /\ cmd.verb = "reopen"
<1>1. CycleIn(file')
  BY DEF ActiveCycle
<1>2. ~ \A b \in Bucket, t \in Task :
          file'[b][t] = None \/ \E c \in Bucket : file'[b][t] = file[c][t]
  <2> SUFFICES ASSUME \A b \in Bucket, t \in Task :
                        file'[b][t] = None \/ \E c \in Bucket : file'[b][t] = file[c][t]
               PROVE  FALSE
    OBVIOUS
  <2>1. \A b \in Bucket, t \in Task : file'[b][t] # None /\ file'[b][t].status \notin Terminal =>
          \E c \in Bucket : /\ file[c][t] # None
                            /\ file[c][t].status \notin Terminal
                            /\ file'[b][t].deps \subseteq file[c][t].deps
    OBVIOUS
  <2> QED
    BY <1>1, <2>1, LessClosesNoCycle DEF ActiveCycle
<1>3. CASE WriteMain
  <2>1. PICK w \in main : file' = [file EXCEPT ![w.bucket][w.task] = w.rec]
    BY <1>3 DEF WriteMain
  <2>2. cmd # None /\ \A t \in Task : Duplicated(t) => t = cmd.task
    BY <2>1 DEF IInv, TypeOK
  <2> QED
    BY <1>1, <2>1, <2>2 DEF Effects, MainClosesNoCycle
<1>4. CASE WriteOther
  <2>1. PICK w \in others : file' = [file EXCEPT ![w.bucket][w.task] = w.rec]
    BY <1>4 DEF WriteOther
  <2>2. w \in Write /\ cmd # None
    BY <2>1 DEF IInv, TypeOK
  <2>3. /\ file["active"][w.task] # None
        /\ file["active"][w.task].status \notin Terminal
        /\ w.rec.deps \subseteq file["active"][w.task].deps
    BY <2>1, <2>2 DEF Effects, DependentsAreKnown, AwaitsInVain, Terminal
  <2> QED
    BY <1>1, <2>1, <2>2, <2>3, RewriteClosesNoCycle DEF Bucket
<1>5. CASE RemoveOld
  <2>1. PICK b \in old : file' = [file EXCEPT ![b][cmd.task] = None]
    BY <1>5 DEF RemoveOld
  <2>2. b \in Bucket /\ cmd.task \in Task
    BY <2>1 DEF IInv, TypeOK, Command
  <2> QED
    BY <1>2, <2>1, <2>2, RemoveTyped DEF IInv
<1>6. CASE Hand
  <2>1. PICK t \in Task, b \in Bucket :
          HandResolve(t, b) \/ \E a \in Bucket : HandMove(t, a, b)
    BY <1>6 DEF Hand
  <2>2. CASE HandResolve(t, b)
    <3>1. \A a \in Bucket, u \in Task : file'[a][u] \in {file[a][u], None}
      BY <2>2, RemoveTyped DEF HandResolve, IInv
    <3> QED
      BY <1>2, <3>1
  <2>3. ASSUME NEW a \in Bucket, HandMove(t, a, b)
        PROVE  FALSE
    <3>1. file' = [file EXCEPT ![a][t] = None, ![b][t] = file[a][t]]
      BY <2>3 DEF HandMove
    <3>2. \A e \in Bucket, u \in Task :
            \/ file'[e][u] = None
            \/ \E c \in Bucket : file'[e][u] = file[c][u]
      BY <3>1 DEF IInv, TypeOK
    <3> QED
      BY <1>2, <3>2
  <2> QED
    BY <2>1, <2>2, <2>3
<1>7. CASE Start \/ WriteIndex \/ End \/ Stop \/ UNCHANGED vars
  <2>1. Start => file' = file
    BY StartIsSound DEF Begin
  <2> QED
    BY <1>7, <2>1 DEF WriteIndex, End, Stop, vars
<1> QED
  BY <1>3, <1>4, <1>5, <1>6, <1>7 DEF Next, Carry

\* taskDependencyCycles (task_deps.go), asked by dep add and create alone, is enough:
\* no interleaving of stops, hands and commands closes a cycle of active tasks but a
\* reopen, while no other task is duplicated.
THEOREM CyclesComeFromReopen == Spec => OnlyReopenClosesACycle
<1>1. IInv /\ Effects /\ [Next]_vars =>
        [/\ ~ActiveCycle
         /\ ActiveCycle'
         /\ \A t \in Task : Duplicated(t) => cmd # None /\ t = cmd.task
         => cmd # None /\ cmd.verb = "reopen"]_file
  BY NoStepButReopenClosesACycle
<1> QED
  BY <1>1, EffectsHold, PTL DEF Spec, OnlyReopenClosesACycle

------------------------------------------------------------------------------
(* The readers that take no lock (TaskScan) *)

LEMMA NoScanIsNothing == None \notin Scan /\ None \notin Regen
BY ReaderAssumption

LEMMA NextBucketIsUnlisted ==
  ASSUME NEW bs \in SUBSET Bucket, bs # {}
  PROVE  NextBucket(bs) \in bs
BY DEF NextBucket, Bucket

LEMMA ListFoundTyped ==
  ASSUME NEW F \in SUBSET Write
  PROVE  ListFound(F) \in Index
<1>1. ASSUME NEW b \in Bucket, NEW t \in Task, \E w \in F : w.bucket = b /\ w.task = t
      PROVE  (CHOOSE w \in F : w.bucket = b /\ w.task = t).rec.status \in Status
  <2> DEFINE v == CHOOSE w \in F : w.bucket = b /\ w.task = t
  <2>1. v \in F
    BY <1>1
  <2> HIDE DEF v
  <2>2. v.rec.status \in Status
    BY <2>1 DEF Write, Record
  <2> QED
    BY <2>2 DEF v
<1> QED
  BY <1>1 DEF ListFound, Index

LEMMA ReaderInitIsSound == ScanInit => ReaderInv
BY InitIsSound, NoScanIsNothing DEF ScanInit, ReaderInv, ReaderTyped, ScanStands

\* The history follows what the commands do to files.
LEMMA OthersKeepReader ==
  ASSUME ReaderInv, Others
  PROVE  ReaderInv'
<1>1. IInv /\ IInv' /\ ReaderTyped /\ ScanStands /\ scan' = scan /\ regen' = regen
  BY Inductive DEF ReaderInv, Others
<1>2. /\ moved' = IF scan = None THEN {} ELSE moved \cup
             {t \in Task : \E b \in Bucket : (file[b][t] = None) # (file'[b][t] = None)}
      /\ rewritten' = IF scan = None THEN {} ELSE rewritten \cup
             {t \in Task : \E b \in Bucket : file[b][t] # file'[b][t]}
  BY DEF Others
<1>3. ReaderTyped'
  BY <1>1, <1>2 DEF ReaderTyped
<1>4. moved' \subseteq rewritten'
  BY <1>1, <1>2 DEF ScanStands
<1>5. CASE scan = None
  BY <1>1, <1>3, <1>4, <1>5 DEF ReaderInv, ScanStands
<1>6. CASE scan # None
  <2>1. \A t \in Task \ moved', b \in Bucket :
          t \in Task \ moved /\ (file'[b][t] # None <=> file[b][t] # None)
    BY <1>2, <1>6
  <2>2. \A t \in Task, b \in Bucket :
          t \notin rewritten' => t \notin rewritten /\ file'[b][t] = file[b][t]
    BY <1>2, <1>6
  <2>3. \A w \in scan.found : w.bucket \in Bucket /\ w.task \in Task
    BY <1>1, <1>6 DEF ReaderTyped, Scan, Write
  <2>4. \A p \in scan'.unread : p[1] \notin scan'.unlisted
    BY <1>1, <1>6 DEF ScanStands
  <2>5. \A w \in scan'.found :
          /\ w.bucket \notin scan'.unlisted
          /\ w.task \notin rewritten' => w.rec = file'[w.bucket][w.task]
    BY <1>1, <1>6, <2>2, <2>3 DEF ScanStands
  <2>6. \A b \in Bucket \ scan'.unlisted, t \in Task \ moved' :
          file'[b][t] # None <=> \/ <<b, t>> \in scan'.unread
                                 \/ \E w \in scan'.found : w.bucket = b /\ w.task = t
    <3> SUFFICES ASSUME NEW b \in Bucket \ scan'.unlisted, NEW t \in Task \ moved'
                 PROVE  file'[b][t] # None <=> \/ <<b, t>> \in scan'.unread
                                               \/ \E w \in scan'.found : w.bucket = b /\ w.task = t
      OBVIOUS
    <3>1. t \in Task \ moved /\ (file'[b][t] # None <=> file[b][t] # None)
      BY <2>1
    <3>2. file[b][t] # None <=> \/ <<b, t>> \in scan.unread
                                \/ \E w \in scan.found : w.bucket = b /\ w.task = t
      BY <1>1, <1>6, <3>1 DEF ScanStands
    <3> QED
      BY <1>1, <3>1, <3>2
  <2> QED
    BY <1>1, <1>3, <1>4, <2>4, <2>5, <2>6 DEF ReaderInv, ScanStands
<1> QED
  BY <1>5, <1>6

\* What a scan does leaves records, commands and history as they are.
LEMMA ScanningKeeps ==
  ASSUME ReaderInv, ScanBegin \/ ListBucket \/ ReadFile
  PROVE  ReaderInv'
<1>1. IInv /\ TypeOK /\ ReaderTyped /\ ScanStands
  BY DEF ReaderInv, IInv
<1>2. UNCHANGED <<vars, regen, moved, rewritten>>
  BY DEF ScanBegin, ListBucket, ReadFile
<1>3. IInv'
  BY <1>1, <1>2, Inductive
<1>4. ASSUME scan' \in Scan,
             \A p \in scan'.unread : p[1] \notin scan'.unlisted,
             \A w \in scan'.found :
               /\ w.bucket \notin scan'.unlisted
               /\ w.task \notin rewritten => w.rec = file[w.bucket][w.task],
             \A b \in Bucket \ scan'.unlisted, t \in Task \ moved :
               file[b][t] # None <=> \/ <<b, t>> \in scan'.unread
                                     \/ \E w \in scan'.found : w.bucket = b /\ w.task = t
      PROVE  ReaderInv'
  <2>1. ReaderTyped'
    BY <1>1, <1>2, <1>4 DEF ReaderTyped
  <2>2. file' = file /\ moved' = moved /\ rewritten' = rewritten
    BY <1>2 DEF vars
  <2>3. ScanStands'
    BY <1>1, <1>4, <2>2 DEF ScanStands
  <2> QED
    BY <1>3, <2>1, <2>3 DEF ReaderInv
<1>5. CASE ScanBegin
  <2>1. scan' = [unlisted |-> Bucket, unread |-> {}, found |-> {}, gone |-> FALSE]
    BY <1>5 DEF ScanBegin
  <2>2. scan' \in Scan /\ scan'.unlisted = Bucket /\ scan'.unread = {} /\ scan'.found = {}
    BY <2>1 DEF Scan
  <2> QED
    BY <1>4, <2>2
<1>6. CASE ListBucket
  <2> DEFINE b == NextBucket(scan.unlisted)
             there == {<<b, t>> : t \in {u \in Task : file[b][u] # None}}
  <2>1. /\ scan \in Scan /\ scan.unlisted # {}
        /\ scan' = [scan EXCEPT !.unlisted = @ \ {b}, !.unread = @ \cup there]
    BY <1>1, <1>6 DEF ListBucket, ReaderTyped
  <2>2. scan.unlisted \in SUBSET Bucket /\ b \in Bucket /\ b \in scan.unlisted
    BY <2>1, NextBucketIsUnlisted DEF Scan
  <2>3. there \in SUBSET (Bucket \X Task)
    BY <2>2
  <2>4. /\ \A p \in there : p[1] = b
        /\ \A a \in Bucket, t \in Task : <<a, t>> \in there <=> a = b /\ file[b][t] # None
    BY <2>2
  <2> HIDE DEF b, there
  <2>5. /\ scan' \in Scan /\ scan'.unlisted = scan.unlisted \ {b}
        /\ scan'.unread = scan.unread \cup there /\ scan'.found = scan.found
    BY <2>1, <2>3 DEF Scan
  <2>6. /\ \A p \in scan.unread : p[1] \notin scan.unlisted
        /\ \A w \in scan.found :
             /\ w.bucket \notin scan.unlisted
             /\ w.task \notin rewritten => w.rec = file[w.bucket][w.task]
        /\ \A a \in Bucket \ scan.unlisted, t \in Task \ moved :
             file[a][t] # None <=> \/ <<a, t>> \in scan.unread
                                   \/ \E w \in scan.found : w.bucket = a /\ w.task = t
    BY <1>1, <2>1, NoScanIsNothing DEF ScanStands
  <2>7. \A a \in Bucket \ scan'.unlisted, t \in Task \ moved :
          file[a][t] # None <=> \/ <<a, t>> \in scan'.unread
                                \/ \E w \in scan'.found : w.bucket = a /\ w.task = t
    <3> SUFFICES ASSUME NEW a \in Bucket \ scan'.unlisted, NEW t \in Task \ moved
                 PROVE  file[a][t] # None <=> \/ <<a, t>> \in scan'.unread
                                              \/ \E w \in scan'.found : w.bucket = a /\ w.task = t
      OBVIOUS
    <3>1. CASE a = b
      <4>1. <<a, t>> \notin scan.unread /\ ~ \E w \in scan.found : w.bucket = a
        BY <2>2, <2>6, <3>1
      <4> QED
        BY <2>4, <2>5, <3>1, <4>1
    <3>2. CASE a # b
      BY <2>4, <2>5, <2>6, <3>2
    <3> QED
      BY <3>1, <3>2
  <2> QED
    BY <1>4, <2>4, <2>5, <2>6, <2>7
<1>7. CASE ReadFile
  <2>1. PICK t \in Task, b \in Bucket :
          /\ <<b, t>> \in scan.unread
          /\ scan' = IF file[b][t] = None
                     THEN [scan EXCEPT !.unread = @ \ {<<b, t>>}, !.gone = TRUE]
                     ELSE [scan EXCEPT !.unread = @ \ {<<b, t>>},
                             !.found = @ \cup {[bucket |-> b, task |-> t, rec |-> file[b][t]]}]
    BY <1>7, FirstTyped DEF ReadFile
  <2>2. scan \in Scan /\ scan.unlisted = {} /\ scan # None
    BY <1>1, <1>7 DEF ReadFile, ReaderTyped
  <2>3. /\ \A w \in scan.found : w.task \notin rewritten => w.rec = file[w.bucket][w.task]
        /\ \A a \in Bucket, u \in Task \ moved :
             file[a][u] # None <=> \/ <<a, u>> \in scan.unread
                                   \/ \E w \in scan.found : w.bucket = a /\ w.task = u
    BY <1>1, <2>2 DEF ScanStands
  <2>4. CASE file[b][t] = None
    <3>1. /\ scan' \in Scan /\ scan'.unlisted = {}
          /\ scan'.unread = scan.unread \ {<<b, t>>} /\ scan'.found = scan.found
      BY <2>1, <2>2, <2>4 DEF Scan
    <3>2. t \in moved
      BY <2>1, <2>3, <2>4
    <3>3. \A a \in Bucket, u \in Task \ moved :
            <<a, u>> \in scan'.unread <=> <<a, u>> \in scan.unread
      BY <3>1, <3>2
    <3> QED
      BY <1>4, <2>3, <3>1, <3>3
  <2>5. CASE file[b][t] # None
    <3> DEFINE v == [bucket |-> b, task |-> t, rec |-> file[b][t]]
    <3>1. v \in Write /\ v.bucket = b /\ v.task = t /\ v.rec = file[b][t]
      BY <1>1, <2>5 DEF Write, TypeOK
    <3>2. scan' = [scan EXCEPT !.unread = @ \ {<<b, t>>}, !.found = @ \cup {v}]
      BY <2>1, <2>5
    <3> HIDE DEF v
    <3>3. /\ scan' \in Scan /\ scan'.unlisted = {}
          /\ scan'.unread = scan.unread \ {<<b, t>>} /\ scan'.found = scan.found \cup {v}
      BY <2>2, <3>1, <3>2 DEF Scan
    <3>4. \A w \in scan'.found : w.task \notin rewritten => w.rec = file[w.bucket][w.task]
      BY <2>3, <3>1, <3>3
    <3>5. ASSUME NEW a \in Bucket, NEW u \in Task \ moved
          PROVE  file[a][u] # None <=> \/ <<a, u>> \in scan'.unread
                                       \/ \E w \in scan'.found : w.bucket = a /\ w.task = u
      <4>1. CASE a = b /\ u = t
        BY <2>5, <3>1, <3>3, <4>1
      <4>2. CASE ~(a = b /\ u = t)
        <5>1. <<a, u>> \in scan'.unread <=> <<a, u>> \in scan.unread
          BY <3>3, <4>2
        <5>2. (\E w \in scan'.found : w.bucket = a /\ w.task = u)
                <=> (\E w \in scan.found : w.bucket = a /\ w.task = u)
          BY <3>1, <3>3, <4>2
        <5> QED
          BY <2>3, <5>1, <5>2
      <4> QED
        BY <4>1, <4>2
    <3> QED
      BY <1>4, <3>3, <3>4, <3>5
  <2> QED
    BY <2>4, <2>5
<1> QED
  BY <1>5, <1>6, <1>7

\* The end of a scan, and the regeneration that follows it.
LEMMA RegenerationKeeps ==
  ASSUME ReaderInv, Report \/ RegenBegin \/ RegenWrite \/ RegenStop
  PROVE  ReaderInv'
<1>1. IInv /\ TypeOK /\ ReaderTyped /\ ScanStands
  BY DEF ReaderInv, IInv
<1>2. CASE Report \/ RegenBegin
  <2>1. UNCHANGED vars /\ scan' = None /\ moved' = {} /\ rewritten' = {}
    BY <1>2 DEF Report, RegenBegin, NoScan
  <2>2. regen' \in Regen \cup {None}
    <3>1. CASE Report
      BY <1>1, <3>1 DEF Report, ReaderTyped
    <3>2. CASE RegenBegin
      <4>1. /\ scan.found \in SUBSET Write
            /\ regen' = [left |-> Bucket, list |-> ListFound(scan.found)]
        BY <1>1, <3>2 DEF RegenBegin, Scanned, ReaderTyped, Scan
      <4>2. ListFound(scan.found) \in Index
        BY <4>1, ListFoundTyped
      <4> QED
        BY <4>1, <4>2 DEF Regen
    <3> QED
      BY <1>2, <3>1, <3>2
  <2>3. ReaderTyped' /\ ScanStands'
    BY <2>1, <2>2 DEF ReaderTyped, ScanStands
  <2>4. IInv'
    BY <1>1, <2>1, Inductive
  <2> QED
    BY <2>3, <2>4 DEF ReaderInv
<1>3. CASE RegenWrite
  <2>1. PICK b \in Bucket :
          /\ index' = [index EXCEPT ![b] = regen.list[b]]
          /\ regen' = IF regen.left = {b} THEN None ELSE [regen EXCEPT !.left = @ \ {b}]
    BY <1>3, FirstTyped DEF RegenWrite
  <2>2. regen \in Regen /\ UNCHANGED <<file, plan, mishaps, scan, moved, rewritten>>
    BY <1>1, <1>3 DEF RegenWrite, ReaderTyped
  <2>3. index' \in Index
    BY <1>1, <2>1, <2>2 DEF Regen, Index, TypeOK
  <2>4. regen' \in Regen \cup {None}
    BY <2>1, <2>2 DEF Regen
  <2>5. ReaderTyped' /\ ScanStands'
    BY <1>1, <2>2, <2>4 DEF ReaderTyped, ScanStands
  <2>6. IInv'
    <3>1. TypeOK'
      BY <1>1, <2>2, <2>3 DEF TypeOK, plan
    <3> QED
      BY <1>1, <2>2, <3>1
         DEF IInv, PlanIsSafe, VerbIsUnderWay, NoTaskAwaitsItself, Copies, plan
  <2> QED
    BY <2>5, <2>6 DEF ReaderInv
<1>4. CASE RegenStop
  <2>1. /\ mishaps' = mishaps + 1 /\ mishaps < MaxMishaps /\ regen' = None
        /\ UNCHANGED <<file, index, plan, scan, moved, rewritten>>
    BY <1>4 DEF RegenStop
  <2>2. ReaderTyped' /\ ScanStands'
    BY <1>1, <2>1 DEF ReaderTyped, ScanStands
  <2>3. mishaps' \in 0 .. MaxMishaps
    BY <1>1, <2>1, AnotherMishap
  <2>4. IInv'
    <3>1. TypeOK'
      BY <1>1, <2>1, <2>3 DEF TypeOK, plan
    <3> QED
      BY <1>1, <2>1, <3>1
         DEF IInv, PlanIsSafe, VerbIsUnderWay, NoTaskAwaitsItself, Copies, plan
  <2> QED
    BY <2>2, <2>4 DEF ReaderInv
<1> QED
  BY <1>2, <1>3, <1>4

LEMMA ReaderStep == ReaderInv /\ [ScanNext]_scanVars => ReaderInv'
<1> SUFFICES ASSUME ReaderInv, [ScanNext]_scanVars PROVE ReaderInv'
  OBVIOUS
<1>1. CASE UNCHANGED scanVars
  <2>1. IInv'
    BY <1>1, Inductive DEF ReaderInv, scanVars
  <2>2. ReaderTyped' /\ ScanStands'
    BY <1>1 DEF ReaderInv, ReaderTyped, ScanStands, scanVars, reader, vars
  <2> QED
    BY <2>1, <2>2 DEF ReaderInv
<1> QED
  BY <1>1, OthersKeepReader, ScanningKeeps, RegenerationKeeps DEF ScanNext, Reader

LEMMA FilesAreWrites ==
  ASSUME TypeOK
  PROVE  /\ Files \in SUBSET Write
         /\ \A w \in Write : w \in Files <=> file[w.bucket][w.task] = w.rec
<1>1. \A b \in Bucket, t \in Task : file[b][t] # None => file[b][t] \in Record
  BY DEF TypeOK
<1>2. Files \in SUBSET Write
  BY <1>1 DEF Files, Write
<1>3. ASSUME NEW w \in Write
      PROVE  w \in Files <=> file[w.bucket][w.task] = w.rec
  <2>1. /\ w = [bucket |-> w.bucket, task |-> w.task, rec |-> w.rec]
        /\ w.bucket \in Bucket /\ w.task \in Task /\ w.rec # None
    BY NoneIsNothing DEF Write
  <2>2. w \in Files => \E b \in Bucket, t \in Task :
                          w = [bucket |-> b, task |-> t, rec |-> file[b][t]]
    BY DEF Files
  <2>3. file[w.bucket][w.task] = w.rec => w \in Files
    BY <2>1 DEF Files
  <2> QED
    BY <2>2, <2>3
<1> QED
  BY <1>2, <1>3

\* A finding depends on the tasks that it is about, and on no others.
LEMMA FindingsAgree ==
  ASSUME NEW F \in SUBSET Write, NEW G \in SUBSET Write, NEW f \in Findings(F),
         \A w \in Write : w.task \in f.about => (w \in F <=> w \in G)
  PROVE  f \in Findings(G)
<1>1. \A t \in f.about : /\ t \in IDs(F) <=> t \in IDs(G)
                         /\ t \in Completed(F) <=> t \in Completed(G)
  BY DEF IDs, Completed
<1>2. \A w \in F : w.task \in f.about => w \in G
  OBVIOUS
<1>3. CASE f \in DuplicateIDs(F)
  <2>1. PICK u \in Task : /\ f = Finding("task_duplicate_id", u, {u})
                          /\ \E v, w \in F : v # w /\ v.task = u /\ w.task = u
    BY <1>3 DEF DuplicateIDs
  <2>2. u \in f.about
    BY <2>1 DEF Finding
  <2>3. \E v, w \in G : v # w /\ v.task = u /\ w.task = u
    BY <1>2, <2>1, <2>2
  <2>4. f \in DuplicateIDs(G)
    BY <2>1, <2>3 DEF DuplicateIDs
  <2> QED
    BY <2>4 DEF Findings
<1>4. CASE f \in MissingDeps(F)
  <2>1. PICK w \in F : \E e \in w.rec.deps \ IDs(F) :
          f = Finding("task_dependency_missing", w.task, {w.task, e})
    BY <1>4 DEF MissingDeps
  <2> PICK d \in w.rec.deps \ IDs(F) :
        f = Finding("task_dependency_missing", w.task, {w.task, d})
    BY <2>1
  <2>2. w.task \in f.about /\ d \in f.about
    BY <2>1 DEF Finding
  <2>3. w \in G /\ d \in w.rec.deps \ IDs(G)
    BY <1>1, <1>2, <2>1, <2>2
  <2> DEFINE Of(v) == {Finding("task_dependency_missing", v.task, {v.task, e}) :
                          e \in v.rec.deps \ IDs(G)}
  <2>4. f \in Of(w)
    BY <2>3
  <2>5. MissingDeps(G) = UNION {Of(v) : v \in G}
    BY DEF MissingDeps
  <2> HIDE DEF Of
  <2>6. f \in MissingDeps(G)
    BY <2>3, <2>4, <2>5
  <2> QED
    BY <2>6 DEF Findings
<1>5. CASE f \in CancelledDeps(F)
  <2>1. PICK w \in F, v \in F :
          /\ Unfinished(w) /\ v.rec.status = "Cancelled" /\ v.task \in w.rec.deps
          /\ f = Finding("task_dependency_cancelled", w.task, {w.task, v.task})
    BY <1>5 DEF CancelledDeps
  <2>2. w.task \in f.about /\ v.task \in f.about
    BY <2>1 DEF Finding
  <2>3. w \in G /\ v \in G
    BY <1>2, <2>1, <2>2
  <2>4. f \in {Finding("task_dependency_cancelled", w.task, {w.task, u.task}) :
                u \in {y \in G : y.rec.status = "Cancelled" /\ y.task \in w.rec.deps}}
    BY <2>1, <2>3
  <2>5. w \in {y \in G : Unfinished(y)}
    BY <2>1, <2>3
  <2>6. f \in CancelledDeps(G)
    BY <2>4, <2>5 DEF CancelledDeps
  <2> QED
    BY <2>6 DEF Findings
<1>6. CASE f \in BlockedDepsComplete(F)
  <2>1. PICK w \in F :
          /\ w.rec.status = "Blocked" /\ w.bucket = "active" /\ w.rec.deps # {}
          /\ w.rec.deps \subseteq Completed(F)
          /\ f = Finding("task_blocked_deps_complete", w.task, {w.task} \cup w.rec.deps)
    BY <1>6 DEF BlockedDepsComplete
  <2>2. w.task \in f.about /\ w.rec.deps \subseteq f.about
    BY <2>1 DEF Finding
  <2>3. w \in G /\ w.rec.deps \subseteq Completed(G)
    BY <1>1, <1>2, <2>1, <2>2
  <2>4. f \in BlockedDepsComplete(G)
    BY <2>1, <2>3 DEF BlockedDepsComplete
  <2> QED
    BY <2>4 DEF Findings
<1>7. CASE f \in BlockedReason(F)
  <2>1. PICK w \in F : /\ w.rec.status = "Blocked" /\ ~w.rec.reason
                       /\ f = Finding("task_blocked_missing_reason", w.task, {w.task})
    BY <1>7 DEF BlockedReason
  <2>2. w \in G
    BY <1>2, <2>1 DEF Finding
  <2>3. f \in BlockedReason(G)
    BY <2>1, <2>2 DEF BlockedReason
  <2> QED
    BY <2>3 DEF Findings
<1>8. CASE f \in BucketMismatch(F)
  <2>1. PICK w \in F : /\ w.bucket # BucketForStatus(w.rec.status)
                       /\ f = Finding("task_bucket_mismatch", w.task, {w.task})
    BY <1>8 DEF BucketMismatch
  <2>2. w \in G
    BY <1>2, <2>1 DEF Finding
  <2>3. f \in BucketMismatch(G)
    BY <2>1, <2>2 DEF BucketMismatch
  <2> QED
    BY <2>3 DEF Findings
<1>9. CASE f \in ReadyQueue(F)
  <2>1. PICK w \in F : /\ w.rec.status = "Pending" /\ w.rec.deps \subseteq Completed(F)
                       /\ f = Finding("ready", w.task, {w.task} \cup w.rec.deps)
    BY <1>9 DEF ReadyQueue
  <2>2. w.task \in f.about /\ w.rec.deps \subseteq f.about
    BY <2>1 DEF Finding
  <2>3. w \in G /\ w.rec.deps \subseteq Completed(G)
    BY <1>1, <1>2, <2>1, <2>2
  <2>4. f \in ReadyQueue(G)
    BY <2>1, <2>3 DEF ReadyQueue
  <2> QED
    BY <2>4 DEF Findings, Queues
<1>10. CASE f \in BlockedQueue(F)
  <2>1. PICK w \in F : /\ \/ w.rec.status = "Blocked"
                          \/ w.rec.status = "Pending" /\ ~(w.rec.deps \subseteq Completed(F))
                       /\ f = Finding("blocked", w.task, {w.task} \cup w.rec.deps)
    BY <1>10 DEF BlockedQueue
  <2>2. w.task \in f.about /\ w.rec.deps \subseteq f.about
    BY <2>1 DEF Finding
  <2>3. w \in G /\ (w.rec.deps \subseteq Completed(F) <=> w.rec.deps \subseteq Completed(G))
    BY <1>1, <1>2, <2>1, <2>2
  <2>4. f \in BlockedQueue(G)
    BY <2>1, <2>3 DEF BlockedQueue
  <2> QED
    BY <2>4 DEF Findings, Queues
<1> QED
  BY <1>3, <1>4, <1>5, <1>6, <1>7, <1>8, <1>9, <1>10 DEF Findings, Queues

\* What a scan that is complete has found of the tasks left alone is what is there.
LEMMA FoundIsThere ==
  ASSUME ReaderInv, Scanned
  PROVE  /\ scan.found \in SUBSET Write
         /\ \A t \in Task \ moved, b \in Bucket :
              file[b][t] # None <=> \E w \in scan.found : w.bucket = b /\ w.task = t
         /\ \A w \in Write : w.task \notin rewritten => (w \in scan.found <=> w \in Files)
<1>1. TypeOK /\ ReaderTyped /\ ScanStands
  BY DEF ReaderInv, IInv
<1>2. /\ scan \in Scan /\ scan # None /\ scan.unlisted = {} /\ scan.unread = {}
      /\ scan.found \in SUBSET Write
  BY <1>1 DEF Scanned, ReaderTyped, Scan
<1>3. /\ moved \subseteq rewritten
      /\ \A w \in scan.found : w.task \notin rewritten => w.rec = file[w.bucket][w.task]
      /\ \A t \in Task \ moved, b \in Bucket :
           file[b][t] # None <=> \E w \in scan.found : w.bucket = b /\ w.task = t
  BY <1>1, <1>2 DEF ScanStands
<1>4. ASSUME NEW w \in Write, w.task \notin rewritten
      PROVE  w \in scan.found <=> w \in Files
  <2>1. /\ w.bucket \in Bucket /\ w.task \in Task \ moved /\ w.rec # None
        /\ w \in Files <=> file[w.bucket][w.task] = w.rec
    BY <1>1, <1>3, <1>4, FilesAreWrites, NoneIsNothing DEF Write
  <2>2. w \in scan.found => w \in Files
    BY <1>3, <1>4, <2>1
  <2>3. ASSUME w \in Files PROVE w \in scan.found
    <3>1. PICK v \in scan.found : v.bucket = w.bucket /\ v.task = w.task
      BY <1>3, <2>1, <2>3
    <3>2. v \in Write /\ v.rec = w.rec
      BY <1>2, <1>3, <1>4, <2>1, <2>3, <3>1
    <3>3. v = w
      BY <3>1, <3>2 DEF Write
    <3> QED
      BY <3>1, <3>3
  <2> QED
    BY <2>2, <2>3
<1> QED
  BY <1>2, <1>3, <1>4

\* validateWorkflow and the queues of prime, from a scan beside running commands:
\* a task that was not moved is found where it is, a report is right about all it
\* says, or does not say, of tasks that nobody changed, and the circles among them
\* are in the graph that taskDependencyCycles searches.
THEOREM ScansAreTrue == ScanSpec => []ScanIsTrue
<1>1. ReaderInv => ScanIsTrue
  <2> SUFFICES ASSUME ReaderInv, Scanned
               PROVE  /\ \A t \in Task \ moved :
                           {w.bucket : w \in {v \in scan.found : v.task = t}} = Copies(t)
                      /\ \A f \in Findings(scan.found) \cup Findings(Files) :
                           f.about \cap rewritten = {} =>
                             (f \in Findings(scan.found) <=> f \in Findings(Files))
                      /\ \A S \in SUBSET (Task \ rewritten) :
                           Waiting(scan.found, S) <=> Waiting(Files, S)
    BY DEF ScanIsTrue
  <2>1. /\ scan.found \in SUBSET Write /\ Files \in SUBSET Write
        /\ \A t \in Task \ moved, b \in Bucket :
             file[b][t] # None <=> \E w \in scan.found : w.bucket = b /\ w.task = t
        /\ \A w \in Write : w.task \notin rewritten => (w \in scan.found <=> w \in Files)
    BY FoundIsThere, FilesAreWrites DEF ReaderInv, IInv
  <2>2. ASSUME NEW t \in Task \ moved
        PROVE  {w.bucket : w \in {v \in scan.found : v.task = t}} = Copies(t)
    <3>1. \A w \in scan.found : w.bucket \in Bucket
      BY <2>1 DEF Write
    <3> QED
      BY <2>1, <2>2, <3>1 DEF Copies
  <2>3. ASSUME NEW f, f.about \cap rewritten = {}
        PROVE  f \in Findings(scan.found) <=> f \in Findings(Files)
    <3>1. \A w \in Write : w.task \in f.about => (w \in scan.found <=> w \in Files)
      BY <2>1, <2>3
    <3>2. f \in Findings(scan.found) => f \in Findings(Files)
      BY <2>1, <3>1, FindingsAgree
    <3>3. f \in Findings(Files) => f \in Findings(scan.found)
      BY <2>1, <3>1, FindingsAgree
    <3> QED
      BY <3>2, <3>3
  <2>4. ASSUME NEW S \in SUBSET (Task \ rewritten)
        PROVE  Waiting(scan.found, S) <=> Waiting(Files, S)
    <3> SUFFICES ASSUME NEW t \in S
                 PROVE  (\E w \in scan.found : w.task = t /\ Unfinished(w) /\ w.rec.deps \cap S # {})
                          <=> (\E w \in Files : w.task = t /\ Unfinished(w) /\ w.rec.deps \cap S # {})
      BY DEF Waiting
    <3>1. \A w \in Write : w.task = t => (w \in scan.found <=> w \in Files)
      BY <2>1
    <3> QED
      BY <2>1, <3>1
  <2> QED
    BY <2>2, <2>3, <2>4
<1> QED
  BY <1>1, ReaderInitIsSound, ReaderStep, PTL DEF ScanSpec
------------------------------------------------------------------------------
(* taskDependencyCycles: the search of DepCycles *)

LEMMA GraphTyped ==
  ASSUME byID \in Graph
  PROVE  /\ DOMAIN byID \subseteq Node
         /\ \A n \in DOMAIN byID : byID[n] \in SUBSET Node
BY DEF Graph

LEMMA CurrentIsLast ==
  ASSUME PathIsChain, path # <<>>
  PROVE  /\ Len(path) \in Nat /\ Len(path) > 0
         /\ Current = path[Len(path)]
         /\ Current \in DOMAIN byID /\ Current \in Visiting /\ Current \notin visited
<1>1. path \in Seq(DOMAIN byID) /\ Len(path) \in Nat /\ Len(path) > 0
  BY DEF PathIsChain
<1>2. Len(path) \in 1 .. Len(path)
  BY <1>1
<1>3. path[Len(path)] \in DOMAIN byID
  BY <1>1, <1>2
<1> QED
  BY <1>1, <1>2, <1>3 DEF Current, Visiting, PathIsChain

\* The path with one more task.
LEMMA PathGrows ==
  ASSUME SearchInv, NEW n \in DOMAIN byID \ (Visiting \cup visited),
         path # <<>> => n \in byID[Current],
         path' = Append(path, n), byID' = byID, visited' = visited, cycles' = cycles
  PROVE  /\ PathIsChain'
         /\ Len(path') = Len(path) + 1 /\ path'[Len(path) + 1] = n
         /\ \A i \in 1 .. Len(path) : path'[i] = path[i]
         /\ Visiting' = Visiting \cup {n}
<1>1. /\ path \in Seq(DOMAIN byID) /\ Len(path) \in Nat
      /\ \A i \in 1 .. Len(path) :
           /\ path[i] \notin visited
           /\ \A j \in 1 .. Len(path) : path[i] = path[j] => i = j
           /\ i < Len(path) => path[i + 1] \in byID[path[i]]
  BY DEF SearchInv, PathIsChain
<1>2. /\ path' \in Seq(DOMAIN byID)
      /\ Len(path') = Len(path) + 1 /\ path'[Len(path) + 1] = n
      /\ \A i \in 1 .. Len(path) : path'[i] = path[i]
  BY <1>1
<1>3. \A i \in 1 .. Len(path) : path[i] # n
  BY DEF Visiting
<1>4. Visiting' = Visiting \cup {n}
  <2>1. 1 .. Len(path') = (1 .. Len(path)) \cup {Len(path) + 1}
    BY <1>1, <1>2
  <2> QED
    BY <1>2, <2>1 DEF Visiting
<1>5. ASSUME NEW i \in 1 .. Len(path')
      PROVE  /\ path'[i] \notin visited
             /\ \A j \in 1 .. Len(path') : path'[i] = path'[j] => i = j
             /\ i < Len(path') => path'[i + 1] \in byID[path'[i]]
  <2>1. CASE i \in 1 .. Len(path)
    <3>1. path'[i] \notin visited /\ \A j \in 1 .. Len(path') : path'[i] = path'[j] => i = j
      BY <1>1, <1>2, <1>3, <2>1
    <3>2. CASE i < Len(path)
      <4>1. i + 1 \in 1 .. Len(path)
        BY <1>1, <2>1, <3>2
      <4> QED
        BY <1>1, <1>2, <2>1, <3>1, <3>2, <4>1
    <3>3. CASE i = Len(path)
      <4>1. path # <<>> /\ Current = path[i]
        BY <1>1, <2>1, <3>3 DEF Current
      <4> QED
        BY <1>2, <2>1, <3>1, <3>3, <4>1
    <3> QED
      BY <1>1, <2>1, <3>2, <3>3
  <2>2. CASE i = Len(path) + 1
    BY <1>1, <1>2, <1>3, <2>2
  <2> QED
    BY <1>1, <1>2, <2>1, <2>2
<1> QED
  BY <1>2, <1>4, <1>5 DEF PathIsChain

\* A new circle leaves the report a report of circles, and closes what it closed.
LEMMA ReportIsCircle ==
  ASSUME PathIsChain, path # <<>>, NEW start \in 1 .. Len(path),
         path[start] \in byID[Current]
  PROVE  LET c == SubSeq(path, start, Len(path)) IN
           IsCircle(c) /\ c[Len(c)] = Current /\ c[1] = path[start]
<1> DEFINE c == SubSeq(path, start, Len(path))
           k == Len(path) - start + 1
<1>1. /\ path \in Seq(DOMAIN byID) /\ Len(path) \in Nat /\ start \in Nat
      /\ 1 <= start /\ start <= Len(path) /\ Current = path[Len(path)]
      /\ \A i \in 1 .. Len(path) :
           /\ \A j \in 1 .. Len(path) : path[i] = path[j] => i = j
           /\ i < Len(path) => path[i + 1] \in byID[path[i]]
  BY DEF PathIsChain, Current
<1>2. /\ Len(c) = k /\ k \in Nat /\ k > 0 /\ start + k - 1 = Len(path)
      /\ \A i \in 1 .. k : c[i] = path[start + i - 1] /\ start + i - 1 \in 1 .. Len(path)
  BY <1>1
<1> HIDE DEF c, k
<1>3. c[k] = Current /\ c[1] = path[start]
  BY <1>1, <1>2
<1>4. c # <<>>
  <2>1. Len(<<>>) = 0
    OBVIOUS
  <2> QED
    BY <1>2, <2>1
<1>5. ASSUME NEW i \in 1 .. k
      PROVE  /\ c[i] \in DOMAIN byID
             /\ c[IF i = k THEN 1 ELSE i + 1] \in byID[c[i]]
             /\ \A j \in 1 .. k : c[i] = c[j] => i = j
  <2>1. \A j \in 1 .. k : \E a \in 1 .. Len(path) : a = start + j - 1 /\ c[j] = path[a]
    BY <1>2
  <2>2. PICK a \in 1 .. Len(path) : a = start + i - 1 /\ c[i] = path[a]
    BY <2>1
  <2>3. c[i] \in DOMAIN byID
    BY <1>1, <2>2
  <2>4. \A j \in 1 .. k : c[i] = c[j] => i = j
    <3> SUFFICES ASSUME NEW j \in 1 .. k, c[i] = c[j] PROVE i = j
      OBVIOUS
    <3>1. PICK b \in 1 .. Len(path) : b = start + j - 1 /\ c[j] = path[b]
      BY <2>1
    <3>2. a = b
      BY <1>1, <2>2, <3>1
    <3> QED
      BY <1>1, <1>2, <2>2, <3>1, <3>2
  <2>5. ASSUME i = k
        PROVE  c[1] \in byID[c[i]]
    BY <1>3, <2>5
  <2>6. ASSUME i # k
        PROVE  c[i + 1] \in byID[c[i]]
    <3>1. i + 1 \in 1 .. k
      BY <1>2, <2>6
    <3>2. c[i + 1] = path[a + 1] /\ a < Len(path)
      <4>1. PICK b \in 1 .. Len(path) : b = start + (i + 1) - 1 /\ c[i + 1] = path[b]
        BY <2>1, <3>1
      <4>2. b = a + 1
        BY <1>1, <1>2, <2>2, <4>1
      <4> QED
        BY <1>1, <4>1, <4>2
    <3> QED
      BY <1>1, <2>2, <3>2
  <2> QED
    BY <2>3, <2>4, <2>5, <2>6
<1>6. IsCircle(c)
  <2>1. c \in Seq(DOMAIN byID)
    BY <1>1, <1>2, <1>5 DEF c
  <2> QED
    BY <1>2, <1>4, <1>5, <2>1 DEF IsCircle
<1>7. IsCircle(c) /\ c[Len(c)] = Current /\ c[1] = path[start]
  BY <1>2, <1>3, <1>6
<1> QED
  BY <1>7 DEF c

\* More circles in the report close no less.
LEMMA BrokenForGood ==
  ASSUME byID' = byID, cycles \subseteq cycles', NEW S, Broken(S)
  PROVE  Broken(S)'
<1>1. Closing \subseteq Closing'
  BY DEF Closing
<1> QED
  BY <1>1 DEF Broken

LEMMA EnteringKeeps ==
  ASSUME SearchInv, NEW n \in DOMAIN byID \ (Visiting \cup visited),
         path # <<>> => n \in byID[Current],
         path' = Append(path, n), byID' = byID, visited' = visited, cycles' = cycles,
         left' \in [Node -> SUBSET Node], left'[n] = byID[n],
         \A m \in Node \ {n} : left'[m] = left[m] \/
                               (path # <<>> /\ m = Current /\ left'[m] = left[m] \ {n})
  PROVE  SearchInv'
<1>1. /\ PathIsChain'
      /\ Len(path') = Len(path) + 1 /\ path'[Len(path) + 1] = n
      /\ \A i \in 1 .. Len(path) : path'[i] = path[i]
      /\ Visiting' = Visiting \cup {n}
  BY PathGrows
<1>2. /\ Len(path) \in Nat /\ \A i \in 1 .. Len(path) : path[i] \in DOMAIN byID
      /\ \A i \in 1 .. Len(path) : path[i] # n
      /\ DOMAIN byID \subseteq Node
      /\ \A i, j \in 1 .. Len(path) : path[i] = path[j] => i = j
  BY GraphTyped DEF SearchInv, Typed, PathIsChain, Visiting
<1>3. Typed'
  BY <1>1 DEF SearchInv, Typed
<1>4. Closing' = Closing
  BY DEF Closing
<1>5. ASSUME NEW i \in 1 .. Len(path'),
             NEW m \in (byID[path'[i]] \ left'[path'[i]]) \cap DOMAIN byID
      PROVE  \/ m \in visited
             \/ <<path'[i], m>> \in Closing
             \/ i < Len(path') /\ m = path'[i + 1]
  <2>1. CASE i = Len(path) + 1
    BY <1>1, <2>1
  <2>2. CASE i \in 1 .. Len(path)
    <3>1. path'[i] = path[i] /\ path[i] \in Node \ {n}
      BY <1>1, <1>2, <2>2
    <3>2. CASE m \notin left[path[i]]
      <4>1. \/ m \in visited
            \/ <<path[i], m>> \in Closing
            \/ i < Len(path) /\ m = path[i + 1]
        BY <2>2, <3>1, <3>2 DEF SearchInv, Followed
      <4>2. i < Len(path) => i < Len(path') /\ path'[i + 1] = path[i + 1]
        BY <1>1, <1>2, <2>2
      <4> QED
        BY <3>1, <4>1, <4>2
    <3>3. CASE m \in left[path[i]]
      <4>1. path # <<>> /\ path[i] = Current /\ m = n
        BY <3>1, <3>3
      <4>2. i = Len(path)
        <5>1. Len(path) \in 1 .. Len(path) /\ Current = path[Len(path)]
          BY <1>2, <2>2 DEF Current
        <5> QED
          BY <1>2, <2>2, <4>1, <5>1
      <4> QED
        BY <1>1, <1>2, <4>1, <4>2
    <3> QED
      BY <3>2, <3>3
  <2>3. i = Len(path) + 1 \/ i \in 1 .. Len(path)
    BY <1>1, <1>2
  <2> QED
    BY <2>1, <2>2, <2>3
<1>6. Followed'
  BY <1>4, <1>5 DEF SearchInv, Followed
<1>7. VisitedIsCut' /\ ReportsAreCircles'
  BY <1>4 DEF SearchInv, VisitedIsCut, Broken, ReportsAreCircles, IsCircle
<1> QED
  BY <1>1, <1>3, <1>6, <1>7 DEF SearchInv

\* A dependency that leads to no call is visited, unknown, or reported.
LEMMA FollowingKeeps ==
  ASSUME SearchInv, path # <<>>, NEW n \in left[Current],
         byID' = byID, path' = path, visited' = visited, cycles \subseteq cycles',
         left' = [left EXCEPT ![Current] = @ \ {n}],
         \/ n \in visited
         \/ n \notin DOMAIN byID
         \/ <<Current, n>> \in Closing',
         ReportsAreCircles'
  PROVE  SearchInv'
<1>1. /\ Current \in DOMAIN byID /\ Current \in Visiting /\ DOMAIN byID \subseteq Node
      /\ Len(path) \in Nat /\ \A i \in 1 .. Len(path) : path[i] \in DOMAIN byID
  BY CurrentIsLast, GraphTyped DEF SearchInv, Typed, PathIsChain
<1>2. Closing \subseteq Closing'
  BY DEF Closing
<1>3. Typed' /\ PathIsChain'
  BY <1>1 DEF SearchInv, Typed, PathIsChain, Visiting
<1>4. ASSUME NEW i \in 1 .. Len(path),
             NEW m \in (byID[path[i]] \ left'[path[i]]) \cap DOMAIN byID
      PROVE  \/ m \in visited
             \/ <<path[i], m>> \in Closing'
             \/ i < Len(path) /\ m = path[i + 1]
  <2>1. CASE m \notin left[path[i]]
    BY <1>2, <2>1 DEF SearchInv, Followed
  <2>2. CASE m \in left[path[i]]
    <3>1. path[i] = Current /\ m = n
      BY <1>1, <2>2 DEF SearchInv, Typed
    <3> QED
      BY <3>1
  <2> QED
    BY <2>1, <2>2
<1>5. Followed'
  BY <1>2, <1>4 DEF SearchInv, Followed
<1>6. VisitedIsCut'
  BY BrokenForGood DEF SearchInv, VisitedIsCut
<1> QED
  BY <1>3, <1>5, <1>6 DEF SearchInv

\* The path with its last task gone.
LEMMA PathShrinks ==
  ASSUME SearchInv, Return
  PROVE  /\ PathIsChain'
         /\ Len(path') = Len(path) - 1
         /\ \A i \in 1 .. Len(path') : i \in 1 .. Len(path) /\ path'[i] = path[i]
         /\ Visiting \subseteq Visiting' \cup {Current}
<1>1. /\ path \in Seq(DOMAIN byID) /\ Len(path) \in Nat /\ Len(path) > 0
      /\ Current = path[Len(path)] /\ path' = SubSeq(path, 1, Len(path) - 1)
      /\ visited' = visited \cup {Current} /\ byID' = byID
      /\ \A i \in 1 .. Len(path) :
           /\ path[i] \notin visited
           /\ \A j \in 1 .. Len(path) : path[i] = path[j] => i = j
           /\ i < Len(path) => path[i + 1] \in byID[path[i]]
  BY CurrentIsLast DEF SearchInv, PathIsChain, Return
<1>2. /\ path' \in Seq(DOMAIN byID) /\ Len(path') = Len(path) - 1
      /\ \A i \in 1 .. Len(path) - 1 : path'[i] = path[i]
  <2> DEFINE k == Len(path) - 1
  <2>1. k \in Nat /\ \A i \in 1 .. k : i \in 1 .. Len(path) /\ path[i] \in DOMAIN byID
    BY <1>1
  <2> HIDE DEF k
  <2>2. SubSeq(path, 1, k) \in Seq(DOMAIN byID) /\ Len(SubSeq(path, 1, k)) = k
        /\ \A i \in 1 .. k : SubSeq(path, 1, k)[i] = path[i]
    BY <2>1
  <2> QED
    BY <1>1, <2>2 DEF k
<1>3. \A i \in 1 .. Len(path') : i \in 1 .. Len(path) /\ i < Len(path) /\ path'[i] = path[i]
  BY <1>1, <1>2
<1>4. Visiting \subseteq Visiting' \cup {Current}
  <2> SUFFICES ASSUME NEW i \in 1 .. Len(path), i # Len(path)
               PROVE  path[i] \in Visiting'
    BY <1>1 DEF Visiting
  <2>1. i \in 1 .. Len(path') /\ path'[i] = path[i]
    BY <1>1, <1>2
  <2> QED
    BY <2>1 DEF Visiting
<1>5. ASSUME NEW i \in 1 .. Len(path')
      PROVE  /\ path'[i] \notin visited'
             /\ \A j \in 1 .. Len(path') : path'[i] = path'[j] => i = j
             /\ i < Len(path') => path'[i + 1] \in byID[path'[i]]
  <2>1. path'[i] = path[i] /\ i \in 1 .. Len(path) /\ i < Len(path)
    BY <1>3
  <2>2. path[i] # Current
    <3>1. Len(path) \in 1 .. Len(path)
      BY <1>1
    <3> QED
      BY <1>1, <2>1, <3>1
  <2>3. i < Len(path') => path'[i + 1] = path[i + 1]
    BY <1>1, <1>2
  <2> QED
    BY <1>1, <1>3, <2>1, <2>2, <2>3
<1> QED
  BY <1>1, <1>2, <1>3, <1>4, <1>5 DEF PathIsChain

LEMMA ReturningKeeps == SearchInv /\ Return => SearchInv'
<1> SUFFICES ASSUME SearchInv, Return PROVE SearchInv'
  OBVIOUS
<1> DEFINE n == Current
<1>1. /\ n \in DOMAIN byID /\ n \notin visited /\ left[n] = {} /\ visited' = visited \cup {n}
      /\ UNCHANGED <<byID, left, cycles>> /\ DOMAIN byID \subseteq Node
      /\ Len(path) \in Nat /\ Len(path) > 0 /\ n = path[Len(path)]
  BY CurrentIsLast, GraphTyped DEF SearchInv, Typed, Return
<1>2. /\ PathIsChain'
      /\ Len(path') = Len(path) - 1
      /\ \A i \in 1 .. Len(path') : i \in 1 .. Len(path) /\ path'[i] = path[i]
      /\ Visiting \subseteq Visiting' \cup {n}
  BY PathShrinks
<1>3. Closing' = Closing
  BY <1>1 DEF Closing
<1> HIDE DEF n
<1>4. Typed'
  BY <1>1, <1>2 DEF SearchInv, Typed
<1>5. \A m \in byID[n] \cap DOMAIN byID : m \in visited \/ <<n, m>> \in Closing
  <2>1. Len(path) \in 1 .. Len(path) /\ ~(Len(path) < Len(path))
    BY <1>1
  <2> QED
    BY <1>1, <2>1 DEF SearchInv, Followed
<1>6. Followed'
  <2>1. \A u \in visited' : \A m \in byID[u] \cap DOMAIN byID :
          m \in visited' \/ <<u, m>> \in Closing
    BY <1>1, <1>5 DEF SearchInv, Followed
  <2>2. ASSUME NEW i \in 1 .. Len(path'),
               NEW m \in (byID[path'[i]] \ left[path'[i]]) \cap DOMAIN byID
        PROVE  \/ m \in visited'
               \/ <<path'[i], m>> \in Closing
               \/ i < Len(path') /\ m = path'[i + 1]
    <3>1. i \in 1 .. Len(path) /\ path'[i] = path[i] /\ i \in Nat
      BY <1>2
    <3>2. \/ m \in visited
          \/ <<path[i], m>> \in Closing
          \/ i < Len(path) /\ m = path[i + 1]
      BY <3>1 DEF SearchInv, Followed
    <3>3. CASE i + 1 = Len(path)
      BY <1>1, <3>1, <3>2, <3>3
    <3>4. CASE i + 1 < Len(path)
      <4>1. i < Len(path') /\ path'[i + 1] = path[i + 1]
        BY <1>1, <1>2, <3>1, <3>4
      <4> QED
        BY <1>1, <3>1, <3>2, <4>1
    <3> QED
      BY <1>1, <1>2, <3>1, <3>3, <3>4
  <2> QED
    BY <1>1, <1>3, <2>1, <2>2 DEF Followed
<1>7. VisitedIsCut'
  <2> SUFFICES ASSUME NEW S \in SUBSET (visited \cup {n}), S # {}
               PROVE  Broken(S)
    BY <1>1, <1>3 DEF VisitedIsCut, Broken
  <2>1. CASE n \notin S
    BY <2>1 DEF SearchInv, VisitedIsCut
  <2>2. CASE S = {n}
    BY <1>1, <1>5, <2>2 DEF Broken
  <2>3. CASE n \in S /\ S # {n}
    <3>1. S \ {n} \in (SUBSET visited) \ {{}}
      BY <2>3
    <3>2. PICK u \in S \ {n} : \A m \in byID[u] \cap (S \ {n}) : <<u, m>> \in Closing
      BY <3>1 DEF SearchInv, VisitedIsCut, Broken
    <3>3. n \in byID[u] => <<u, n>> \in Closing
      BY <1>1, <3>1, <3>2 DEF SearchInv, Followed
    <3> QED
      BY <3>2, <3>3 DEF Broken
  <2> QED
    BY <2>1, <2>2, <2>3
<1>8. ReportsAreCircles'
  BY <1>1 DEF SearchInv, ReportsAreCircles, IsCircle
<1> QED
  BY <1>2, <1>4, <1>6, <1>7, <1>8 DEF SearchInv

LEMMA SearchStep == SearchInv /\ [SearchNext]_search => SearchInv'
<1> SUFFICES ASSUME SearchInv, [SearchNext]_search PROVE SearchInv'
  OBVIOUS
<1>0. /\ left \in [Node -> SUBSET Node] /\ DOMAIN byID \subseteq Node
      /\ \A n \in DOMAIN byID : byID[n] \in SUBSET Node
      /\ \A n \in Node : left[n] \subseteq byID[n] \/ left[n] = {}
  BY GraphTyped DEF SearchInv, Typed
<1>1. CASE EnterRoot
  <2>1. PICK n \in DOMAIN byID \ visited : Enter(n)
    BY <1>1 DEF EnterRoot
  <2>2. path = <<>> /\ Visiting = {}
    BY <1>1 DEF EnterRoot, Visiting
  <2>3. left' \in [Node -> SUBSET Node] /\ left'[n] = byID[n]
    BY <1>0, <2>1 DEF Enter
  <2>4. \A m \in Node \ {n} : left'[m] = left[m]
    BY <1>0, <2>1 DEF Enter
  <2> QED
    BY <2>1, <2>2, <2>3, <2>4, EnteringKeeps DEF Enter
<1>2. CASE EnterDependency
  <2>1. PICK n \in (left[Current] \cap DOMAIN byID) \ (Visiting \cup visited) :
          /\ path' = Append(path, n)
          /\ left' = [left EXCEPT ![Current] = @ \ {n}, ![n] = byID[n]]
          /\ UNCHANGED <<byID, visited, cycles>>
    BY <1>2 DEF EnterDependency
  <2>2. path # <<>> /\ Current \in Visiting /\ Current \in Node
    BY <1>0, <1>2, CurrentIsLast DEF EnterDependency, SearchInv
  <2>3. n # Current /\ n \in byID[Current]
    BY <1>0, <2>1, <2>2
  <2>4. left' \in [Node -> SUBSET Node] /\ left'[n] = byID[n]
    BY <1>0, <2>1, <2>2, <2>3
  <2>5. \A m \in Node \ {n} : left'[m] = left[m] \/ (m = Current /\ left'[m] = left[m] \ {n})
    BY <1>0, <2>1, <2>2, <2>3
  <2> QED
    BY <2>1, <2>2, <2>3, <2>4, <2>5, EnteringKeeps
<1>3. CASE SkipDependency
  <2>1. ReportsAreCircles'
    BY <1>3 DEF SkipDependency, SearchInv, ReportsAreCircles, IsCircle
  <2> QED
    BY <1>3, <2>1, FollowingKeeps DEF SkipDependency
<1>4. CASE ReportCircle
  <2>1. PICK n \in left[Current] \cap Visiting, start \in 1 .. Len(path) :
          /\ path[start] = n
          /\ cycles' = cycles \cup {SubSeq(path, start, Len(path))}
          /\ left' = [left EXCEPT ![Current] = @ \ {n}]
          /\ UNCHANGED <<byID, path, visited>>
    BY <1>4 DEF ReportCircle
  <2> DEFINE c == SubSeq(path, start, Len(path))
  <2>2. path # <<>> /\ Current \in Node /\ PathIsChain
    BY <1>0, <1>4, CurrentIsLast DEF ReportCircle, SearchInv
  <2>3. path[start] \in byID[Current]
    BY <1>0, <2>1, <2>2
  <2>4. IsCircle(c) /\ c[Len(c)] = Current /\ c[1] = n
    BY <2>1, <2>2, <2>3, ReportIsCircle
  <2>5. cycles' = cycles \cup {c}
    BY <2>1
  <2> HIDE DEF c
  <2>6. ReportsAreCircles'
    BY <2>1, <2>4, <2>5 DEF SearchInv, ReportsAreCircles, IsCircle
  <2>7. <<Current, n>> \in Closing'
    BY <2>4, <2>5 DEF Closing
  <2> QED
    BY <2>1, <2>2, <2>5, <2>6, <2>7, FollowingKeeps
<1>5. CASE Return
  BY <1>5, ReturningKeeps
<1>6. CASE UNCHANGED search
  <2>1. UNCHANGED <<byID, path, left, visited, cycles>> /\ Visiting' = Visiting
        /\ Closing' = Closing
    BY <1>6 DEF search, Visiting, Closing
  <2>2. Typed' /\ PathIsChain'
    BY <2>1 DEF SearchInv, Typed, PathIsChain
  <2>3. Followed' /\ VisitedIsCut' /\ ReportsAreCircles'
    BY <2>1 DEF SearchInv, Followed, VisitedIsCut, Broken, ReportsAreCircles, IsCircle
  <2> QED
    BY <2>2, <2>3 DEF SearchInv
<1> QED
  BY <1>1, <1>2, <1>3, <1>4, <1>5, <1>6 DEF SearchNext, SearchStop

LEMMA SearchInvHolds == SearchSpec => []SearchInv
<1>1. SearchInit => SearchInv
  <2> SUFFICES ASSUME SearchInit PROVE SearchInv
    OBVIOUS
  <2>1. path \in Seq(DOMAIN byID) /\ 1 .. Len(path) = {}
    BY DEF SearchInit
  <2> QED
    BY <2>1 DEF SearchInit, SearchInv, Typed, PathIsChain, Visiting, Followed, Closing,
           VisitedIsCut, ReportsAreCircles
<1> QED
  BY <1>1, SearchStep, PTL DEF SearchSpec

\* taskDependencyCycles, for any graph of dependencies walked in any order: what
\* it reports are circles of unfinished tasks.
THEOREM ReportedCirclesAreReal == SearchSpec => []ReportsAreCircles
<1>1. SearchInv => ReportsAreCircles
  BY DEF SearchInv
<1> QED
  BY <1>1, SearchInvHolds, PTL

\* And pruning what was visited hides no circle: each has a step in common with
\* the report when the search ends.
THEOREM NoCircleIsMissed == SearchSpec => []ReportsCutEveryCircle
<1>1. SearchInv => ReportsCutEveryCircle
  BY DEF SearchInv, VisitedIsCut, ReportsCutEveryCircle, SearchEnds
<1> QED
  BY <1>1, SearchInvHolds, PTL

\* What dep add, create and import ask of the report: it is empty exactly when no
\* unfinished tasks wait for each other.
THEOREM EmptyReportMeansNoCircle ==
  SearchSpec =>
    [](SearchEnds => (cycles = {} <=> \A S \in SUBSET Node : Circular(S) => S = {}))
<1> SUFFICES ASSUME SearchInv, SearchEnds
             PROVE  cycles = {} <=> \A S \in SUBSET Node : Circular(S) => S = {}
  BY SearchInvHolds, PTL
<1>1. ASSUME cycles = {}, NEW S \in SUBSET Node, Circular(S), S # {}
      PROVE  FALSE
  <2>1. Broken(S)
    BY <1>1 DEF SearchInv, VisitedIsCut, SearchEnds, Circular
  <2> QED
    BY <1>1, <2>1 DEF Broken, Circular, Closing
<1>2. ASSUME NEW c \in cycles
      PROVE  \E S \in SUBSET Node : Circular(S) /\ S # {}
  <2> DEFINE S == {c[i] : i \in 1 .. Len(c)}
  <2>1. IsCircle(c)
    BY DEF SearchInv, ReportsAreCircles
  <2>2. c \in Seq(DOMAIN byID) /\ Len(c) \in Nat /\ Len(c) > 0
    BY <2>1 DEF IsCircle
  <2>3. ASSUME NEW i \in 1 .. Len(c)
        PROVE  byID[c[i]] \cap S # {}
    <3>1. c[IF i = Len(c) THEN 1 ELSE i + 1] \in byID[c[i]]
      BY <2>1 DEF IsCircle
    <3>2. (IF i = Len(c) THEN 1 ELSE i + 1) \in 1 .. Len(c)
      BY <2>2
    <3> QED
      BY <3>1, <3>2
  <2>4. S \subseteq DOMAIN byID
    BY <2>2
  <2>5. c[1] \in S
    BY <2>2
  <2> HIDE DEF S
  <2>6. Circular(S) /\ S # {} /\ S \in SUBSET Node
    <3>1. \A n \in S : byID[n] \cap S # {}
      BY <2>3 DEF S
    <3> QED
      BY <2>4, <2>5, <3>1, GraphTyped DEF Circular, SearchInv, Typed
  <2> QED
    BY <2>6
<1> QED
  BY <1>1, <1>2
==============================================================================
