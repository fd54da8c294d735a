--------------------------- MODULE NamedLockProofs ---------------------------
(***************************************************************************)
(* Proofs about NamedLock, for every set of processes, tokens and inodes.  *)
(* Nothing is assumed of the timing of the processes: what the lock        *)
(* promises, it promises until an overtaken process takes or marks another *)
(* one's lock, and to the owners that were awake.                          *)
(***************************************************************************)
EXTENDS NamedLock, TLAPS

LEMMA NoDirNotLockDir == NoDir \notin LockDir
BY SentinelAssumption DEF LockDir

\* Every step of a command and of its environment keeps the variables in their
\* sets, with a claimed directory exactly where a verify step awaits it.
LEMMA TypeStep == TypeOK /\ [Next]_vars => TypeOK'
<1> SUFFICES ASSUME TypeOK, [Next]_vars
             PROVE  TypeOK'
  OBVIOUS
<1> USE NoDirNotLockDir DEF TypeOK, Goto, Step, Past, TakeBlindly, history, Blind
<1>1. ASSUME NEW p \in Proc, Acquiring(p)
      PROVE  TypeOK'
  <2>1. CASE Mkdir(p)
    BY <2>1 DEF Mkdir, LockDir, PC, Holding, Reclaiming
  <2>2. CASE Busy(p)
    BY <2>2 DEF Busy, PC, Reclaiming
  <2>3. CASE WriteToken(p)
    <3>1. PICK t \in Token :
            /\ dir' = [dir EXCEPT !.tok = t, !.stale = FALSE]
            /\ token' = [token EXCEPT ![p] = t]
      BY <2>3 DEF WriteToken
    <3>2. dir' \in LockDir
      BY <2>3, <3>1 DEF WriteToken, LockDir
    <3>3. token' \in [Proc -> Token \cup {NoToken}]
      BY <3>1
    <3> QED
      BY <2>3, <3>2, <3>3 DEF WriteToken, PC, Holding
  <2>4. CASE WriteTokenFails(p)
    BY <2>4 DEF WriteTokenFails, PC, Holding
  <2>5. CASE UndoMkdir(p)
    BY <2>5 DEF UndoMkdir, PC
  <2> QED
    BY <1>1, <2>1, <2>2, <2>3, <2>4, <2>5 DEF Acquiring
<1>2. ASSUME NEW p \in Proc, Releasing(p)
      PROVE  TypeOK'
  <2>1. CASE Release(p)
    BY <2>1 DEF Release, PC, Holding
  <2>2. CASE ReleaseCheck(p)
    BY <2>2 DEF ReleaseCheck, PC, Holding
  <2>3. CASE ReleaseRename(p)
    BY <2>3 DEF ReleaseRename, PC, Holding
  <2>4. CASE ReleaseVerify(p)
    BY <2>4 DEF ReleaseVerify, PC
  <2>5. CASE ReleaseFails(p)
    BY <2>5 DEF ReleaseFails, PC
  <2> QED
    BY <1>2, <2>1, <2>2, <2>3, <2>4, <2>5 DEF Releasing
<1>3. ASSUME NEW p \in Proc, Waiting(p)
      PROVE  TypeOK'
  <2>1. CASE FirstStat(p)
    BY <2>1 DEF FirstStat, PC, Reclaiming
  <2>2. CASE SecondStat(p)
    BY <2>2 DEF SecondStat, Stale, LockDir, PC, Reclaiming
  <2>3. CASE ReadToken(p)
    BY <2>3 DEF ReadToken, LockDir, PC, Reclaiming
  <2>4. CASE ClaimCheck(p)
    BY <2>4 DEF ClaimCheck, Owned, PC, Reclaiming
  <2>5. CASE ClaimRename(p)
    BY <2>5 DEF ClaimRename, PC, Reclaiming
  <2>6. CASE ClaimVerify(p)
    BY <2>6 DEF ClaimVerify, PC
  <2>7. CASE LegacyStat(p)
    BY <2>7 DEF LegacyStat, PC, Reclaiming
  <2>8. CASE LegacyRename(p)
    BY <2>8 DEF LegacyRename, PC, Reclaiming
  <2>9. CASE LegacyVerify(p)
    BY <2>9 DEF LegacyVerify, PC
  <2>10. CASE ClaimFails(p)
    BY <2>10 DEF ClaimFails, PC
  <2>11. CASE Deadline(p)
    BY <2>11 DEF Deadline, PC
  <2> QED
    BY <1>3, <2>1, <2>2, <2>3, <2>4, <2>5, <2>6, <2>7, <2>8, <2>9, <2>10, <2>11
       DEF Waiting
<1>4. ASSUME NEW p \in Proc,
             Start(p) \/ Heartbeat(p) \/ Expire(p) \/ Crash(p) \/ Restart(p)
      PROVE  TypeOK'
  <2>1. CASE Start(p)
    BY <2>1 DEF Start, PC
  <2>2. CASE Heartbeat(p)
    BY <2>2 DEF Heartbeat, LockDir
  <2>3. CASE Expire(p)
    BY <2>3 DEF Expire
  <2>4. CASE Crash(p)
    BY <2>4 DEF Crash, LockDir, PC
  <2>5. CASE Restart(p)
    BY <2>5 DEF Restart, PC
  <2> QED
    BY <1>4, <2>1, <2>2, <2>3, <2>4, <2>5
<1>5. CASE GoStale
  BY <1>5 DEF GoStale, LockDir
<1>6. CASE UNCHANGED vars
  BY <1>6 DEF vars
<1> QED
  BY <1>1, <1>2, <1>3, <1>4, <1>5, <1>6 DEF Next, Run

\* Every reachable state is type correct: lock.go never reads the directory,
\* token or identity it has not observed.
THEOREM TypeCorrect == Spec => []TypeOK
<1>1. Init => TypeOK
  BY SentinelAssumption DEF Init, TypeOK, PC
<1> QED
  BY <1>1, TypeStep, PTL DEF Spec

------------------------------------------------------------------------------
(***************************************************************************)
(* The inductive invariant. Only a mkdir brings forth a live owner and a   *)
(* new maker, and it marks whoever is about to act blindly as overtaken.   *)
(* In every other step an orphan stays one, so a claim aimed at an orphan  *)
(* cannot hit a live lock.                                                 *)
(***************************************************************************)
Parts == /\ \A p \in Proc : Live(p) => HasLock(p)
         /\ WorksOnItsOwn
         /\ OnlyOrphansAreStale
         /\ ClaimsTargetOrphans

LEMMA RacedStays == TypeOK /\ [Next]_vars /\ raced => raced'
<1> SUFFICES ASSUME TypeOK, [Next]_vars, raced
             PROVE  raced'
  OBVIOUS
<1>1. ASSUME NEW p \in Proc, Acquiring(p)
      PROVE  raced'
  BY <1>1 DEF Acquiring, Mkdir, Busy, WriteToken, WriteTokenFails, UndoMkdir,
              TakeBlindly, history
<1>2. ASSUME NEW p \in Proc, Releasing(p)
      PROVE  raced'
  BY <1>2 DEF Releasing, Release, ReleaseCheck, ReleaseRename, ReleaseVerify, ReleaseFails,
              TakeBlindly, history
<1>3. ASSUME NEW p \in Proc, Waiting(p)
      PROVE  raced'
  BY <1>3 DEF Waiting, FirstStat, SecondStat, ReadToken, ClaimCheck, ClaimRename, ClaimVerify,
              LegacyStat, LegacyRename, LegacyVerify, ClaimFails, Deadline, TakeBlindly, history
<1>4. ASSUME NEW p \in Proc,
             Start(p) \/ Heartbeat(p) \/ Expire(p) \/ Crash(p) \/ Restart(p)
      PROVE  raced'
  BY <1>4 DEF Start, Heartbeat, Expire, Crash, Restart, history
<1>5. CASE GoStale
  BY <1>5 DEF GoStale
<1>6. CASE UNCHANGED vars
  BY <1>6 DEF vars, history
<1> QED
  BY <1>1, <1>2, <1>3, <1>4, <1>5, <1>6 DEF Next, Run

\* A mkdir finds no directory, so nobody who is awake has the lock, and leaves
\* nobody who acts blindly unmarked.
LEMMA MkdirKeepsParts ==
  ASSUME TypeOK, Locks, NEW p \in Proc, Mkdir(p)
  PROVE  Parts'
<1> USE NoDirNotLockDir DEF TypeOK, Goto, Step
<1>1. /\ dir = NoDir
      /\ pc' = [pc EXCEPT ![p] = "write"]
      /\ overtaken' = overtaken \cup {q \in Proc : pc[q] \in Blind}
      /\ UNCHANGED <<token, claim, slept>>
  BY DEF Mkdir
<1>2. dir' # NoDir /\ dir'.maker = p /\ ~dir'.stale /\ dir'.tok = NoToken
  <2>1. PICK i \in Inode :
          dir' = [ino |-> i, maker |-> p, stale |-> FALSE, tok |-> NoToken]
    BY DEF Mkdir
  <2>2. dir' \in LockDir
    BY <2>1 DEF LockDir
  <2> QED
    BY <2>1, <2>2
<1>3. \A q \in Proc \ {p} : pc'[q] = pc[q]
  BY <1>1
<1>4. \A q \in Proc : Live(q)' => HasLock(q)'
  <2>1. \A q \in Proc : ~Live(q)
    BY <1>1 DEF Locks, HasLock
  <2>2. \A q \in Proc \ {p} : ~Live(q)'
    BY <1>1, <2>1 DEF Live
  <2> QED
    BY <1>1, <1>2, <2>2 DEF HasLock
<1>5. WorksOnItsOwn'
  BY <1>1, <1>2, <1>3 DEF WorksOnItsOwn, Blind
<1>6. OnlyOrphansAreStale'
  BY <1>2 DEF OnlyOrphansAreStale
<1>7. ClaimsTargetOrphans'
  <2> SUFFICES ASSUME NEW q \in Proc, q \notin overtaken',
                      \/ pc'[q] \in {"readTok", "rename", "legacyRename"}
                      \/ pc'[q] = "check" /\ dir'.tok = claim'[q]
               PROVE  FALSE
    BY DEF ClaimsTargetOrphans
  <2>1. q # p /\ pc'[q] = pc[q]
    BY <1>1, <1>3
  <2>2. pc[q] \notin Blind
    BY <1>1
  <2> QED
    BY <1>1, <1>2, <2>1, <2>2 DEF Blind
<1> QED
  BY <1>4, <1>5, <1>6, <1>7 DEF Parts

\* A step that moves p, leaves the directory, and lets p see no more than it may.
LEMMA LookingKeepsParts ==
  ASSUME TypeOK, Locks, NEW p \in Proc, NEW next,
         pc' = [pc EXCEPT ![p] = next],
         next \in Holding => pc[p] \in Holding,
         next \in {"write", "undo"} => pc[p] \in {"write", "undo"},
         next \in {"held", "relCheck", "relRename"}
           => pc[p] \in {"held", "relCheck", "relRename"},
         next = "relRename" /\ dir # NoDir => dir.maker = p,
         p \notin overtaken' /\ dir # NoDir /\
           (next \in {"readTok", "rename", "legacyRename"}
              \/ (next = "check" /\ dir.tok = claim'[p])) => ~Live(dir.maker),
         UNCHANGED dir, \A q \in Proc \ {p} : claim'[q] = claim[q],
         \A q \in Proc \ {p} : token'[q] = token[q],
         token' = token \/ next \notin Holding,
         \A q \in Proc \ {p} : q \in overtaken' <=> q \in overtaken,
         p \in overtaken => p \in overtaken' \/ next \notin Holding,
         \A q \in Proc \ {p} : q \in slept' <=> q \in slept,
         p \in slept => p \in slept' \/ next \notin Holding
  PROVE  Parts'
<1> USE DEF TypeOK
<1>1. \A q \in Proc : Live(q)' => Live(q)
  BY DEF Live
<1>2. dir # NoDir => dir.maker \in Proc
  BY DEF LockDir
<1>3. \A q \in Proc \ {p} : pc'[q] = pc[q]
  OBVIOUS
<1>4. \A q \in Proc : Live(q)' => HasLock(q)'
  <2> SUFFICES ASSUME NEW q \in Proc, Live(q)'
               PROVE  HasLock(q)'
    OBVIOUS
  <2>1. HasLock(q)
    BY <1>1 DEF Locks
  <2>2. pc'[q] \in {"held", "relCheck", "relRename"} => pc[q] \in {"held", "relCheck", "relRename"}
    OBVIOUS
  <2>3. token'[q] = token[q]
    BY DEF Live
  <2> QED
    BY <2>1, <2>2, <2>3 DEF HasLock, Owned
<1>5. WorksOnItsOwn'
  BY <1>3 DEF Locks, WorksOnItsOwn, Holding
<1>6. OnlyOrphansAreStale'
  BY <1>1, <1>2 DEF Locks, OnlyOrphansAreStale
<1>7. ClaimsTargetOrphans'
  <2> SUFFICES ASSUME NEW q \in Proc, q \notin overtaken', dir # NoDir,
                      \/ pc'[q] \in {"readTok", "rename", "legacyRename"}
                      \/ pc'[q] = "check" /\ dir.tok = claim'[q]
               PROVE  ~Live(dir.maker)
    BY <1>1, <1>2 DEF ClaimsTargetOrphans
  <2>1. CASE q = p
    BY <2>1
  <2>2. CASE q # p
    <3>1. pc'[q] = pc[q] /\ claim'[q] = claim[q] /\ q \notin overtaken
      BY <2>2
    <3> QED
      BY <3>1 DEF Locks, ClaimsTargetOrphans
  <2> QED
    BY <2>1, <2>2
<1> QED
  BY <1>4, <1>5, <1>6, <1>7 DEF Parts

\* Taking whatever directory is there away is harmless, but for the owner that
\* is awake; and that one is the taker itself, or the race is lost.
LEMMA TakingKeepsParts ==
  ASSUME TypeOK, Locks, ~raced', NEW p \in Proc, TakeBlindly(p),
         pc[p] \in {"undo", "rename", "legacyRename", "relRename"},
         pc'[p] \notin Holding, \A q \in Proc \ {p} : pc'[q] = pc[q]
  PROVE  Parts'
<1> USE DEF TypeOK
<1>1. dir' = NoDir /\ slept' = slept
  BY DEF TakeBlindly
<1>2. \A q \in Proc : ~Live(q)'
  <2> SUFFICES ASSUME NEW q \in Proc, Live(q)'
               PROVE  FALSE
    OBVIOUS
  <2>1. q # p /\ Live(q)
    BY <1>1 DEF Live
  <2>2. dir # NoDir /\ dir.maker = q
    BY <2>1 DEF Locks, HasLock
  <2>3. p \notin overtaken
    BY <2>1, <2>2 DEF TakeBlindly, Live
  <2>4. CASE pc[p] \in {"undo", "relRename"}
    BY <2>1, <2>2, <2>3, <2>4 DEF Locks, WorksOnItsOwn
  <2>5. CASE pc[p] \in {"rename", "legacyRename"}
    BY <2>1, <2>2, <2>3, <2>5 DEF Locks, ClaimsTargetOrphans
  <2> QED
    BY <2>4, <2>5
<1> QED
  BY <1>1, <1>2 DEF Parts, WorksOnItsOwn, OnlyOrphansAreStale, ClaimsTargetOrphans

LEMMA AcquiringKeepsParts ==
  ASSUME TypeOK, Locks, ~raced', NEW p \in Proc, Acquiring(p)
  PROVE  Parts'
<1> USE NoDirNotLockDir DEF TypeOK, Goto, Step
<1>1. CASE Mkdir(p)
  BY <1>1, MkdirKeepsParts
<1>2. CASE Busy(p)
  BY <1>2, LookingKeepsParts DEF Busy, history, Holding
<1>3. CASE WriteToken(p)
  <2>1. PICK t \in Token :
          /\ ~InUse(t)
          /\ dir' = [dir EXCEPT !.tok = t, !.stale = FALSE]
          /\ token' = [token EXCEPT ![p] = t]
    BY <1>3 DEF WriteToken
  <2>2. p \notin overtaken /\ dir \in LockDir /\ dir.maker = p
    BY <1>3 DEF WriteToken, Locks, WorksOnItsOwn
  <2>3. dir' # NoDir /\ dir'.maker = p /\ dir'.tok = t /\ ~dir'.stale
    BY <2>1, <2>2 DEF LockDir
  <2>4. t # NoToken /\ token'[p] = t
    BY <2>1, SentinelAssumption
  <2>5. /\ pc' = [pc EXCEPT ![p] = "held"] /\ pc[p] = "write"
        /\ overtaken' = overtaken \ {p}
        /\ UNCHANGED <<claim, slept>>
    BY <1>3 DEF WriteToken, Past
  <2>6. \A q \in Proc \ {p} : pc'[q] = pc[q] /\ ~Live(q)'
    BY <2>2, <2>5 DEF Locks, HasLock, Live
  <2>7. \A q \in Proc : Live(q)' => HasLock(q)'
    BY <2>3, <2>4, <2>6 DEF HasLock, Owned
  <2>8. WorksOnItsOwn'
    BY <2>2, <2>3, <2>5, <2>6 DEF Locks, WorksOnItsOwn
  <2>9. OnlyOrphansAreStale'
    BY <2>3 DEF OnlyOrphansAreStale
  <2>10. ClaimsTargetOrphans'
    <3> SUFFICES ASSUME NEW q \in Proc, q \notin overtaken',
                        \/ pc'[q] \in {"readTok", "rename", "legacyRename"}
                        \/ pc'[q] = "check" /\ dir'.tok = claim'[q]
                 PROVE  ~Live(p)'
      BY <2>3 DEF ClaimsTargetOrphans
    <3>1. q # p /\ pc'[q] = pc[q] /\ q \notin overtaken
      BY <2>5, <2>6
    <3>2. claim[q] # t
      BY <2>1 DEF InUse
    <3>3. pc[q] \in {"readTok", "rename", "legacyRename"}
      BY <2>3, <2>5, <3>1, <3>2
    <3>4. ~Live(p)
      BY <2>2, <3>1, <3>3 DEF Locks, ClaimsTargetOrphans
    <3> QED
      BY <2>5, <3>4 DEF Live, Holding
  <2> QED
    BY <2>7, <2>8, <2>9, <2>10 DEF Parts
<1>4. CASE WriteTokenFails(p)
  BY <1>4, LookingKeepsParts DEF WriteTokenFails, history, Holding
<1>5. CASE UndoMkdir(p)
  BY <1>5, TakingKeepsParts DEF UndoMkdir, Holding
<1> QED
  BY <1>1, <1>2, <1>3, <1>4, <1>5 DEF Acquiring

LEMMA ReleasingKeepsParts ==
  ASSUME TypeOK, Locks, ~raced', NEW p \in Proc, Releasing(p)
  PROVE  Parts'
<1> USE DEF TypeOK, Goto, Step
<1>1. CASE Release(p)
  BY <1>1, LookingKeepsParts DEF Release, history, Holding
<1>2. CASE ReleaseCheck(p)
  <2>1. CASE Owned(dir, token[p])
    <3>1. dir # NoDir /\ dir.maker = p
      BY <2>1 DEF Owned, Locks, TokenNamesMaker
    <3> QED
      BY <1>2, <2>1, <3>1, LookingKeepsParts DEF ReleaseCheck, history, Holding
  <2>2. CASE ~Owned(dir, token[p])
    BY <1>2, <2>2, LookingKeepsParts DEF ReleaseCheck, history, Holding
  <2> QED
    BY <2>1, <2>2
<1>3. CASE ReleaseRename(p)
  BY <1>3, TakingKeepsParts DEF ReleaseRename, Holding
<1>4. CASE ReleaseVerify(p)
  BY <1>4, LookingKeepsParts DEF ReleaseVerify, history, Holding
<1>5. CASE ReleaseFails(p)
  BY <1>5, LookingKeepsParts DEF ReleaseFails, Past, Holding
<1> QED
  BY <1>1, <1>2, <1>3, <1>4, <1>5 DEF Releasing

\* A waiter goes on towards a claim only when it finds the lock stale, or its
\* token unchanged.
LEMMA WaitingKeepsParts ==
  ASSUME TypeOK, Locks, ~raced', NEW p \in Proc, Waiting(p)
  PROVE  Parts'
<1> USE DEF TypeOK, Goto, Step
<1>1. CASE FirstStat(p)
  BY <1>1, LookingKeepsParts DEF FirstStat, history, Holding
<1>2. CASE SecondStat(p)
  <2>1. Stale => ~Live(dir.maker)
    BY DEF Stale, Locks, OnlyOrphansAreStale
  <2> QED
    BY <1>2, <2>1, LookingKeepsParts DEF SecondStat, history, Holding
<1>3. CASE ReadToken(p)
  <2>1. p \notin overtaken /\ dir # NoDir => ~Live(dir.maker)
    BY <1>3 DEF ReadToken, Locks, ClaimsTargetOrphans
  <2>2. \A q \in Proc \ {p} : claim'[q] = claim[q]
    BY <1>3 DEF ReadToken
  <2> QED
    BY <1>3, <2>1, <2>2, LookingKeepsParts DEF ReadToken, history, Holding
<1>4. CASE ClaimCheck(p)
  <2>1. p \notin overtaken /\ Owned(dir, claim[p]) => ~Live(dir.maker)
    BY <1>4 DEF ClaimCheck, Owned, Locks, ClaimsTargetOrphans
  <2> QED
    BY <1>4, <2>1, LookingKeepsParts DEF ClaimCheck, history, Holding
<1>5. CASE ClaimRename(p)
  BY <1>5, TakingKeepsParts DEF ClaimRename, Holding
<1>6. CASE ClaimVerify(p)
  BY <1>6, LookingKeepsParts DEF ClaimVerify, history, Holding
<1>7. CASE LegacyStat(p)
  <2>1. Stale => ~Live(dir.maker)
    BY DEF Stale, Locks, OnlyOrphansAreStale
  <2> QED
    BY <1>7, <2>1, LookingKeepsParts DEF LegacyStat, history, Holding
<1>8. CASE LegacyRename(p)
  BY <1>8, TakingKeepsParts DEF LegacyRename, Holding
<1>9. CASE LegacyVerify(p)
  BY <1>9, LookingKeepsParts DEF LegacyVerify, history, Holding
<1>10. CASE ClaimFails(p)
  BY <1>10, LookingKeepsParts DEF ClaimFails, history, Holding
<1>11. CASE Deadline(p)
  <2>1. \A q \in Proc \ {p} : claim'[q] = claim[q]
    BY <1>11 DEF Deadline
  <2> QED
    BY <1>11, <2>1, LookingKeepsParts DEF Deadline, Past, Holding
<1> QED
  BY <1>1, <1>2, <1>3, <1>4, <1>5, <1>6, <1>7, <1>8, <1>9, <1>10, <1>11
     DEF Waiting

\* New commands, heartbeats, clocks and crashes leave a holder its lock. A crash
\* in the middle of a token write leaves an empty owner file, in the writer's
\* own directory unless the race is lost.
LEMMA EnvironmentKeepsParts ==
  ASSUME TypeOK, Locks, ~raced',
         \/ \E p \in Proc : \/ Start(p) \/ Heartbeat(p) \/ Expire(p)
                            \/ Crash(p) \/ Restart(p)
         \/ GoStale
         \/ UNCHANGED vars
  PROVE  Parts'
<1> USE NoDirNotLockDir DEF TypeOK, Goto, Step
<1>1. ASSUME NEW p \in Proc, Start(p)
      PROVE  Parts'
  BY <1>1, LookingKeepsParts DEF Start, Holding
<1>2. ASSUME NEW p \in Proc, Heartbeat(p)
      PROVE  Parts'
  <2>1. /\ dir # NoDir /\ dir' # NoDir
        /\ dir'.maker = dir.maker /\ dir'.tok = dir.tok /\ ~dir'.stale
    BY <1>2 DEF Heartbeat, LockDir
  <2>2. UNCHANGED <<pc, token, claim, overtaken, slept>>
    BY <1>2 DEF Heartbeat, history
  <2>3. dir.maker \in Proc
    BY <2>1 DEF LockDir
  <2> QED
    BY <2>1, <2>2, <2>3
       DEF Locks, Parts, HasLock, Owned, Live, WorksOnItsOwn, OnlyOrphansAreStale, ClaimsTargetOrphans
<1>3. ASSUME NEW p \in Proc, Expire(p)
      PROVE  Parts'
  BY <1>3 DEF Expire, history, Locks, Parts, HasLock, Owned, Live, WorksOnItsOwn,
              OnlyOrphansAreStale, ClaimsTargetOrphans
<1>4. ASSUME NEW p \in Proc, Crash(p)
      PROVE  Parts'
  <2>1. /\ pc' = [pc EXCEPT ![p] = "dead"]
        /\ \A q \in Proc \ {p} : token'[q] = token[q] /\ claim'[q] = claim[q]
        /\ overtaken' = overtaken \ {p}
        /\ UNCHANGED slept
    BY <1>4 DEF Crash, Past
  <2>2. CASE UNCHANGED dir
    BY <2>1, <2>2, LookingKeepsParts DEF Holding
  <2>3. ASSUME pc[p] = "write", dir # NoDir, dir' = [dir EXCEPT !.tok = EmptyToken],
               p \notin overtaken
        PROVE  Parts'
    <3>1. dir.maker = p /\ dir \in LockDir
      BY <2>3 DEF Locks, WorksOnItsOwn
    <3>2. dir' # NoDir /\ dir'.maker = p
      BY <2>3, <3>1, SentinelAssumption DEF LockDir
    <3>3. \A q \in Proc : ~Live(q)'
      BY <2>1, <3>1 DEF Locks, HasLock, Live, Holding
    <3>4. WorksOnItsOwn'
      BY <2>1, <3>1, <3>2 DEF Locks, WorksOnItsOwn
    <3>5. OnlyOrphansAreStale' /\ ClaimsTargetOrphans'
      BY <3>2, <3>3 DEF OnlyOrphansAreStale, ClaimsTargetOrphans
    <3> QED
      BY <3>3, <3>4, <3>5 DEF Parts
  <2> QED
    BY <1>4, <2>2, <2>3 DEF Crash
<1>5. ASSUME NEW p \in Proc, Restart(p)
      PROVE  Parts'
  BY <1>5, LookingKeepsParts DEF Restart, history, Holding
<1>6. CASE GoStale
  <2>1. /\ dir \in LockDir /\ dir' # NoDir
        /\ dir'.maker = dir.maker /\ dir'.tok = dir.tok
    BY <1>6 DEF GoStale, LockDir
  <2>2. UNCHANGED <<pc, token, claim, overtaken>> /\ slept \subseteq slept'
    BY <1>6 DEF GoStale
  <2>3. dir.maker \in Proc
    BY <2>1 DEF LockDir
  <2>4. ~Live(dir.maker)'
    BY <1>6, <2>1, <2>2, <2>3 DEF GoStale, Live
  <2>5. \A q \in Proc : Live(q)' => Live(q)
    BY <2>2 DEF Live
  <2>6. \A q \in Proc : Live(q)' => HasLock(q)'
    BY <2>1, <2>2, <2>5 DEF Locks, HasLock, Owned
  <2>7. WorksOnItsOwn'
    BY <2>1, <2>2 DEF Locks, WorksOnItsOwn
  <2> QED
    BY <2>1, <2>4, <2>6, <2>7 DEF Parts, OnlyOrphansAreStale, ClaimsTargetOrphans
<1>7. CASE UNCHANGED vars
  BY <1>7 DEF vars, history, Locks, Parts, HasLock, Owned, Live, WorksOnItsOwn,
              OnlyOrphansAreStale, ClaimsTargetOrphans
<1> QED
  BY <1>1, <1>2, <1>3, <1>4, <1>5, <1>6, <1>7

------------------------------------------------------------------------------
(***************************************************************************)
(* Tokens. A token is written into the directory its writer made, so it    *)
(* never names another one's, unless the writer was overtaken.             *)
(***************************************************************************)

\* Steps that write no token only rename directories, remove them or forget tokens.
LEMMA NoNewNames ==
  ASSUME TokenNamesMaker,
         dir' = dir \/ dir' = NoDir \/ (dir' # NoDir /\ dir'.tok \in {NoToken, EmptyToken})
           \/ (dir # NoDir /\ dir'.tok = dir.tok /\ dir'.maker = dir.maker),
         \A q \in Proc : aside'[q] \in {aside[q], dir, NoDir},
         \A q \in Proc : token'[q] \in {token[q], NoToken} /\ token[q] # EmptyToken
  PROVE  TokenNamesMaker'
BY DEF TokenNamesMaker

LEMMA NamesStep ==
  ASSUME TypeOK, Locks, ~raced', [Next]_vars
  PROVE  TokenNamesMaker'
<1> DEFINE Kept ==
      /\ \/ dir' = dir \/ dir' = NoDir \/ (dir' # NoDir /\ dir'.tok \in {NoToken, EmptyToken})
         \/ (dir # NoDir /\ dir'.tok = dir.tok /\ dir'.maker = dir.maker)
      /\ \A q \in Proc : aside'[q] \in {aside[q], dir, NoDir}
      /\ \A q \in Proc : token'[q] \in {token[q], NoToken}
<1>1. ASSUME NEW p \in Proc, WriteToken(p)
      PROVE  TokenNamesMaker'
  <2>1. PICK t \in Token :
          /\ ~InUse(t)
          /\ dir' = [dir EXCEPT !.tok = t, !.stale = FALSE]
          /\ token' = [token EXCEPT ![p] = t]
    BY <1>1 DEF WriteToken
  <2>2. dir.maker = p /\ dir \in LockDir
    BY <1>1 DEF WriteToken, Step, Locks, WorksOnItsOwn, TypeOK
  <2>3. dir'.tok = t /\ dir'.maker = p
    BY <2>1, <2>2 DEF LockDir
  <2>4. /\ token'[p] = t
        /\ \A q \in Proc \ {p} : token'[q] = token[q] /\ token[q] # t
    BY <2>1 DEF TypeOK, InUse
  <2>5. \A q \in Proc : aside'[q] = aside[q] /\ (aside[q] # NoDir => aside[q].tok # t)
    BY <1>1, <2>1 DEF WriteToken, InUse
  <2> QED
    BY <2>3, <2>4, <2>5 DEF Locks, TokenNamesMaker
<1>2. ASSUME NEW p \in Proc, Acquiring(p), ~WriteToken(p)
      PROVE  Kept
  <2>1. CASE Mkdir(p)
    BY <2>1, NoDirNotLockDir DEF Mkdir
  <2>2. CASE Busy(p) \/ WriteTokenFails(p) \/ UndoMkdir(p)
    BY <2>2 DEF Busy, WriteTokenFails, UndoMkdir, TakeBlindly
  <2> QED
    BY <1>2, <2>1, <2>2 DEF Acquiring
<1>3. ASSUME NEW p \in Proc, Releasing(p)
      PROVE  Kept
  <2>1. CASE ReleaseRename(p)
    BY <2>1 DEF ReleaseRename, TakeBlindly, TypeOK
  <2>2. CASE Release(p) \/ ReleaseCheck(p) \/ ReleaseVerify(p) \/ ReleaseFails(p)
    BY <2>2 DEF Release, ReleaseCheck, ReleaseVerify, ReleaseFails, TypeOK
  <2> QED
    BY <1>3, <2>1, <2>2 DEF Releasing
<1>4. ASSUME NEW p \in Proc, Waiting(p)
      PROVE  Kept
  <2>1. CASE ClaimRename(p) \/ LegacyRename(p)
    BY <2>1 DEF ClaimRename, LegacyRename, TakeBlindly, TypeOK
  <2>2. CASE ClaimVerify(p) \/ LegacyVerify(p)
    BY <2>2 DEF ClaimVerify, LegacyVerify, TypeOK
  <2>3. CASE \/ FirstStat(p) \/ SecondStat(p) \/ ReadToken(p) \/ ClaimCheck(p) \/ LegacyStat(p)
             \/ ClaimFails(p) \/ Deadline(p)
    BY <2>3 DEF FirstStat, SecondStat, ReadToken, ClaimCheck, LegacyStat, ClaimFails, Deadline
  <2> QED
    BY <1>4, <2>1, <2>2, <2>3 DEF Waiting
<1>5. ASSUME NEW p \in Proc,
             Start(p) \/ Heartbeat(p) \/ Expire(p) \/ Restart(p)
      PROVE  Kept
  BY <1>5 DEF Start, Heartbeat, Expire, Restart, TypeOK, LockDir
<1>6. ASSUME NEW p \in Proc, Crash(p)
      PROVE  Kept
  <2>1. dir' = dir \/ (dir \in LockDir /\ dir' = [dir EXCEPT !.tok = EmptyToken])
    BY <1>6 DEF Crash, TypeOK
  <2>2. dir' = dir \/ (dir' \in LockDir /\ dir'.tok = EmptyToken)
    BY <2>1 DEF LockDir
  <2> QED
    BY <1>6, <2>2, NoDirNotLockDir DEF Crash, TypeOK
<1>7. ASSUME GoStale
      PROVE  Kept
  BY <1>7 DEF GoStale, TypeOK, LockDir
<1>8. ASSUME UNCHANGED vars
      PROVE  Kept
  BY <1>8 DEF vars
<1>9. \A q \in Proc : token[q] # EmptyToken
  BY SentinelAssumption DEF TypeOK
<1>10. Kept => TokenNamesMaker'
  BY <1>9, NoNewNames DEF Locks
<1> HIDE DEF Kept
<1> QED
  BY <1>1, <1>2, <1>3, <1>4, <1>5, <1>6, <1>7, <1>8, <1>10 DEF Next, Run

LEMMA Inductive == Spec => []IInv
<1>1. Init => IInv
  BY SentinelAssumption
     DEF Init, IInv, TypeOK, PC, Locks, Live, WorksOnItsOwn, TokenNamesMaker,
         OnlyOrphansAreStale, ClaimsTargetOrphans, Holding
<1>2. IInv /\ [Next]_vars => IInv'
  <2> SUFFICES ASSUME IInv, [Next]_vars
               PROVE  IInv'
    OBVIOUS
  <2>1. TypeOK'
    BY TypeStep DEF IInv
  <2>2. ASSUME ~raced'
        PROVE  Locks'
    <3>1. TypeOK /\ Locks
      BY <2>2, RacedStays DEF IInv
    <3>2. Parts'
      BY <2>2, <3>1, AcquiringKeepsParts, ReleasingKeepsParts, WaitingKeepsParts,
         EnvironmentKeepsParts
         DEF Next, Run
    <3>3. TokenNamesMaker'
      BY <2>2, <3>1, NamesStep
    <3> QED
      BY <3>2, <3>3 DEF Parts, Locks
  <2> QED
    BY <2>1, <2>2 DEF IInv
<1> QED
  BY <1>1, <1>2, PTL DEF Spec

------------------------------------------------------------------------------
\* Until an overtaken process takes or marks another one's lock, the lock of a
\* process that was awake stays at the lock path under its own token until it
\* releases it: every other interleaving of checks, renames and crashes is safe.
THEOREM HoldersKeepTheirLock == Spec => []HolderKeepsLock
<1>1. IInv => HolderKeepsLock
  BY DEF IInv, Locks, HolderKeepsLock
<1> QED
  BY <1>1, Inductive, PTL

\* ... so the sections that one named lock guards exclude each other.
THEOREM Exclusive == Spec => []MutualExclusion
<1>1. IInv => MutualExclusion
  BY DEF IInv, Locks, Live, HasLock, MutualExclusion, Holding
<1> QED
  BY <1>1, Inductive, PTL

\* Until then, and whoever slept in its section, a release that finds its own
\* token in what it removed has removed its own directory.
THEOREM ReleasesAreTruthful == Spec => ReleaseIsTruthful
<1>1. IInv => \A p \in Proc :
        ~raced /\ ReleaseVerify(p) /\ Owned(aside[p], token[p]) => aside[p].maker = p
  BY DEF IInv, Locks, TokenNamesMaker, Owned
<1> QED
  BY <1>1, Inductive, PTL DEF ReleaseIsTruthful

------------------------------------------------------------------------------
(***************************************************************************)
(* NamedLock implements Mutex until then: taking a directory away is Free, *)
(* and it never befalls a maker that works.                                *)
(***************************************************************************)
Work == {q \in Proc \ slept : pc[q] = "held"}
Owner == IF dir = NoDir THEN NoDir ELSE dir.maker

\* Every step of NamedLock is a step of Mutex, leaves its variables alone, or
\* loses the race.
LEMMA StepRefines ==
  ASSUME TypeOK, Locks, [Next]_vars, ~raced'
  PROVE  [M!Next]_(M!vars)
<1> USE NoDirNotLockDir DEF TypeOK, Goto, Step
<1> DEFINE Same == Owner' = Owner /\ Work' = Work
<1>1. Same => UNCHANGED M!vars
  BY DEF M!vars, Owner, Work
<1>2. ASSUME Owner # NoDir, Owner \notin Work, Owner' = NoDir, Work' = Work
      PROVE  M!Next
  BY <1>2 DEF M!Next, M!Free, Owner, Work
<1>3. ASSUME NEW p \in Proc, Owner' = Owner, Work' = Work \ {p}
      PROVE  M!Next \/ Same
  <2>1. CASE p \in Work
    BY <1>3, <2>1 DEF M!Next, M!Leave, Owner, Work
  <2>2. CASE p \notin Work
    BY <1>3, <2>2
  <2> QED
    BY <2>1, <2>2
<1>4. ASSUME NEW p \in Proc, Mkdir(p)
      PROVE  M!Next
  <2>1. Owner = NoDir /\ Owner' = p
    <3>1. PICK i \in Inode :
            dir' = [ino |-> i, maker |-> p, stale |-> FALSE, tok |-> NoToken]
      BY <1>4 DEF Mkdir
    <3>2. dir' \in LockDir
      BY <3>1 DEF LockDir
    <3> QED
      BY <1>4, <3>1, <3>2 DEF Mkdir, Owner
  <2>2. Work' = Work
    BY <1>4 DEF Mkdir, Work
  <2> QED
    BY <2>1, <2>2 DEF M!Next, M!Acquire, Owner, Work
<1>5. ASSUME NEW p \in Proc, WriteToken(p)
      PROVE  M!Next \/ Same
  <2>1. Owner = p /\ Owner' = Owner
    <3>1. PICK t \in Token : dir' = [dir EXCEPT !.tok = t, !.stale = FALSE]
      BY <1>5 DEF WriteToken
    <3>2. dir \in LockDir /\ dir.maker = p
      BY <1>5 DEF WriteToken, Locks, WorksOnItsOwn
    <3>3. dir' \in LockDir /\ dir'.maker = p
      BY <3>1, <3>2, SentinelAssumption DEF LockDir
    <3> QED
      BY <3>2, <3>3 DEF Owner
  <2>2. Work' = Work \cup ({p} \ slept)
    BY <1>5 DEF WriteToken, Work
  <2>3. CASE p \in slept
    BY <2>1, <2>2, <2>3
  <2>4. CASE p \notin slept
    BY <2>1, <2>2, <2>4 DEF M!Next, M!Enter, Owner, Work
  <2> QED
    BY <2>3, <2>4
<1>6. ASSUME NEW p \in Proc, Release(p)
      PROVE  M!Next \/ Same
  <2>1. Owner' = Owner /\ Work' = Work \ {p}
    BY <1>6 DEF Release, Owner, Work, history
  <2> QED
    BY <1>3, <2>1
<1>7. ASSUME NEW p \in Proc, Crash(p)
      PROVE  M!Next \/ Same
  <2>1. Owner' = Owner
    BY <1>7 DEF Crash, Owner, LockDir
  <2>2. Work' = Work \ {p}
    BY <1>7 DEF Crash, Work
  <2> QED
    BY <1>3, <2>1, <2>2
<1>8. ASSUME NEW p \in Proc, TakeBlindly(p),
             pc[p] \in {"undo", "rename", "legacyRename", "relRename"}, Work' = Work
      PROVE  M!Next \/ Same
  <2>1. dir' = NoDir
    BY <1>8 DEF TakeBlindly
  <2>2. CASE dir = NoDir
    BY <1>8, <2>1, <2>2 DEF Owner
  <2>3. CASE dir # NoDir
    <3>1. dir.maker \in Proc
      BY <2>3 DEF LockDir
    <3>2. dir.maker \notin Work
      <4>1. CASE p \in overtaken
        BY <1>8, <2>3, <4>1 DEF TakeBlindly, Work, Holding
      <4>2. CASE p \notin overtaken /\ pc[p] \in {"undo", "relRename"}
        BY <2>3, <4>2 DEF Locks, WorksOnItsOwn, Work
      <4>3. CASE p \notin overtaken /\ pc[p] \in {"rename", "legacyRename"}
        BY <2>3, <3>1, <4>3 DEF Locks, ClaimsTargetOrphans, Live, Work, Holding
      <4> QED
        BY <1>8, <4>1, <4>2, <4>3
    <3>3. Owner # NoDir /\ Owner \notin Work /\ Owner' = NoDir
      BY <2>1, <2>3, <3>1, <3>2, SentinelAssumption DEF Owner
    <3> QED
      BY <1>2, <1>8, <3>3
  <2> QED
    BY <2>2, <2>3
<1>9. ASSUME NEW p \in Proc,
             \/ UndoMkdir(p) \/ ReleaseRename(p)
             \/ ClaimRename(p) \/ LegacyRename(p)
      PROVE  M!Next \/ Same
  <2>1. /\ TakeBlindly(p)
        /\ pc[p] \in {"undo", "rename", "legacyRename", "relRename"}
    BY <1>9 DEF UndoMkdir, ReleaseRename, ClaimRename, LegacyRename
  <2>2. Work' = Work
    BY <1>9 DEF UndoMkdir, ReleaseRename, ClaimRename, LegacyRename, TakeBlindly, Work
  <2> QED
    BY <1>8, <2>1, <2>2
<1>10. ASSUME NEW p \in Proc,
              \/ Busy(p) \/ WriteTokenFails(p)
              \/ ReleaseCheck(p) \/ ReleaseVerify(p) \/ ReleaseFails(p)
              \/ Expire(p) \/ Restart(p)
       PROVE  Same
  BY <1>10 DEF Busy, WriteTokenFails, ReleaseCheck, ReleaseVerify, ReleaseFails,
               Expire, Restart, Owner, Work, history
<1>11. ASSUME NEW p \in Proc,
              \/ FirstStat(p) \/ SecondStat(p) \/ ReadToken(p) \/ ClaimCheck(p)
              \/ ClaimVerify(p) \/ LegacyStat(p) \/ LegacyVerify(p)
              \/ ClaimFails(p) \/ Deadline(p)
       PROVE  Same
  BY <1>11 DEF FirstStat, SecondStat, ReadToken, ClaimCheck, ClaimVerify, LegacyStat,
               LegacyVerify, ClaimFails, Deadline, Owner, Work, history
<1>12. ASSUME NEW p \in Proc, Start(p)
       PROVE  Same
  BY <1>12 DEF Start, Owner, Work
<1>13. ASSUME NEW p \in Proc, Heartbeat(p)
       PROVE  Same
  BY <1>13 DEF Heartbeat, Owner, Work, LockDir, history
<1>14. ASSUME GoStale
       PROVE  M!Next \/ Same
  <2>1. Owner' = Owner /\ dir.maker \in Proc
    BY <1>14 DEF GoStale, Owner, LockDir
  <2>2. Work' = Work \/ Work' = Work \ {dir.maker}
    BY <1>14 DEF GoStale, Work
  <2> QED
    BY <1>3, <2>1, <2>2
<1>15. ASSUME UNCHANGED vars
       PROVE  Same
  BY <1>15 DEF vars, history, Owner, Work
<1> HIDE DEF Same
<1> QED
  BY <1>1, <1>4, <1>5, <1>6, <1>7, <1>9, <1>10, <1>11, <1>12, <1>13, <1>14, <1>15
     DEF Next, Run, Acquiring, Releasing, Waiting

\* Until an overtaken process takes or marks another one's lock, the protocol of
\* lock.go is a mutex whose ownership a crash or a long sleep, but nothing else,
\* forfeits.
THEOREM Refinement == Spec => ImplementsMutex
<1>1. Init => M!Init
  BY DEF Init, M!Init
<1>2. IInv /\ [Next]_vars => [raced' \/ M!Next]_(M!vars)
  <2> SUFFICES ASSUME IInv, [Next]_vars, ~raced'
               PROVE  [M!Next]_(M!vars)
    OBVIOUS
  <2>1. TypeOK /\ Locks
    BY RacedStays DEF IInv
  <2> QED
    BY <2>1, StepRefines
<1> QED
  BY <1>1, <1>2, Inductive, PTL DEF Spec, ImplementsMutex
==============================================================================
