------------------------------ MODULE NamedLock ------------------------------
(***************************************************************************)
(* The named lock of internal/ahm/lock.go: a directory created with        *)
(* os.Mkdir, identified by a random owner token in a file inside it, kept  *)
(* young by a heartbeat, and reclaimed by a waiter once it looks stale.    *)
(* Every action is one file-system operation of one ahm process, so the    *)
(* operations of different processes interleave.                           *)
(*                                                                         *)
(* Time is abstracted to what the code compares: whether the directory's   *)
(* modification time is older than workflowLockStaleAfter (dir.stale), and *)
(* whether it is still the one a waiter saw at its first stat (steady).    *)
(* Tokens are 128 random bits: two tokens in use are never equal.          *)
(*                                                                         *)
(* The operations work on a path, so a directory can be replaced between a *)
(* process's last look at it and what it does to it. Nothing in the code   *)
(* excludes that; the history variables say when it has happened, and what *)
(* the lock promises until then.                                           *)
(***************************************************************************)
EXTENDS Naturals, FiniteSets

CONSTANTS
  Proc,         \* ahm processes that contend for one named lock
  Token,        \* owner tokens
  Inode,        \* the identities os.SameFile compares; reused when free
  NoDir,        \* no directory at the lock path, or in a quarantine
  NoToken,      \* a directory without an owner file, a process without a lock
  EmptyToken,   \* an owner file that was created and never written
  NoInode,
  MaySuspend,   \* an owner may be suspended (a laptop that sleeps) until its
                \* lock looks stale
  MayFail       \* file operations may fail for reasons other than existence

ASSUME SentinelAssumption ==
  /\ NoDir \notin [ino : Inode, maker : Proc, stale : BOOLEAN,
                   tok : Token \cup {NoToken, EmptyToken}]
  /\ {NoToken, EmptyToken} \cap Token = {}
  /\ NoToken # EmptyToken
  /\ NoInode \notin Inode
  /\ NoDir \notin Proc

ASSUME EnvironmentAssumption ==
  /\ MaySuspend \in BOOLEAN
  /\ MayFail \in BOOLEAN

VARIABLES
  dir,      \* the directory at lockPath, or NoDir
  aside,    \* aside[p]: the directory p renamed into its quarantine, or NoDir
  pc,       \* pc[p]: the operation p performs next
  token,    \* token[p]: the token of the lock p acquired
  claim,    \* claim[p]: the token p read from the stale lock it wants to remove
  seen,     \* seen[p]: the identity p read of a stale lock without a token
  steady,   \* the waiters whose first observation of the modification time
            \* a second stat would confirm
  expired   \* the processes whose acquire deadline has passed

\* What the properties remember; no operation reads them.
VARIABLES
  overtaken,  \* the processes about to act blindly on a lock made since they
              \* last looked
  raced,      \* one of them has taken another's lock or marked it as its own
  slept       \* the processes whose lock looked stale while they had it

history == <<overtaken, raced, slept>>
vars == <<dir, aside, pc, token, claim, seen, steady, expired, history>>

LockDir == [ino : Inode, maker : Proc, stale : BOOLEAN,
            tok : Token \cup {NoToken, EmptyToken}]

\* A process acquires, holds and releases ...
Holding   == {"write", "undo", "held", "relCheck", "relRename"}
\* ... or waits for a lock that exists and tries to reclaim it.
Reclaiming == {"stat1", "stat2", "readTok", "check", "rename", "verify",
               "legacyStat", "legacyRename", "legacyVerify"}
\* The operations before which no look at the directory tells a process that it
\* was replaced: the write or undoing of a lock just made, the reading of a
\* token from a lock found stale, and the renames that follow a check.
Blind == {"write", "undo", "readTok", "rename", "legacyRename", "relRename"}

PC == {"idle", "dead", "mkdir", "relVerify", "deadline"} \cup Holding \cup Reclaiming

TypeOK ==
  /\ dir \in LockDir \cup {NoDir}
  /\ aside \in [Proc -> LockDir \cup {NoDir}]
  /\ pc \in [Proc -> PC]
  /\ token \in [Proc -> Token \cup {NoToken}]
  /\ claim \in [Proc -> Token \cup {NoToken, EmptyToken}]
  /\ seen \in [Proc -> Inode \cup {NoInode}]
  /\ steady \in SUBSET Proc
  /\ expired \in SUBSET Proc
  /\ overtaken \in SUBSET Proc
  /\ raced \in BOOLEAN
  /\ slept \in SUBSET Proc
  /\ \A p \in overtaken : pc[p] \in Blind \cup {"check", "legacyStat", "deadline"}
  /\ \A p \in Proc : pc[p] \in {"check", "rename", "verify"} => claim[p] # NoToken
  /\ \A p \in Proc : aside[p] # NoDir <=> pc[p] \in {"relVerify", "verify", "legacyVerify"}

Init ==
  /\ dir = NoDir
  /\ aside = [p \in Proc |-> NoDir]
  /\ pc = [p \in Proc |-> "idle"]
  /\ token = [p \in Proc |-> NoToken]
  /\ claim = [p \in Proc |-> NoToken]
  /\ seen = [p \in Proc |-> NoInode]
  /\ steady = {}
  /\ expired = {}
  /\ overtaken = {}
  /\ raced = FALSE
  /\ slept = {}

------------------------------------------------------------------------------
Goto(p, next) == pc' = [pc EXCEPT ![p] = next]

\* p goes from one operation to the next.
Step(p, here, next) == pc[p] = here /\ Goto(p, next)

\* Mutant: ownership is the existence of an owner file.
OwnedByPresence(d, t) == d # NoDir /\ d.tok # NoToken

\* workflowLockOwned: directory d still carries exactly the token t.
Owned(d, t) == d # NoDir /\ d.tok # NoToken /\ d.tok = t

\* Mutant: the age threshold is forgotten.
AnyAge == dir # NoDir

Stale == dir # NoDir /\ dir.stale

InUse(t) ==
  \/ dir # NoDir /\ dir.tok = t
  \/ \E q \in Proc : \/ token[q] = t
                     \/ claim[q] = t
                     \/ aside[q] # NoDir /\ aside[q].tok = t

\* p leaves the operations for which it matters whether it was overtaken.
Past(p) == overtaken' = overtaken \ {p}

\* A blind p takes whatever is at the lock path: the race is lost when that is
\* the lock of a process that has just made it.
TakeBlindly(p) ==
  /\ dir' = NoDir
  /\ raced' = (raced \/ (p \in overtaken /\ dir # NoDir /\ pc[dir.maker] \in Holding))
  /\ Past(p)
  /\ UNCHANGED slept

FreeInode(i) == \A q \in Proc : aside[q] # NoDir => aside[q].ino # i

------------------------------------------------------------------------------
(* Acquire: acquireNamedLock, tryAcquireNamedLock. *)

Start(p) ==
  /\ Step(p, "idle", "mkdir")
  /\ expired' = expired \ {p}
  /\ slept' = slept \ {p}
  /\ UNCHANGED <<dir, aside, token, claim, seen, steady, overtaken, raced>>

\* Mutant: os.MkdirAll, which succeeds on a directory that exists.
MkdirAll(p) ==
  /\ Step(p, "mkdir", "write")
  /\ \E i \in Inode :
       /\ FreeInode(i)
       /\ dir' = [ino |-> i, maker |-> p, stale |-> FALSE, tok |-> NoToken]
  /\ steady' = {}
  /\ overtaken' = overtaken \cup {q \in Proc : pc[q] \in Blind}
  /\ UNCHANGED <<aside, token, claim, seen, expired, raced, slept>>

Mkdir(p) ==
  /\ Step(p, "mkdir", "write")
  /\ dir = NoDir
  /\ \E i \in Inode :
       /\ FreeInode(i)
       /\ dir' = [ino |-> i, maker |-> p, stale |-> FALSE, tok |-> NoToken]
  /\ steady' = {}
  /\ overtaken' = overtaken \cup {q \in Proc : pc[q] \in Blind}
  /\ UNCHANGED <<aside, token, claim, seen, expired, raced, slept>>

\* os.Mkdir reports that the lock exists.
Busy(p) ==
  /\ Step(p, "mkdir", "stat1")
  /\ dir # NoDir
  /\ UNCHANGED <<dir, aside, token, claim, seen, steady, expired, history>>

\* The owner file is written by path, into whichever directory is there.
WriteToken(p) ==
  /\ Step(p, "write", "held")
  /\ dir # NoDir
  /\ \E t \in Token :
       /\ ~InUse(t)
       /\ dir' = [dir EXCEPT !.tok = t, !.stale = FALSE]
       /\ token' = [token EXCEPT ![p] = t]
  /\ steady' = {}
  /\ raced' = (raced \/ p \in overtaken)
  /\ Past(p)
  /\ UNCHANGED <<aside, claim, seen, expired, slept>>

WriteTokenFails(p) ==
  /\ Step(p, "write", "undo")
  /\ MayFail \/ dir = NoDir
  /\ UNCHANGED <<dir, aside, token, claim, seen, steady, expired, history>>

\* os.RemoveAll(lockPath) after a failed token write.
UndoMkdir(p) ==
  /\ Step(p, "undo", "idle")
  /\ TakeBlindly(p)
  /\ UNCHANGED <<aside, token, claim, seen, steady, expired>>

\* os.Chtimes on the path, not on the directory this process created.
Heartbeat(p) ==
  /\ pc[p] = "held"
  /\ dir # NoDir
  /\ dir' = [dir EXCEPT !.stale = FALSE]
  /\ steady' = {}
  /\ UNCHANGED <<aside, pc, token, claim, seen, expired, history>>

(* Release: the heartbeat is joined, then removeWorkflowLockIfOwned. *)

Release(p) ==
  /\ Step(p, "held", "relCheck")
  /\ UNCHANGED <<dir, aside, token, claim, seen, steady, expired, history>>

ReleaseCheck(p) ==
  /\ pc[p] = "relCheck"
  /\ IF Owned(dir, token[p])
     THEN /\ Goto(p, "relRename")
          /\ UNCHANGED token
     ELSE /\ Goto(p, "idle")           \* ownership lost
          /\ token' = [token EXCEPT ![p] = NoToken]
  /\ UNCHANGED <<dir, aside, claim, seen, steady, expired, history>>

ReleaseRename(p) ==
  /\ pc[p] = "relRename"
  /\ aside' = [aside EXCEPT ![p] = dir]
  /\ TakeBlindly(p)
  /\ IF dir # NoDir
     THEN /\ Goto(p, "relVerify")
          /\ UNCHANGED token
     ELSE /\ Goto(p, "idle")           \* ownership lost
          /\ token' = [token EXCEPT ![p] = NoToken]
  /\ UNCHANGED <<claim, seen, steady, expired>>

\* The quarantine is removed whether or not the token is still p's; only the
\* returned error differs.
ReleaseVerify(p) ==
  /\ Step(p, "relVerify", "idle")
  /\ aside' = [aside EXCEPT ![p] = NoDir]
  /\ token' = [token EXCEPT ![p] = NoToken]
  /\ UNCHANGED <<dir, claim, seen, steady, expired, history>>

\* MkdirTemp or Rename fails: the lock stays, without an owner.
ReleaseFails(p) ==
  /\ MayFail
  /\ Step(p, "relRename", "idle")
  /\ token' = [token EXCEPT ![p] = NoToken]
  /\ Past(p)
  /\ UNCHANGED <<dir, aside, claim, seen, steady, expired, raced, slept>>

------------------------------------------------------------------------------
(* Reclaim: removeStaleWorkflowLock and what it calls. Its errors are        *)
(* ignored by acquireNamedLock, so every path ends at the deadline test.     *)

FirstStat(p) ==
  /\ pc[p] = "stat1"
  /\ IF Stale
     THEN /\ Goto(p, "stat2")
          /\ steady' = steady \cup {p}
     ELSE /\ Goto(p, "deadline")
          /\ UNCHANGED steady
  /\ UNCHANGED <<dir, aside, token, claim, seen, expired, history>>

SecondStat(p) ==
  /\ pc[p] = "stat2"
  /\ IF Stale /\ p \in steady
     THEN /\ Goto(p, "readTok")
          /\ seen' = [seen EXCEPT ![p] = dir.ino]
     ELSE /\ Goto(p, "deadline")
          /\ UNCHANGED seen
  /\ steady' = steady \ {p}
  /\ UNCHANGED <<dir, aside, token, claim, expired, history>>

\* Mutant: the owner file is not tested for existence.
ReadTokenUntested(p) ==
  /\ Step(p, "readTok", "check")
  /\ claim' = [claim EXCEPT ![p] = IF dir # NoDir THEN dir.tok ELSE EmptyToken]
  /\ UNCHANGED <<dir, aside, token, seen, steady, expired, history>>

\* Mutant: a lock without a token is left alone.
ReadTokenOnly(p) ==
  /\ pc[p] = "readTok"
  /\ IF dir # NoDir /\ dir.tok # NoToken
     THEN /\ Goto(p, "check")
          /\ claim' = [claim EXCEPT ![p] = dir.tok]
     ELSE /\ Goto(p, "deadline")
          /\ UNCHANGED claim
  /\ UNCHANGED <<dir, aside, token, seen, steady, expired, history>>

ReadToken(p) ==
  /\ pc[p] = "readTok"
  /\ IF dir # NoDir /\ dir.tok # NoToken
     THEN /\ Goto(p, "check")
          /\ claim' = [claim EXCEPT ![p] = dir.tok]
     ELSE /\ Goto(p, "legacyStat")
          /\ UNCHANGED claim
  /\ UNCHANGED <<dir, aside, token, seen, steady, expired, history>>

\* Mutant: the token read from the stale lock is not looked for again.
ClaimUnchecked(p) ==
  /\ Step(p, "check", "rename")
  /\ UNCHANGED <<dir, aside, token, claim, seen, steady, expired, history>>

ClaimCheck(p) ==
  /\ pc[p] = "check"
  /\ Goto(p, IF Owned(dir, claim[p]) THEN "rename" ELSE "deadline")
  /\ UNCHANGED <<dir, aside, token, claim, seen, steady, expired, history>>

ClaimRename(p) ==
  /\ pc[p] = "rename"
  /\ Goto(p, IF dir # NoDir THEN "verify" ELSE "deadline")
  /\ aside' = [aside EXCEPT ![p] = dir]
  /\ TakeBlindly(p)
  /\ UNCHANGED <<token, claim, seen, steady, expired>>

\* Both outcomes of the second token check remove the quarantine.
ClaimVerify(p) ==
  /\ Step(p, "verify", "deadline")
  /\ aside' = [aside EXCEPT ![p] = NoDir]
  /\ UNCHANGED <<dir, token, claim, seen, steady, expired, history>>

\* Mutant: a lock without a token is claimed as it was found, without another
\* look at its age and identity.
LegacyUnchecked(p) ==
  /\ Step(p, "legacyStat", "legacyRename")
  /\ UNCHANGED <<dir, aside, token, claim, seen, steady, expired, history>>

\* reclaimLegacyWorkflowLock: identity instead of a token.
LegacyStat(p) ==
  /\ pc[p] = "legacyStat"
  /\ Goto(p, IF Stale /\ dir.ino = seen[p] THEN "legacyRename" ELSE "deadline")
  /\ UNCHANGED <<dir, aside, token, claim, seen, steady, expired, history>>

LegacyRename(p) ==
  /\ pc[p] = "legacyRename"
  /\ Goto(p, IF dir # NoDir THEN "legacyVerify" ELSE "deadline")
  /\ aside' = [aside EXCEPT ![p] = dir]
  /\ TakeBlindly(p)
  /\ UNCHANGED <<token, claim, seen, steady, expired>>

LegacyVerify(p) ==
  /\ Step(p, "legacyVerify", "deadline")
  /\ aside' = [aside EXCEPT ![p] = NoDir]
  /\ UNCHANGED <<dir, token, claim, seen, steady, expired, history>>

ClaimFails(p) ==
  /\ MayFail
  /\ pc[p] \in {"rename", "legacyRename"}
  /\ Goto(p, "deadline")
  /\ UNCHANGED <<dir, aside, token, claim, seen, steady, expired, history>>

\* Mutant: the deadline is never tested.
RetryForever(p) ==
  /\ Step(p, "deadline", "mkdir")
  /\ claim' = [claim EXCEPT ![p] = NoToken]
  /\ seen' = [seen EXCEPT ![p] = NoInode]
  /\ Past(p)
  /\ UNCHANGED <<dir, aside, token, steady, expired, raced, slept>>

\* The end of one round of acquireNamedLock.
Deadline(p) ==
  /\ pc[p] = "deadline"
  /\ Goto(p, IF p \in expired THEN "idle" ELSE "mkdir")
  /\ claim' = [claim EXCEPT ![p] = NoToken]
  /\ seen' = [seen EXCEPT ![p] = NoInode]
  /\ Past(p)
  /\ UNCHANGED <<dir, aside, token, steady, expired, raced, slept>>

------------------------------------------------------------------------------
(* The environment: clocks, crashes and new commands. *)

\* workflowLockTimeout passes while p waits.
Expire(p) ==
  /\ pc[p] \in Reclaiming \cup {"mkdir", "deadline"}
  /\ p \notin expired
  /\ expired' = expired \cup {p}
  /\ UNCHANGED <<dir, aside, pc, token, claim, seen, steady, history>>

\* workflowLockStaleAfter passes since the last refresh. Six heartbeat
\* intervals fit in it, so only an owner that is gone, or one suspended for
\* half an hour, lets its lock look stale.
GoStale ==
  /\ dir # NoDir
  /\ ~dir.stale
  /\ dir' = [dir EXCEPT !.stale = TRUE]
  /\ \/ pc[dir.maker] \notin Holding /\ UNCHANGED slept
     \/ MaySuspend /\ pc[dir.maker] \in Holding /\ slept' = slept \cup {dir.maker}
  /\ UNCHANGED <<aside, pc, token, claim, seen, steady, expired, overtaken, raced>>

\* The process dies between two operations. A token write that is cut short
\* may leave an empty owner file; a quarantine it leaves is never looked at
\* again.
Crash(p) ==
  /\ pc[p] \notin {"idle", "dead"}
  /\ Goto(p, "dead")
  /\ \/ UNCHANGED <<dir, raced>>
     \/ /\ pc[p] = "write"
        /\ dir # NoDir
        /\ dir' = [dir EXCEPT !.tok = EmptyToken]
        /\ raced' = (raced \/ p \in overtaken)
  /\ Past(p)
  /\ aside' = [aside EXCEPT ![p] = NoDir]
  /\ token' = [token EXCEPT ![p] = NoToken]
  /\ claim' = [claim EXCEPT ![p] = NoToken]
  /\ seen' = [seen EXCEPT ![p] = NoInode]
  /\ steady' = steady \ {p}
  /\ UNCHANGED <<expired, slept>>

\* A new command may run in its place.
Restart(p) ==
  /\ Step(p, "dead", "idle")
  /\ UNCHANGED <<dir, aside, token, claim, seen, steady, expired, history>>

------------------------------------------------------------------------------
Acquiring(p) ==
  \/ Mkdir(p) \/ Busy(p) \/ WriteToken(p) \/ WriteTokenFails(p) \/ UndoMkdir(p)

Releasing(p) ==
  \/ Release(p) \/ ReleaseCheck(p) \/ ReleaseRename(p)
  \/ ReleaseVerify(p) \/ ReleaseFails(p)

Waiting(p) ==
  \/ FirstStat(p) \/ SecondStat(p) \/ ReadToken(p)
  \/ ClaimCheck(p) \/ ClaimRename(p) \/ ClaimVerify(p)
  \/ LegacyStat(p) \/ LegacyRename(p) \/ LegacyVerify(p)
  \/ ClaimFails(p) \/ Deadline(p)

Run(p) == Acquiring(p) \/ Releasing(p) \/ Waiting(p)

Next ==
  \/ \E p \in Proc : \/ Run(p) \/ Start(p) \/ Heartbeat(p)
                     \/ Expire(p) \/ Crash(p) \/ Restart(p)
  \/ GoStale

Spec == Init /\ [][Next]_vars

\* A process that is not suspended takes its next step, and clocks advance. The
\* first is WF_vars(Run(p)), said with pc: wherever p is neither idle nor dead a
\* step of Run(p) is possible, and it moves p.
Fairness ==
  /\ \A p \in Proc :
       /\ []<>(pc[p] \in {"idle", "dead"}) \/ []<><<pc'[p] # pc[p]>>_vars
       /\ WF_vars(Expire(p))
  /\ WF_vars(GoStale)

FairSpec == Spec /\ Fairness

------------------------------------------------------------------------------
(* Properties *)

\* Mutual exclusion of the sections the lock guards (withWorkflowRecordLock,
\* withStoreStateLock): until a race is lost, two processes never hold the lock
\* at once, but for an owner whose lock looked stale while it slept.
MutualExclusion ==
  ~raced => \A p, q \in Proc \ slept : pc[p] = "held" /\ pc[q] = "held" => p = q

\* p has acquired the lock and was awake ever since.
Live(p) == pc[p] \in Holding /\ p \notin slept

HasLock(p) ==
  /\ dir # NoDir /\ dir.maker = p
  /\ pc[p] \in {"held", "relCheck", "relRename"} => Owned(dir, token[p])

\* Until a race is lost, the lock of a process that was awake is the one at the
\* lock path, with its own token, from the token write to the rename of its
\* release: nobody who looks before it acts takes it away.
HolderKeepsLock == ~raced => \A p \in Proc : Live(p) => HasLock(p)

\* What makes it inductive. A process that was not overtaken works on its own
\* directory when it sets a lock up or removes it ...
WorksOnItsOwn ==
  \A p \in Proc \ overtaken :
    pc[p] \in {"write", "undo", "relRename"} /\ dir # NoDir => dir.maker = p

\* ... and a token names the process that made the directory it is in, ...
TokenNamesMaker ==
  \A p \in Proc : token[p] # NoToken =>
    /\ dir # NoDir /\ dir.tok = token[p] => dir.maker = p
    /\ \A q \in Proc : aside[q] # NoDir /\ aside[q].tok = token[p] => aside[q].maker = p

\* ... only a lock whose maker has gone or slept looks stale, ...
OnlyOrphansAreStale == dir # NoDir /\ dir.stale => ~Live(dir.maker)

\* ... and a waiter that was not overtaken claims such a lock, or one whose token
\* it will find replaced.
ClaimsTargetOrphans ==
  \A q \in Proc \ overtaken :
    /\ dir # NoDir
    /\ \/ pc[q] \in {"readTok", "rename", "legacyRename"}
       \/ pc[q] = "check" /\ dir.tok = claim[q]
    => ~Live(dir.maker)

Locks ==
  /\ \A p \in Proc : Live(p) => HasLock(p)
  /\ WorksOnItsOwn
  /\ TokenNamesMaker
  /\ OnlyOrphansAreStale
  /\ ClaimsTargetOrphans

IInv == TypeOK /\ (~raced => Locks)

\* A release that succeeds removed the very directory its process created, even
\* if the process slept in its section and lost the lock in the meantime: until
\* a race is lost, a successor's lock is not taken for one's own.
ReleaseIsTruthful ==
  [][\A p \in Proc :
       ~raced /\ ReleaseVerify(p) /\ Owned(aside[p], token[p]) => aside[p].maker = p]_vars

\* What a stale observer or a former owner deletes is what it checked, and not a
\* replacement whose maker has the lock (the comment on removeWorkflowLockIfOwned).
ReplacementSurvives ==
  [][\A p \in Proc :
       aside[p] # NoDir /\ pc[aside[p].maker] \in Holding
         => /\ ClaimVerify(p) => Owned(aside[p], claim[p])
            /\ ReleaseVerify(p) => Owned(aside[p], token[p])]_vars

\* Every attempt to acquire ends: granted, timed out or failed.
AcquireReturns ==
  \A p \in Proc : pc[p] = "mkdir" ~> pc[p] \in {"held", "idle", "dead"}

\* A lock whose owner is gone does not block the others for ever: once crashes
\* and failed renames stop, and as long as commands go on waiting for it, it is
\* reclaimed.
Orphaned == dir # NoDir /\ pc[dir.maker] \notin Holding
OrphanIsReclaimed ==
  /\ <>[](\A p \in Proc : pc[p] # "dead")
  /\ <>[][\A p \in Proc : dir # NoDir => ~ClaimFails(p)]_vars
  /\ []<>(\E p \in Proc : pc[p] = "stat1")
  => []<>~Orphaned

\* Until a race is lost NamedLock implements Mutex: the owner is the maker of
\* the directory at the lock path, and the working processes are the ones whose
\* body runs. An owner that sleeps for as long as a lock needs to look stale has
\* left the section as far as the others can tell.
M == INSTANCE Mutex WITH
       owner   <- IF dir = NoDir THEN NoDir ELSE dir.maker,
       Nobody  <- NoDir,
       working <- {p \in Proc \ slept : pc[p] = "held"}
ImplementsMutex == M!Init /\ [][raced' \/ M!Next]_(M!vars)
==============================================================================
