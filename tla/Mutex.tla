-------------------------------- MODULE Mutex --------------------------------
(***************************************************************************)
(* What a named lock promises to the commands that take it, without files: *)
(* one owner at a time, work only by the owner, and an owner that no       *)
(* longer works (it released the lock, failed to, or died) may lose it.    *)
(* NamedLock implements this specification.                                *)
(***************************************************************************)
CONSTANTS
  Proc,     \* the processes that contend for the lock
  Nobody    \* the owner of a free lock

VARIABLES
  owner,    \* the process that has the lock, or Nobody
  working   \* the processes inside the section that the lock guards

vars == <<owner, working>>

TypeOK ==
  /\ owner \in Proc \cup {Nobody}
  /\ working \in SUBSET Proc

Init ==
  /\ owner = Nobody
  /\ working = {}

Acquire(p) ==
  /\ owner = Nobody
  /\ owner' = p
  /\ UNCHANGED working

Enter(p) ==
  /\ owner = p
  /\ working' = working \cup {p}
  /\ UNCHANGED owner

\* The section ends: the command returned, or its process died in it.
Leave(p) ==
  /\ p \in working
  /\ working' = working \ {p}
  /\ UNCHANGED owner

\* The lock becomes free, by its owner's release or by the reclamation of the
\* lock of an owner that is gone. Nobody may free the lock of a working owner.
Free ==
  /\ owner # Nobody
  /\ owner \notin working
  /\ owner' = Nobody
  /\ UNCHANGED working

Next ==
  \/ \E p \in Proc : Acquire(p) \/ Enter(p) \/ Leave(p)
  \/ Free

Spec == Init /\ [][Next]_vars

\* At most one process works at a time, and it is the owner.
OnlyOwnerWorks == working \subseteq {owner}
==============================================================================
