------------------------------ MODULE AtomicFile ------------------------------
(***************************************************************************)
(* What writeFileAtomic promises of one file: somebody who reads it sees   *)
(* the whole content of one write, also after a power loss; a write that   *)
(* was reported as done stays done; one that was not is there as a whole   *)
(* or not at all.                                                          *)
(***************************************************************************)
CONSTANTS
  Writer,   \* the writes: each one writes a content of its own
  Absent    \* there is no file

VARIABLES
  value,     \* what a reader finds
  kept,      \* what a power loss may leave of the file
  anchored,  \* the directory itself is sure to survive one
  phase      \* phase[w]: nothing is under way ("idle", or "done" after a
             \* success), w has not yet replaced the file, or it has

vars == <<value, kept, anchored, phase>>

Init ==
  /\ value = Absent /\ kept = {Absent}
  /\ anchored \in BOOLEAN
  /\ phase = [w \in Writer |-> "idle"]

Begin(w) ==
  /\ phase[w] \in {"idle", "done"} /\ phase' = [phase EXCEPT ![w] = "pending"]
  /\ UNCHANGED <<value, kept, anchored>>

Replace(w) ==
  /\ phase[w] = "pending" /\ phase' = [phase EXCEPT ![w] = "replaced"]
  /\ value' = w /\ kept' = kept \cup {w}
  /\ UNCHANGED anchored

\* Success: from now on nothing older than this write comes back.
Acknowledge(w) ==
  /\ phase[w] = "replaced" /\ phase' = [phase EXCEPT ![w] = "done"]
  /\ kept' = {value}
  /\ UNCHANGED <<value, anchored>>

\* An error, or the end of the process.
Fail(w) ==
  /\ phase[w] \in {"pending", "replaced"} /\ phase' = [phase EXCEPT ![w] = "idle"]
  /\ UNCHANGED <<value, kept, anchored>>

Anchor == anchored' = TRUE /\ UNCHANGED <<value, kept, phase>>

PowerLoss ==
  /\ value' \in kept \cup (IF anchored THEN {} ELSE {Absent})
  /\ kept' = {value'}
  /\ phase' = [w \in Writer |-> "idle"]
  /\ UNCHANGED anchored

Next ==
  \/ \E w \in Writer : Begin(w) \/ Replace(w) \/ Acknowledge(w) \/ Fail(w)
  \/ Anchor \/ PowerLoss

Spec == Init /\ [][Next]_vars
===============================================================================
