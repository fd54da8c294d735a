------------------------------ MODULE MCTaskIds ------------------------------
(***************************************************************************)
(* Instance of TaskIds for TLC that checks both modes in one run: inStore  *)
(* is chosen at the start and says whose actions are taken, those of a     *)
(* project whose records live in the store (Home) or those of one that     *)
(* keeps them itself (Local). The properties of TaskIds hold in both.      *)
(***************************************************************************)
EXTENDS TaskIds, TLC

ASSUME HomeAssumption == Home

VARIABLE inStore

Local == INSTANCE TaskIds WITH Home <- FALSE

MCInit == inStore \in BOOLEAN /\ Init

MCNext ==
  /\ \/ inStore /\ Next
     \/ ~inStore /\ Local!Next
  /\ UNCHANGED inStore

MCSpec == MCInit /\ [][MCNext]_<<vars, inStore>>

\* Commands are interchangeable.
Symmetric == Permutations(Cmd)
==============================================================================
