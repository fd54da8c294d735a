--------------------------- MODULE MCTaskLifecycle ---------------------------
(* Model-checking instance of TaskLifecycle. *)
EXTENDS TaskLifecycle, TLC

\* Tasks are interchangeable.
Symmetric == Permutations(Task)
==============================================================================
