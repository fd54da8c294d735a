----------------------------- MODULE MCTaskScan -----------------------------
(* Model-checking instance of TaskScan. *)
EXTENDS TaskScan
==============================================================================
