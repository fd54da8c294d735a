---------------------------- MODULE MCDependencies ----------------------------
(***************************************************************************)
(* Model-checking instance of TaskLifecycle and of DepCycles, the search   *)
(* for cycles that its commands rely on. A behaviour is one of the records *)
(* or one of the search, which is called with any graph.                   *)
(***************************************************************************)
EXTENDS TaskLifecycle, DepCycles, TLC

VARIABLE view

BothInit ==
  /\ view \in {"records", "search"}
  /\ Init
  /\ SearchInit
  /\ view = "records" => DOMAIN byID = {}

BothNext ==
  \/ view = "records" /\ Next /\ UNCHANGED <<search, view>>
  \/ view = "search" /\ SearchNext /\ UNCHANGED <<vars, view>>

BothSpec == BothInit /\ [][BothNext]_<<vars, search, view>>

\* Tasks, which are the nodes too, are interchangeable.
Symmetric == Permutations(Task)
===============================================================================
