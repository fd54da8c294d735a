--------------------------- MODULE MCStoreRegistry ---------------------------
(* Model-checking instance of StoreRegistry. *)
EXTENDS StoreRegistry, TLC

\* Commands and projects are interchangeable.
Symmetric == Permutations(Cmd) \cup Permutations(Key)
==============================================================================
