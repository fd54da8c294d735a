---------------------------- MODULE MCStoreMigrate ----------------------------
(* Model-checking instance of StoreMigrate. *)
EXTENDS StoreMigrate, TLC

\* Commands, tasks and contents are interchangeable.
Symmetric == Permutations(Cmd) \cup Permutations(Task) \cup Permutations(Data)

\* The tasks that any file tells of.
Known == marks \cup {p[2] : p \in UNION UNION {index[l] \cup {Present(l)} : l \in Layout}}

\* The bound of the run: a command by itself has two records to work on, two at the
\* same time have one, in the active bucket, and no mishap behind them.
Bound ==
  LET records == UNION {Present(l) : l \in Layout}
      busy    == {c \in Cmd : pc[c] # "idle"}
  IN  \/ Cardinality(busy) <= 1 /\ Cardinality(records) <= 2
      \/ /\ Cardinality(Known) <= 1
         /\ records \subseteq {"active"} \X Task
         /\ mishaps = 0
==============================================================================
