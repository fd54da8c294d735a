----------------------------- MODULE MCTaskImport -----------------------------
(* Model-checking instance of TaskImport: batches of two entries. *)
EXTENDS TaskImport

Entry(p, d, s) == [parent |-> p, deps |-> d, status |-> s]

\* A child listed before its parent; tasks that wait for the other entry, for a
\* child of task 1, and, itself a child of task 1, for task 2.
First == {Entry(Named(2), {}, "Open"), Entry(NoRef, {Named(2)}, "Open"),
          Entry(NoRef, {<<1, 1>>}, "Open"), Entry(<<1, 0>>, {<<2, 0>>}, "Open")}

\* A task that waits for the first entry, one that is over, a child of task 1.
Second == {Entry(NoRef, {Named(1)}, "Open"), Entry(NoRef, {}, "Cancelled"),
           Entry(<<1, 0>>, {}, "Open")}

Pairs == {<<e, f>> : e \in First, f \in Second}
==============================================================================
