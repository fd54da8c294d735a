----------------------------- MODULE MCRecordFile -----------------------------
(***************************************************************************)
(* Model-checking instance of AtomicWrite and of TaskBody: how the file of *)
(* a record is replaced, and what its body keeps. A behaviour is one of    *)
(* the file or one of the body.                                            *)
(***************************************************************************)
EXTENDS AtomicWrite, TaskBody, TLC

VARIABLE view

\* A plain section, and the protected ones at both depths.
Headings == {HeadingLine(2, "Plan"), HeadingLine(2, Comments), HeadingLine(3, Comments),
             HeadingLine(3, CancellationReason)}

\* Two comments, in the order they are made.
Entries == <<"first", "second">>

BothInit ==
  /\ view \in {"file", "body"}
  /\ Init
  /\ BodyInit
  /\ view = "file" => body = CHOOSE text \in AuthorText : TRUE

BothNext ==
  \/ view = "file" /\ Next /\ UNCHANGED <<bodyVars, view>>
  \/ view = "body" /\ BodyNext /\ UNCHANGED <<vars, view>>

BothSpec == BothInit /\ [][BothNext]_<<vars, bodyVars, view>>

Symmetric == Permutations(Writer)
===============================================================================
