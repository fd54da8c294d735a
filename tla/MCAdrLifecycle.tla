---------------------------- MODULE MCAdrLifecycle ----------------------------
(* Model-checking instance of AdrLifecycle. *)
EXTENDS AdrLifecycle
===============================================================================
