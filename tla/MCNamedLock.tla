----------------------------- MODULE MCNamedLock -----------------------------
(***************************************************************************)
(* Instances of NamedLock for TLC. Tokens and inodes are reused when no    *)
(* longer in use, so a finite set stands for an endless supply.            *)
(***************************************************************************)
EXTENDS NamedLock
==============================================================================
