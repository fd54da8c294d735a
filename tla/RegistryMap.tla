------------------------------ MODULE RegistryMap ------------------------------
(***************************************************************************)
(* What the store registry promises: a map from project keys to the        *)
(* directory of their records and the paths they were seen at, in which    *)
(* every command changes one entry, in one step, from its current value.   *)
(* A directory, once registered, stays while its entry does.               *)
(* StoreRegistry implements this specification.                            *)
(***************************************************************************)
CONSTANTS
  Key,    \* projects
  Dir,    \* directories of the store
  Path,   \* paths of checkouts
  NoDir,  \* an entry that records no directory
  None    \* no entry

VARIABLE entry    \* entry[k]: the directory and the paths of project k, or None

Entry == [dir : Dir \cup {NoDir}, paths : SUBSET Path]

Init == entry \in [Key -> Entry \cup {None}]

\* Project k was seen at the paths ps, by a command that works in directory d.
Observe(k, d, ps) ==
  entry' = [entry EXCEPT ![k] =
    IF entry[k] = None THEN [dir |-> d, paths |-> ps]
    ELSE [dir   |-> IF entry[k].dir = NoDir THEN d ELSE entry[k].dir,
          paths |-> entry[k].paths \cup ps]]

Remove(k) ==
  /\ entry[k] # None
  /\ entry' = [entry EXCEPT ![k] = None]

RemovePath(k, p) ==
  /\ entry[k] # None
  /\ p \in entry[k].paths
  /\ entry' = [entry EXCEPT ![k] = [dir |-> entry[k].dir, paths |-> entry[k].paths \ {p}]]

Next ==
  \E k \in Key :
    \/ \E d \in Dir, ps \in SUBSET Path : Observe(k, d, ps)
    \/ Remove(k)
    \/ \E p \in Path : RemovePath(k, p)

Spec == Init /\ [][Next]_entry
==============================================================================
