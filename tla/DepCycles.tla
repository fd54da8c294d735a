------------------------------ MODULE DepCycles ------------------------------
(***************************************************************************)
(* taskDependencyCycles: the depth-first search that looks for circles of   *)
(* unfinished tasks that wait for each other. dep add, create and import    *)
(* refuse when it reports one, status and doctor print what it reports. It  *)
(* skips what it has visited, so it does not list every circle, and which   *)
(* ones it lists depends on where it begins and on the order of the         *)
(* dependencies. The search is one action per call, per dependency and per  *)
(* return, over an arbitrary graph and in an arbitrary order.               *)
(***************************************************************************)
EXTENDS Naturals, Sequences

CONSTANT Node  \* task IDs, of records that exist or are only named as dependencies

VARIABLES
  byID,     \* the dependencies of each unfinished task
  path,     \* the tasks whose calls of dfs are running, outermost first
  left,     \* the dependencies that such a call has still to follow
  visited,  \* the tasks whose calls have returned
  cycles    \* the circles reported

search == <<byID, path, left, visited, cycles>>

Graph == UNION {[S -> SUBSET Node] : S \in SUBSET Node}

SearchInit ==
  /\ byID \in Graph
  /\ path = <<>>
  /\ left = [n \in Node |-> {}]
  /\ visited = {}
  /\ cycles = {}

\* visiting.
Visiting == {path[i] : i \in 1 .. Len(path)}

\* The call that runs, when there is one.
Current == path[Len(path)]

\* A call of dfs for an unfinished task that was not met before.
Enter(n) ==
  /\ path' = Append(path, n)
  /\ left' = [left EXCEPT ![n] = byID[n]]
  /\ UNCHANGED <<byID, visited, cycles>>

\* The loop over all tasks. The IDs are sorted; as the graph is arbitrary, any
\* order is some sorting of it. Calls for visited tasks do nothing.
EnterRoot ==
  /\ path = <<>>
  /\ \E n \in DOMAIN byID \ visited : Enter(n)

EnterDependency ==
  /\ path # <<>>
  /\ \E n \in (left[Current] \cap DOMAIN byID) \ (Visiting \cup visited) :
       /\ path' = Append(path, n)
       /\ left' = [left EXCEPT ![Current] = @ \ {n}, ![n] = byID[n]]
       /\ UNCHANGED <<byID, visited, cycles>>

\* dfs returns at once: the task was visited, is finished or does not exist.
SkipDependency ==
  /\ path # <<>>
  /\ \E n \in left[Current] \ Visiting :
       /\ n \in visited \/ n \notin DOMAIN byID
       /\ left' = [left EXCEPT ![Current] = @ \ {n}]
       /\ UNCHANGED <<byID, path, visited, cycles>>

\* Mutant: the circle reported is the whole path.
ReportPath ==
  /\ path # <<>>
  /\ \E n \in left[Current] \cap Visiting :
       /\ cycles' = cycles \cup {path}
       /\ left' = [left EXCEPT ![Current] = @ \ {n}]
       /\ UNCHANGED <<byID, path, visited>>

\* Mutant: a task's loop ends with the first circle.
ReportOne ==
  /\ path # <<>>
  /\ \E n \in left[Current] \cap Visiting :
       \E start \in 1 .. Len(path) :
         /\ path[start] = n
         /\ cycles' = cycles \cup {SubSeq(path, start, Len(path))}
         /\ left' = [left EXCEPT ![Current] = {}]
         /\ UNCHANGED <<byID, path, visited>>

\* The task is on the path: from there the path, and back to it, is a circle. The
\* code repeats its first task at its end.
ReportCircle ==
  /\ path # <<>>
  /\ \E n \in left[Current] \cap Visiting :
       \E start \in 1 .. Len(path) :
         /\ path[start] = n
         /\ cycles' = cycles \cup {SubSeq(path, start, Len(path))}
         /\ left' = [left EXCEPT ![Current] = @ \ {n}]
         /\ UNCHANGED <<byID, path, visited>>

Return ==
  /\ path # <<>>
  /\ left[Current] = {}
  /\ visited' = visited \cup {Current}
  /\ path' = SubSeq(path, 1, Len(path) - 1)
  /\ UNCHANGED <<byID, left, cycles>>

\* The report is complete. Nothing else stops a search: it is never stuck.
SearchEnds == path = <<>> /\ DOMAIN byID \subseteq visited

SearchStop == SearchEnds /\ UNCHANGED search

SearchNext ==
  EnterRoot \/ EnterDependency \/ SkipDependency \/ ReportCircle \/ Return \/ SearchStop

SearchSpec == SearchInit /\ [][SearchNext]_search

------------------------------------------------------------------------------
(* Properties *)

\* Each task of S is unfinished and waits for another of them, or for itself.
Circular(S) == S \subseteq DOMAIN byID /\ \A n \in S : byID[n] \cap S # {}

\* What is reported is a circle: each of its tasks, all different and unfinished,
\* waits for the next one, and the last for the first (validation_deps.go:129-137).
IsCircle(c) ==
  /\ c # <<>>
  /\ c \in Seq(DOMAIN byID)
  /\ \A i \in 1 .. Len(c) :
       /\ c[IF i = Len(c) THEN 1 ELSE i + 1] \in byID[c[i]]
       /\ \A j \in 1 .. Len(c) : c[i] = c[j] => i = j

ReportsAreCircles == \A c \in cycles : IsCircle(c)

\* The steps from the last task of a reported circle to its first.
Closing == {<<c[Len(c)], c[1]>> : c \in cycles}

\* Every circle has a step in common with the report, though it need not be listed
\* itself: who removes the last dependency of every reported circle has no circle
\* left. So nothing is reported only if there is none, whatever was pruned
\* (validation_deps.go:138-140).
Broken(S) == \E n \in S : \A m \in byID[n] \cap S : <<n, m>> \in Closing

ReportsCutEveryCircle ==
  SearchEnds => \A S \in (SUBSET DOMAIN byID) \ {{}} : Broken(S)

\* What makes them inductive. The path is a chain of dependencies of tasks that
\* are not visited; what a task was followed to is visited, is the next task of the
\* path, or closes a reported circle; and no circle of visited tasks is whole.
PathIsChain ==
  /\ path \in Seq(DOMAIN byID)
  /\ \A i \in 1 .. Len(path) :
       /\ path[i] \notin visited
       /\ \A j \in 1 .. Len(path) : path[i] = path[j] => i = j
       /\ i < Len(path) => path[i + 1] \in byID[path[i]]

Typed ==
  /\ byID \in Graph
  /\ left \in [Node -> SUBSET Node]
  /\ visited \in SUBSET DOMAIN byID
  /\ \A n \in Node : left[n] # {} => n \in Visiting /\ left[n] \subseteq byID[n]

Followed ==
  /\ \A n \in visited : \A m \in byID[n] \cap DOMAIN byID :
       m \in visited \/ <<n, m>> \in Closing
  /\ \A i \in 1 .. Len(path) : \A m \in (byID[path[i]] \ left[path[i]]) \cap DOMAIN byID :
       \/ m \in visited
       \/ <<path[i], m>> \in Closing
       \/ i < Len(path) /\ m = path[i + 1]

VisitedIsCut == \A S \in (SUBSET visited) \ {{}} : Broken(S)

SearchInv ==
  Typed /\ PathIsChain /\ Followed /\ VisitedIsCut /\ ReportsAreCircles
==============================================================================
