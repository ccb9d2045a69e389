---------------------------- MODULE Reachability ----------------------------
(***************************************************************************)
(* Reachability over a set of pairs, in the form the engine's recursive    *)
(* common table expressions compute it: the least set that holds the start *)
(* vertex and is closed under the pairs.                                   *)
(***************************************************************************)

\* A set of vertices that no pair of R leaves.
Closed(R, S) == \A p \in R : p[1] \in S => p[2] \in S

\* b is reached from a in zero or more steps of R: it lies in every closed
\* set of vertices that contains a (WITH RECURSIVE ... UNION ...).
Reaches(R, V, a, b) ==
    \A S \in SUBSET V : (a \in S /\ Closed(R, S)) => b \in S

\* No pair of R lies on a cycle.
IsAcyclic(R, V) == \A p \in R : ~ Reaches(R, V, p[2], p[1])
=============================================================================
