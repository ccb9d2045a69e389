------------------------------ MODULE EdgeTable ------------------------------
(***************************************************************************)
(* How a set of edge rows is read, and which rows the constraints on the   *)
(* edges table let in.  An edge is a record with from, field, to and the   *)
(* two stored flags single and symmetric.                                  *)
(***************************************************************************)

\* The ends of an edge whose field it fills: both, when it is undirected.
Owners(e) == {e.from} \cup (IF e.symmetric THEN {e.to} ELSE {})
OtherEnd(e, n) == IF e.from = n THEN e.to ELSE e.from

\* The edges that hydrateFields reads into one reference field of a node.
RefEdges(E, n, name) == {e \in E : e.field = name /\ n \in Owners(e)}
RefValue(E, n, name) == {OtherEnd(e, n) : e \in RefEdges(E, n, name)}

\* The unique constraint, the partial unique index on single references and
\* the trigger on symmetric single references.
EdgeIsUnique(E, e) ==
    \A d \in E : ~ (d.from = e.from /\ d.field = e.field /\ d.to = e.to)

\* Slip: the two unique indexes without the trigger.
SingleRefIsFreeAtEqualEnds(E, e) ==
    e.single =>
        \A d \in E : d.single /\ d.field = e.field =>
            /\ d.from # e.from
            /\ d.symmetric /\ e.symmetric => d.to # e.to

SingleRefIsFree(E, e) ==
    e.single =>
        \A d \in E : d.single /\ d.field = e.field =>
            /\ d.from # e.from
            /\ d.symmetric /\ e.symmetric =>
                 {d.from, d.to} \cap {e.from, e.to} = {}
=============================================================================
