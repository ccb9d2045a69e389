--------------------------- MODULE ReferenceStore ---------------------------
(***************************************************************************)
(* What the engine promises about references, without edges, types, reads  *)
(* or stale clients: every live node has, under each field name, a set of  *)
(* nodes it refers to.  A write of one node changes the values of that     *)
(* node and of nobody else, except that a mirrored name is one relation    *)
(* seen from both ends.  A node that others refer to cannot be deleted, so *)
(* a delete changes no value but its own.                                  *)
(*                                                                         *)
(* NodeGraph implements it with one edge row per reference.                *)
(***************************************************************************)

CONSTANTS
    Node,      \* ids
    Name,      \* names of reference fields
    Mirrored   \* the names of undirected fields

VARIABLES
    live,      \* the ids in use
    value      \* value[n][f]: the nodes that n refers to under the name f

storeVars == <<live, value>>

Nothing == [f \in Name |-> {}]

Init ==
    /\ live = {}
    /\ value = [n \in Node |-> Nothing]

\* What m refers to under f once n refers to exactly the nodes in new.
Mirror(m, f, n, new) ==
    IF f \in Mirrored
    THEN (value[m][f] \ {n}) \cup (IF m \in new THEN {n} ELSE {})
    ELSE value[m][f]

\* n gets other references, to live nodes and in a mirrored field not to
\* itself; the other nodes follow.
Refer(n) ==
    /\ \A f \in Name : /\ value'[n][f] \subseteq live'
                       /\ f \in Mirrored => n \notin value'[n][f]
    /\ value' = [m \in Node |-> [f \in Name |->
                    IF m = n THEN value'[n][f] ELSE Mirror(m, f, n, value'[n][f])]]

Create(n) ==
    /\ n \notin live
    /\ live' = live \cup {n}
    /\ Refer(n)

Write(n) ==
    /\ n \in live
    /\ UNCHANGED live
    /\ Refer(n)

Delete(n) ==
    /\ n \in live
    /\ \A m \in live \ {n} : \A f \in Name : n \notin value[m][f]
    /\ live' = live \ {n}
    /\ value' = [value EXCEPT ![n] = Nothing]

Next == \E n \in Node : Create(n) \/ Write(n) \/ Delete(n)

Spec == Init /\ [][Next]_storeVars
=============================================================================
