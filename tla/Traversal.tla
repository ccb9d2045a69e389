------------------------------ MODULE Traversal ------------------------------
(***************************************************************************)
(* Walks over one relation (core/traverse.go) and the in-memory tree       *)
(* (core/tree.go).  The recursive SQL queries extend paths: a step goes to *)
(* a node that is not yet on the path, and a path has at most maxHops      *)
(* steps.  The rows they follow are chosen by field name alone.            *)
(*                                                                         *)
(* A definition that a comment calls a slip is not part of the model: it   *)
(* is a plausible mistake in the definition that follows it.               *)
(***************************************************************************)
EXTENDS NodeQuery

\* Steps of the three walks.
Along(D, name) == {<<e.from, e.to>> : e \in {d \in D.edges : d.field = name}}
Against(D, name) == {<<e.to, e.from>> : e \in {d \in D.edges : d.field = name}}
Across(D, name) ==
    LET S == {d \in D.edges : d.field = name /\ d.symmetric}
    IN  {<<e.from, e.to>> : e \in S} \cup {<<e.to, e.from>> : e \in S}

\* Slip: the bound is tested after the step (depth =< maxHops).
PathsOneTooLong(R, first, maxHops) ==
    LET P[d \in 0 .. maxHops + 1] ==
          IF d = 0 THEN first
          ELSE {Append(x[1], x[2][2]) : x \in {y \in P[d - 1] \X R :
                    /\ y[2][1] = Last(y[1]) /\ ~ Contains(y[1], y[2][2])}}
    IN  UNION {P[d] : d \in 0 .. maxHops + 1}

\* The rows of a walk that starts with the paths in first and makes at most
\* maxHops more steps.
Paths(R, first, maxHops) ==
    LET P[d \in 0 .. maxHops] ==
          IF d = 0 THEN first
          ELSE {Append(x[1], x[2][2]) : x \in {y \in P[d - 1] \X R :
                    /\ y[2][1] = Last(y[1]) /\ ~ Contains(y[1], y[2][2])}}
    IN  UNION {P[d] : d \in 0 .. maxHops}

\* The first row of Traverse, Subtree and Ancestors is one step long already;
\* an edge from the start to itself is such a step.
FirstSteps(R, start) == {<<r[1], r[2]>> : r \in {q \in R : q[1] = start}}

Ends(P) == {Last(p) : p \in P}

Traverse(D, start, name, maxHops) ==
    LET R == Along(D, name) IN Ends(Paths(R, FirstSteps(R, start), maxHops - 1))

Subtree(D, start, name, maxHops) ==
    LET R == Against(D, name) IN Ends(Paths(R, FirstSteps(R, start), maxHops - 1))

EquivalenceClass(D, start, name, maxHops) ==
    Ends(Paths(Across(D, name), {<<start>>}, maxHops))

\* Ancestors: the ids with their depths; the deepest comes first, and a node
\* reached along two paths comes twice.
AncestorRows(D, start, name, maxHops) ==
    LET R == Along(D, name)
    IN  {[id |-> Last(p), depth |-> Len(p) - 1] : p \in Paths(R, FirstSteps(R, start), maxHops - 1)}

\* validateTraversal.
WalkIsAccepted(D, type, start, name, maxHops, equivalence) ==
    /\ maxHops \in 1 .. 100
    /\ \E f \in FieldsOf(type) :
         /\ f.name = name
         /\ IF equivalence THEN f.equivalence ELSE f.transitive \/ f.parent
    /\ start \in Rows(D) /\ D.nodes[start].type = type

-----------------------------------------------------------------------------
(***************************************************************************)
(* LoadTree: the nodes of a type that a scope lets through, and the parent *)
(* edges between them.  A node whose parent is not loaded becomes a root.  *)
(***************************************************************************)

\* Slip: a parent outside the scope is still a parent.
LoadTreeKeepParents(D, type, scope) ==
    LET name == (CHOOSE f \in FieldsOf(type) : f.parent).name
    IN  [nodes |-> Matches(D, type, scope, NoExpr),
         parent |-> {<<e.from, e.to>> : e \in {d \in D.edges :
                        d.field = name /\ D.nodes[d.from].type = type}}]

LoadTree(D, type, scope) ==
    LET name == (CHOOSE f \in FieldsOf(type) : f.parent).name
        shown == Matches(D, type, scope, NoExpr)
    IN  [nodes |-> shown,
         parent |-> {<<e.from, e.to>> : e \in {d \in D.edges :
                        /\ d.field = name /\ D.nodes[d.from].type = type
                        /\ {d.from, d.to} \subseteq shown}}]

Children(T, n) == {m \in T.nodes : <<m, n>> \in T.parent}
Parent(T, n) == {m \in T.nodes : <<n, m>> \in T.parent}
Roots(T) == {n \in T.nodes : \A m \in NodeId : <<n, m>> \notin T.parent}

\* Ancestors of the tree, the node itself first: the chain of parents, cut
\* when it is longer than the tree.
Chain(T, n) ==
    LET Up[i \in 0 .. Cardinality(T.nodes)] ==
          IF i = 0 THEN <<n>>
          ELSE LET c == Up[i - 1]
                   p == Parent(T, Last(c))
               IN  IF Len(c) < i \/ p = {} THEN c ELSE Append(c, CHOOSE m \in p : TRUE)
    IN  Up[Cardinality(T.nodes)]

\* SubtreeIDs, Subtree and JsonNodes call themselves for every child and do
\* not note where they have been.  Begun at S they never return when they come
\* upon nodes each of which calls another of them.
Returns(T, S) ==
    ~ \E C \in SUBSET T.nodes :
        /\ C \cap S # {}
        /\ \A m \in C : Children(T, m) \cap C # {}

\* What such a walk has collected when it returns.
Below(T, S) ==
    LET Down[i \in 0 .. Cardinality(T.nodes)] ==
          IF i = 0 THEN S ELSE Down[i - 1] \cup UNION {Children(T, n) : n \in Down[i - 1]}
    IN  Down[Cardinality(T.nodes)]

SubtreeIDs(T, n) == Below(T, {n})
JsonNodes(T) == Below(T, Roots(T))

\* resolveSet: the ids of a tree node and of what hangs below it, as far as
\* the walk reaches.
SubtreeSet(D, type, root, maxHops) ==
    {root} \cup Subtree(D, root, (CHOOSE f \in FieldsOf(type) : f.parent).name, maxHops)
=============================================================================
