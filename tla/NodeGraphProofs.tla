-------------------------- MODULE NodeGraphProofs ---------------------------
(***************************************************************************)
(* What the model checker finds on small schemas, proved for every schema  *)
(* and every number of nodes, revisions and clients: types, the rows and   *)
(* the index after any interleaving, how many edges a field has and in     *)
(* which order they are stored, that a transitive relation has no cycle,   *)
(* and that the edge table implements the reference store.                 *)
(***************************************************************************)
EXTENDS NodeGraph, TLAPS

-----------------------------------------------------------------------------
(***************************************************************************)
(* Types.  TypeOK alone is not inductive: GetNode puts the generation of a *)
(* live node in pending, so a live node must have been created once.       *)
(***************************************************************************)
LiveIsGenerated == \A n \in Live(nodes) : generation[n] \in 1 .. MaxGeneration

TypeInv == TypeOK /\ LiveIsGenerated

LEMMA NewEdgeType ==
    ASSUME NEW f \in Field, NEW n \in NodeId, NEW m \in NodeId
    PROVE  EdgeFor(f, n, m) \in Edge
<1>1. f \in FieldDef
  BY SchemaAssumption DEF SchemaAssumption
<1> QED
  BY <1>1 DEF EdgeFor, Edge, FieldDef, Undirected

LEMMA LinkTypes ==
    ASSUME NEW F \in SUBSET Field, NEW N, NEW L \in LinksOf(F, N), NEW n \in NodeId
    PROVE  /\ NewEdges(n, L) \in SUBSET Edge
           /\ \A l \in L : l[1] \in F /\ l[2] \in Live(N) /\ l[2] \in NodeId
<1>1. \A l \in L : l[1] \in F /\ l[2] \in Live(N) /\ l[2] \in NodeId
  BY DEF LinksOf, Live
<1> QED
  BY <1>1, NewEdgeType DEF NewEdges

\* A patch changes the row of a live node and of no other.
LEMMA PatchKeepsLive ==
    ASSUME TypeOK, NEW c \in Client, NEW F, NEW text \in Text, NEW L,
           PatchCommit(c, F, text, L)
    PROVE  /\ pending[c] \in Patch
           /\ pending[c].id \in Live(nodes)
           /\ Live(nodes') = Live(nodes)
           /\ \A m \in NodeId \ {pending[c].id} : nodes'[m] = nodes[m]
           /\ nodes'[pending[c].id] \in NodeRow
           /\ nodes'[pending[c].id] =
                 [type |-> nodes[pending[c].id].type,
                  revision |-> nodes[pending[c].id].revision + 1, text |-> text]
<1> DEFINE n == pending[c].id
           row == [type |-> nodes[n].type, revision |-> nodes[n].revision + 1,
                   text |-> text]
<1>1. pending[c] \in Patch
  BY DEF PatchCommit, TypeOK, Held, Patch, Add
<1>2. n \in NodeId /\ nodes[n] \in NodeRow
  BY <1>1 DEF PatchCommit, RevisionMatches, TypeOK, Live
<1>3. nodes' = [nodes EXCEPT ![n] = row]
  BY DEF PatchCommit
<1>4. row \in NodeRow
  <2>1. nodes[n].revision < MaxRevision
    BY DEF PatchCommit
  <2>2. nodes[n].revision + 1 \in 1 .. MaxRevision
    BY <1>2, <2>1, BoundAssumption DEF NodeRow
  <2> QED
    BY <1>2, <2>2 DEF NodeRow
<1>5. nodes'[n] = row /\ \A m \in NodeId \ {n} : nodes'[m] = nodes[m]
  BY <1>2, <1>3 DEF TypeOK
<1>6. n \in Live(nodes) /\ Live(nodes') = Live(nodes)
  BY <1>2, <1>4, <1>5, ValueAssumption DEF Live
<1> QED
  BY <1>1, <1>4, <1>5, <1>6

\* A create fills a row that was empty, a delete empties one.
LEMMA CreateAddsRow ==
    ASSUME TypeOK, NEW id \in NextIds(nodes), NEW type \in Type, NEW text \in Text,
           NEW L, CreateNode(id, type, text, L)
    PROVE  /\ id \in NodeId \ Live(nodes)
           /\ nodes'[id] = [type |-> type, revision |-> 1, text |-> text]
           /\ nodes'[id] \in NodeRow
           /\ \A m \in NodeId \ {id} : nodes'[m] = nodes[m]
           /\ Live(nodes') = Live(nodes) \cup {id}
<1> DEFINE row == [type |-> type, revision |-> 1, text |-> text]
<1>1. id \in NodeId \ Live(nodes)
  BY DEF NextIds, NodeId
<1>2. row \in NodeRow
  BY BoundAssumption DEF NodeRow
<1>3. nodes' = [nodes EXCEPT ![id] = row]
  BY DEF CreateNode
<1>4. nodes'[id] = row /\ \A m \in NodeId \ {id} : nodes'[m] = nodes[m]
  BY <1>1, <1>3 DEF TypeOK
<1>5. Live(nodes') = Live(nodes) \cup {id}
  BY <1>1, <1>2, <1>4, ValueAssumption DEF Live
<1> QED
  BY <1>1, <1>2, <1>4, <1>5

LEMMA DeleteRemovesRow ==
    ASSUME TypeOK, NEW n \in NodeId, DeleteNode(n)
    PROVE  /\ n \in Live(nodes)
           /\ \A m \in NodeId \ {n} : nodes'[m] = nodes[m]
           /\ Live(nodes') = Live(nodes) \ {n}
  BY DEF DeleteNode, TypeOK, Live

LEMMA TypeInit == Init => TypeInv
  BY BoundAssumption DEF Init, TypeInv, TypeOK, LiveIsGenerated, Live

LEMMA TypeNext == TypeInv /\ [Next]_vars => TypeInv'
<1> SUFFICES ASSUME TypeInv, [Next]_vars PROVE TypeInv'
  OBVIOUS
<1> USE DEF TypeInv, TypeOK, LiveIsGenerated, Live
<1>1. ASSUME NEW id \in NextIds(nodes), NEW type \in Type, NEW text \in Text,
             NEW L \in LinksOf(FieldsOf(type), [nodes EXCEPT ![id] =
                     [type |-> type, revision |-> 1, text |-> text]]),
             CreateNode(id, type, text, L)
      PROVE TypeInv'
  <2> DEFINE row == [type |-> type, revision |-> 1, text |-> text]
  <2>1. id \in NodeId
    BY <1>1 DEF NextIds
  <2>2. row \in NodeRow
    BY BoundAssumption DEF NodeRow
  <2>3. NewEdges(id, L) \in SUBSET Edge
    BY <2>1, LinkTypes DEF FieldsOf
  <2>4. IndexText(row) \in Text \cup {NoText}
    BY DEF IndexText
  <2> QED
    BY <1>1, <2>1, <2>2, <2>3, <2>4, BoundAssumption DEF CreateNode
<1>2. ASSUME NEW c \in Client, NEW n \in NodeId, GetNode(c, n)
      PROVE TypeInv'
  <2>1. [op |-> "held", id |-> n, row |-> nodes[n], seen |-> generation[n]] \in Held
    BY <1>2 DEF GetNode, Held
  <2> QED
    BY <1>2, <2>1 DEF GetNode
<1>3. ASSUME NEW c \in Client, PatchRead(c) PROVE TypeInv'
  <2> DEFINE p == pending[c]
  <2>1. p \in Held
    BY <1>3 DEF PatchRead, Held, Patch, Add
  <2>2. [op |-> "patch", id |-> p.id, row |-> p.row, seen |-> p.seen,
         type |-> nodes[p.id].type, read |-> generation[p.id]] \in Patch
    BY <1>3, <2>1 DEF PatchRead, Held, Patch, NodeRow
  <2> QED
    BY <1>3, <2>2 DEF PatchRead
<1>4. ASSUME NEW c \in Client, NEW text \in Text,
             NEW F \in SUBSET Patchable(c), NEW L \in LinksOf(F, nodes),
             PatchCommit(c, F, text, L)
      PROVE TypeInv'
  <2> DEFINE n == pending[c].id
  <2>1. /\ n \in NodeId /\ Live(nodes') = Live(nodes)
        /\ nodes'[n] \in NodeRow
        /\ \A m \in NodeId \ {n} : nodes'[m] = nodes[m]
    BY <1>4, PatchKeepsLive
  <2>2. nodes' \in [NodeId -> NodeRow \cup {NoNode}]
    BY <1>4, <2>1 DEF PatchCommit
  <2>3. edges' \in SUBSET Edge
    BY <1>4, <2>1, LinkTypes DEF PatchCommit, Patchable
  <2>4. fts' \in [NodeId -> Text \cup {NoText}]
    BY <1>4, <2>1 DEF PatchCommit, IndexText, NodeRow
  <2> QED
    BY <1>4, <2>1, <2>2, <2>3, <2>4 DEF PatchCommit
<1>5. ASSUME NEW c \in Client, NEW n \in NodeId, AddEdgeRead(c, n)
      PROVE TypeInv'
  <2>1. [op |-> "addEdge", id |-> n, type |-> nodes[n].type,
         read |-> generation[n]] \in Add
    BY <1>5 DEF AddEdgeRead, Add, NodeRow
  <2> QED
    BY <1>5, <2>1 DEF AddEdgeRead
<1>6. ASSUME NEW c \in Client, NEW f \in Field, NEW to \in NodeId,
             AddEdgeCommit(c, f, to)
      PROVE TypeInv'
  <2>1. pending[c].id \in NodeId
    BY <1>6 DEF AddEdgeCommit, Held, Patch, Add
  <2>2. EdgeFor(f, pending[c].id, to) \in Edge
    BY <2>1, NewEdgeType
  <2> QED
    BY <1>6, <2>1, <2>2 DEF AddEdgeCommit
<1>7. ASSUME NEW e \in edges, RemoveEdge(e) PROVE TypeInv'
  BY <1>7 DEF RemoveEdge
<1>8. ASSUME NEW n \in NodeId, DeleteNode(n) PROVE TypeInv'
  BY <1>8 DEF DeleteNode
<1>9. ASSUME NEW c \in Client, Abort(c) PROVE TypeInv'
  BY <1>9 DEF Abort
<1>10. CASE UNCHANGED vars
  BY <1>10 DEF vars
<1> QED
  BY <1>1, <1>2, <1>3, <1>4, <1>5, <1>6, <1>7, <1>8, <1>9, <1>10 DEF Next

\* Every row, edge, index entry and pending call has its type at every step:
\* no handler reads a row that is not there.
THEOREM Typing == Spec => []TypeOK
<1>1. TypeInv => TypeOK
  BY DEF TypeInv
<1> QED
  BY <1>1, TypeInit, TypeNext, PTL DEF Spec

-----------------------------------------------------------------------------
(***************************************************************************)
(* Edges and their ends.                                                   *)
(***************************************************************************)
LEMMA EdgeForEnds ==
    ASSUME NEW f, NEW from, NEW to
    PROVE  LET e == EdgeFor(f, from, to)
           IN  /\ e.field = f.name
               /\ e.single = f.single
               /\ e.symmetric = Undirected(f)
               /\ \/ e.from = from /\ e.to = to
                  \/ e.symmetric /\ e.from = to /\ e.to = from
  BY DEF EdgeFor

\* The edges of a write: each leaves the node that is written and ends at a
\* node that is there.
LEMMA NewEdgeEnds ==
    ASSUME NEW F \in SUBSET Field, NEW N, NEW n \in Live(N),
           NEW L \in LinksOf(F, N), NEW e \in NewEdges(n, L)
    PROVE  e.from \in Live(N) /\ e.to \in Live(N)
<1>1. PICK l \in L : e = EdgeFor(l[1], n, l[2])
  BY DEF NewEdges
<1>2. l[2] \in Live(N)
  BY DEF LinksOf
<1> QED
  BY <1>1, <1>2, EdgeForEnds

LEMMA DanglingInit == Init => NoDanglingEdge
  BY DEF Init, NoDanglingEdge

LEMMA DanglingNext == TypeInv /\ NoDanglingEdge /\ [Next]_vars => NoDanglingEdge'
<1> SUFFICES ASSUME TypeInv, NoDanglingEdge, [Next]_vars PROVE NoDanglingEdge'
  OBVIOUS
<1> USE DEF NoDanglingEdge
<1>1. ASSUME NEW id \in NextIds(nodes), NEW type \in Type, NEW text \in Text,
             NEW L \in LinksOf(FieldsOf(type), [nodes EXCEPT ![id] =
                     [type |-> type, revision |-> 1, text |-> text]]),
             CreateNode(id, type, text, L)
      PROVE NoDanglingEdge'
  <2>1. id \in Live(nodes') /\ Live(nodes) \subseteq Live(nodes')
    BY <1>1, CreateAddsRow DEF TypeInv
  <2>2. nodes' = [nodes EXCEPT ![id] = [type |-> type, revision |-> 1, text |-> text]]
    BY <1>1 DEF CreateNode
  <2>3. \A e \in NewEdges(id, L) : e.from \in Live(nodes') /\ e.to \in Live(nodes')
    BY <2>1, <2>2, NewEdgeEnds DEF FieldsOf
  <2> QED
    BY <1>1, <2>1, <2>3 DEF CreateNode
<1>2. ASSUME NEW c \in Client, NEW text \in Text,
             NEW F \in SUBSET Patchable(c), NEW L \in LinksOf(F, nodes),
             PatchCommit(c, F, text, L)
      PROVE NoDanglingEdge'
  <2> DEFINE n == pending[c].id
  <2>1. n \in Live(nodes)
    BY <1>2 DEF PatchCommit, RevisionMatches
  <2>2. Live(nodes') = Live(nodes)
    BY <1>2, PatchKeepsLive DEF TypeInv
  <2>3. \A e \in NewEdges(n, L) : e.from \in Live(nodes) /\ e.to \in Live(nodes)
    BY <2>1, NewEdgeEnds DEF Patchable
  <2> QED
    BY <1>2, <2>2, <2>3 DEF PatchCommit
<1>3. ASSUME NEW c \in Client, NEW f \in Field, NEW to \in NodeId,
             AddEdgeCommit(c, f, to)
      PROVE NoDanglingEdge'
  <2>1. pending[c].id \in Live(nodes) /\ to \in Live(nodes)
    BY <1>3 DEF AddEdgeCommit, Insertable, TargetFits
  <2> QED
    BY <1>3, <2>1, EdgeForEnds DEF AddEdgeCommit
<1>4. ASSUME NEW e \in edges, RemoveEdge(e) PROVE NoDanglingEdge'
  BY <1>4 DEF RemoveEdge
<1>5. ASSUME NEW n \in NodeId, DeleteNode(n) PROVE NoDanglingEdge'
  BY <1>5, DeleteRemovesRow DEF DeleteNode, TypeInv
<1>6. ASSUME UNCHANGED <<nodes, edges>> PROVE NoDanglingEdge'
  BY <1>6
<1> QED
  BY <1>1, <1>2, <1>3, <1>4, <1>5, <1>6
     DEF Next, vars, GetNode, PatchRead, AddEdgeRead, Abort

\* Every edge joins two existing nodes at every commit, though AddEdge looks
\* its source up before its transaction and DeleteNode may run in between.
THEOREM EdgesHaveEnds == Spec => []NoDanglingEdge
  BY TypeInit, TypeNext, DanglingInit, DanglingNext, PTL DEF Spec

-----------------------------------------------------------------------------
(***************************************************************************)
(* The full-text index.                                                    *)
(***************************************************************************)
LEMMA IndexInit == Init => IndexExact
  BY DEF Init, IndexExact, Live

LEMMA IndexNext == TypeInv /\ IndexExact /\ [Next]_vars => IndexExact'
<1> SUFFICES ASSUME TypeInv, IndexExact, [Next]_vars PROVE IndexExact'
  OBVIOUS
<1>0. TypeOK /\ fts \in [NodeId -> Text \cup {NoText}]
  BY DEF TypeInv, TypeOK
<1>1. ASSUME NEW id \in NextIds(nodes), NEW type \in Type, NEW text \in Text,
             NEW L, CreateNode(id, type, text, L)
      PROVE IndexExact'
  <2>1. /\ id \in NodeId
        /\ \A m \in NodeId \ {id} : nodes'[m] = nodes[m]
        /\ Live(nodes') = Live(nodes) \cup {id}
    BY <1>0, <1>1, CreateAddsRow
  <2>2. fts' = [fts EXCEPT ![id] = IndexText(nodes'[id])]
    BY <1>0, <1>1, CreateAddsRow DEF CreateNode
  <2> QED
    BY <1>0, <2>1, <2>2 DEF IndexExact
<1>2. ASSUME NEW c \in Client, NEW text \in Text, NEW F, NEW L,
             PatchCommit(c, F, text, L)
      PROVE IndexExact'
  <2> DEFINE n == pending[c].id
  <2>1. fts' = [fts EXCEPT ![n] = IndexText(nodes'[n])]
    BY <1>0, <1>2, PatchKeepsLive DEF PatchCommit
  <2> QED
    BY <1>0, <1>2, <2>1, PatchKeepsLive DEF IndexExact
<1>3. ASSUME NEW n \in NodeId, DeleteNode(n) PROVE IndexExact'
  BY <1>0, <1>3, DeleteRemovesRow DEF DeleteNode, IndexExact
<1>4. ASSUME UNCHANGED <<nodes, fts>> PROVE IndexExact'
  BY <1>4 DEF IndexExact, Live
<1> QED
  BY <1>1, <1>2, <1>3, <1>4
     DEF Next, vars, GetNode, PatchRead, AddEdgeRead, AddEdgeCommit, RemoveEdge, Abort

\* At every commit nodes_fts holds the searchable nodes with their current
\* text and nothing else: the hooks that fill it run inside the transactions.
THEOREM IndexFollowsNodes == Spec => []IndexExact
  BY TypeInit, TypeNext, IndexInit, IndexNext, PTL DEF Spec

-----------------------------------------------------------------------------
(***************************************************************************)
(* Lost updates.  A row a client holds is at most as new as the stored     *)
(* one, and the same when the revisions are equal: every write to the row  *)
(* of a live node raises its revision.  seen says which of the nodes that  *)
(* have had the id the row belongs to.                                     *)
(***************************************************************************)
HeldIsPast(p) ==
    (p # Idle /\ p.op \in {"held", "patch"}) =>
        /\ p.seen <= generation[p.id]
        /\ (p.seen = generation[p.id] /\ p.id \in Live(nodes)) =>
             \/ p.row = nodes[p.id]
             \/ p.row.revision < nodes[p.id].revision

HeldArePast == \A c \in Client : HeldIsPast(pending[c])

LEMMA HeldType ==
    ASSUME TypeOK, NEW c \in Client, pending[c] # Idle,
           pending[c].op \in {"held", "patch"}
    PROVE  /\ pending[c].id \in NodeId
           /\ pending[c].row \in NodeRow
           /\ pending[c].seen \in 1 .. MaxGeneration
  BY DEF TypeOK, Held, Patch, Add

LEMMA HeldInit == Init => HeldArePast
  BY DEF Init, HeldArePast, HeldIsPast

LEMMA HeldNext == TypeInv /\ HeldArePast /\ [Next]_vars => HeldArePast'
<1> SUFFICES ASSUME TypeInv, HeldArePast, [Next]_vars PROVE HeldArePast'
  OBVIOUS
<1>0. /\ TypeOK
      /\ \A n \in NodeId : generation[n] \in 0 .. MaxGeneration
      /\ \A n \in Live(nodes) : n \in NodeId /\ nodes[n].revision \in 1 .. MaxRevision
  BY DEF TypeInv, TypeOK, Live, NodeRow
<1>1. ASSUME NEW id \in NextIds(nodes), NEW type \in Type, NEW text \in Text,
             NEW L, CreateNode(id, type, text, L)
      PROVE HeldArePast'
  <2>1. /\ id \in NodeId \ Live(nodes)
        /\ \A m \in NodeId \ {id} : nodes'[m] = nodes[m]
        /\ Live(nodes') = Live(nodes) \cup {id}
    BY <1>0, <1>1, CreateAddsRow
  <2>2. /\ pending' = pending
        /\ generation'[id] = generation[id] + 1
        /\ \A m \in NodeId \ {id} : generation'[m] = generation[m]
    BY <1>0, <1>1, <2>1 DEF CreateNode, TypeOK
  <2>3. ASSUME NEW c \in Client, pending[c] # Idle,
               pending[c].op \in {"held", "patch"}
        PROVE HeldIsPast(pending[c])'
    BY <1>0, <2>1, <2>2, <2>3, HeldType, BoundAssumption DEF HeldArePast, HeldIsPast
  <2> QED
    BY <2>2, <2>3 DEF HeldArePast, HeldIsPast
<1>2. ASSUME NEW c \in Client, NEW n \in NodeId, GetNode(c, n)
      PROVE HeldArePast'
  <2>1. pending'[c] = [op |-> "held", id |-> n, row |-> nodes[n], seen |-> generation[n]]
    BY <1>0, <1>2 DEF GetNode, TypeOK
  <2>2. UNCHANGED <<nodes, generation>>
    BY <1>2 DEF GetNode
  <2>3. HeldIsPast(pending[c])'
    <3>1. generation[n] \in Int
      BY <1>0, BoundAssumption
    <3> QED
      BY <2>1, <2>2, <3>1 DEF HeldIsPast
  <2>4. \A d \in Client \ {c} : pending'[d] = pending[d]
    BY <1>0, <1>2 DEF GetNode, TypeOK
  <2> QED
    BY <2>2, <2>3, <2>4 DEF HeldArePast, HeldIsPast, Live
<1>3. ASSUME NEW c \in Client, PatchRead(c) PROVE HeldArePast'
  <2>1. /\ pending[c] # Idle /\ pending[c].op = "held"
        /\ pending'[c].op = "patch"
        /\ pending'[c].id = pending[c].id
        /\ pending'[c].row = pending[c].row
        /\ pending'[c].seen = pending[c].seen
        /\ \A d \in Client \ {c} : pending'[d] = pending[d]
    BY <1>0, <1>3 DEF PatchRead, TypeOK
  <2>2. UNCHANGED <<nodes, generation>>
    BY <1>3 DEF PatchRead
  <2> QED
    BY <2>1, <2>2 DEF HeldArePast, HeldIsPast, Live
<1>4. ASSUME NEW c \in Client, NEW text \in Text, NEW F, NEW L,
             PatchCommit(c, F, text, L)
      PROVE HeldArePast'
  <2> DEFINE n == pending[c].id
  <2>1. /\ n \in Live(nodes) /\ n \in NodeId
        /\ Live(nodes') = Live(nodes)
        /\ \A m \in NodeId \ {n} : nodes'[m] = nodes[m]
        /\ nodes'[n].revision = nodes[n].revision + 1
    <3>1. /\ n \in Live(nodes)
          /\ Live(nodes') = Live(nodes)
          /\ \A m \in NodeId \ {n} : nodes'[m] = nodes[m]
          /\ nodes'[n] = [type |-> nodes[n].type,
                          revision |-> nodes[n].revision + 1, text |-> text]
      BY <1>0, <1>4, PatchKeepsLive
    <3> QED
      BY <1>0, <3>1
  <2>2. /\ generation' = generation
        /\ pending'[c] = Idle
        /\ \A d \in Client \ {c} : pending'[d] = pending[d]
    BY <1>0, <1>4 DEF PatchCommit, TypeOK
  <2>3. ASSUME NEW d \in Client \ {c}, pending[d] # Idle,
               pending[d].op \in {"held", "patch"}
        PROVE HeldIsPast(pending[d])'
    <3>1. /\ pending[d].id \in NodeId
          /\ pending[d].row.revision \in 1 .. MaxRevision
      BY <1>0, <2>3, HeldType DEF NodeRow
    <3>2. HeldIsPast(pending[d])
      BY DEF HeldArePast
    <3> QED
      BY <1>0, <2>1, <2>2, <2>3, <3>1, <3>2, BoundAssumption DEF HeldIsPast
  <2> QED
    BY <2>2, <2>3 DEF HeldArePast, HeldIsPast
<1>5. ASSUME NEW n \in NodeId, DeleteNode(n) PROVE HeldArePast'
  <2>1. UNCHANGED <<pending, generation>>
    BY <1>5 DEF DeleteNode
  <2> QED
    BY <1>0, <1>5, <2>1, DeleteRemovesRow DEF HeldArePast, HeldIsPast
<1>6. ASSUME UNCHANGED <<nodes, generation>>,
             NEW c \in Client, \A d \in Client \ {c} : pending'[d] = pending[d],
             pending'[c] = Idle \/ pending'[c].op = "addEdge"
      PROVE HeldArePast'
  BY <1>6 DEF HeldArePast, HeldIsPast, Live
<1>7. ASSUME UNCHANGED <<nodes, generation, pending>> PROVE HeldArePast'
  BY <1>7 DEF HeldArePast, HeldIsPast, Live
<1>8. ASSUME NEW c \in Client,
             \/ \E n \in NodeId : AddEdgeRead(c, n)
             \/ \E f \in Field, to \in NodeId : AddEdgeCommit(c, f, to)
             \/ Abort(c)
      PROVE HeldArePast'
  BY <1>0, <1>6, <1>8 DEF AddEdgeRead, AddEdgeCommit, Abort, TypeOK
<1> QED
  BY <1>1, <1>2, <1>3, <1>4, <1>5, <1>7, <1>8 DEF Next, vars, RemoveEdge

LEMMA PatchFindsHeldRow ==
    TypeInv /\ HeldArePast /\ [Next]_vars =>
        \A c \in Client :
            LET p == pending[c]
            IN  (p # Idle /\ p.op = "patch" /\ pending'[c] = Idle /\ nodes' # nodes)
                => nodes[p.id] = p.row \/ p.seen # generation[p.id]
<1> SUFFICES ASSUME TypeInv, HeldArePast, [Next]_vars, NEW c \in Client,
                    pending[c] # Idle, pending[c].op = "patch",
                    pending'[c] = Idle, nodes' # nodes,
                    pending[c].seen = generation[pending[c].id]
             PROVE  nodes[pending[c].id] = pending[c].row
  OBVIOUS
<1>0. TypeOK
  BY DEF TypeInv
<1>1. PICK text \in Text, F \in SUBSET Patchable(c) :
        \E L \in LinksOf(F, nodes) : PatchCommit(c, F, text, L)
  <2>1. pending' # pending
    OBVIOUS
  <2>2. ASSUME NEW d \in Client, NEW text \in Text,
               NEW F \in SUBSET Patchable(d), NEW L \in LinksOf(F, nodes),
               PatchCommit(d, F, text, L)
        PROVE  d = c
    BY <1>0, <2>2 DEF PatchCommit, TypeOK
  <2> QED
    BY <2>1, <2>2 DEF Next, vars, CreateNode, GetNode, PatchRead, AddEdgeRead,
                      AddEdgeCommit, RemoveEdge, DeleteNode, Abort
<1>2. /\ pending[c].id \in Live(nodes)
      /\ nodes[pending[c].id].revision = pending[c].row.revision
  BY <1>1 DEF PatchCommit, RevisionMatches
<1>3. nodes[pending[c].id].revision \in Int
  BY <1>0, <1>2 DEF TypeOK, Live, NodeRow
<1> QED
  BY <1>2, <1>3 DEF HeldArePast, HeldIsPast

\* A patch that goes through replaces the very row its client had read, or
\* reaches another node that has been given the id since.
THEOREM NoUpdateIsLost == Spec => NoLostUpdate
  BY TypeInit, TypeNext, HeldInit, HeldNext, PatchFindsHeldRow, PTL
     DEF Spec, NoLostUpdate

-----------------------------------------------------------------------------
(***************************************************************************)
(* Edges fit the schema.  What makes it inductive: a node that is still    *)
(* the one whose type a client read has that type, and every end of an     *)
(* edge exists, so a new node starts without edges.                        *)
(***************************************************************************)
ReadIsPast(p) ==
    (p # Idle /\ p.op \in {"patch", "addEdge"}) =>
        /\ p.read <= generation[p.id]
        /\ (p.read = generation[p.id] /\ p.id \in Live(nodes)) =>
             p.type = nodes[p.id].type

ReadsArePast == \A c \in Client : ReadIsPast(pending[c])

LEMMA ReadType ==
    ASSUME TypeOK, NEW c \in Client, pending[c] # Idle,
           pending[c].op \in {"patch", "addEdge"}
    PROVE  /\ pending[c].id \in NodeId
           /\ pending[c].read \in 1 .. MaxGeneration
  BY DEF TypeOK, Held, Patch, Add

LEMMA ReadInit == Init => ReadsArePast
  BY DEF Init, ReadsArePast, ReadIsPast

LEMMA ReadNext == TypeInv /\ ReadsArePast /\ [Next]_vars => ReadsArePast'
<1> SUFFICES ASSUME TypeInv, ReadsArePast, [Next]_vars PROVE ReadsArePast'
  OBVIOUS
<1>0. /\ TypeOK
      /\ \A n \in NodeId : generation[n] \in 0 .. MaxGeneration /\ generation[n] \in Int
  BY BoundAssumption DEF TypeInv, TypeOK
<1>1. ASSUME NEW id \in NextIds(nodes), NEW type \in Type, NEW text \in Text,
             NEW L, CreateNode(id, type, text, L)
      PROVE ReadsArePast'
  <2>1. /\ id \in NodeId \ Live(nodes)
        /\ \A m \in NodeId \ {id} : nodes'[m] = nodes[m]
        /\ Live(nodes') = Live(nodes) \cup {id}
    BY <1>0, <1>1, CreateAddsRow
  <2>2. /\ pending' = pending
        /\ generation'[id] = generation[id] + 1
        /\ \A m \in NodeId \ {id} : generation'[m] = generation[m]
    BY <1>0, <1>1, <2>1 DEF CreateNode, TypeOK
  <2>3. ASSUME NEW c \in Client, pending[c] # Idle,
               pending[c].op \in {"patch", "addEdge"}
        PROVE ReadIsPast(pending[c])'
    BY <1>0, <2>1, <2>2, <2>3, ReadType, BoundAssumption DEF ReadsArePast, ReadIsPast
  <2> QED
    BY <2>2, <2>3 DEF ReadsArePast, ReadIsPast
<1>2. ASSUME NEW c \in Client,
             \A d \in Client \ {c} : pending'[d] = pending[d],
             pending'[c] = Idle \/ ReadIsPast(pending[c])',
             generation' = generation, Live(nodes') \subseteq Live(nodes),
             \A n \in Live(nodes') : nodes'[n].type = nodes[n].type
      PROVE ReadsArePast'
  BY <1>2 DEF ReadsArePast, ReadIsPast
<1>3. ASSUME NEW c \in Client, NEW n \in NodeId, GetNode(c, n)
      PROVE ReadsArePast'
  BY <1>0, <1>2, <1>3 DEF GetNode, TypeOK, ReadIsPast
<1>4. ASSUME NEW c \in Client, PatchRead(c) PROVE ReadsArePast'
  <2>1. /\ pending'[c].id = pending[c].id
        /\ pending'[c].read = generation[pending[c].id]
        /\ pending'[c].type = nodes[pending[c].id].type
        /\ pending[c].id \in NodeId
        /\ \A d \in Client \ {c} : pending'[d] = pending[d]
        /\ UNCHANGED <<nodes, generation>>
    BY <1>0, <1>4 DEF PatchRead, TypeOK, Live
  <2>2. ReadIsPast(pending[c])'
    BY <1>0, <2>1 DEF ReadIsPast
  <2> QED
    BY <1>2, <2>1, <2>2
<1>5. ASSUME NEW c \in Client, NEW n \in NodeId, AddEdgeRead(c, n)
      PROVE ReadsArePast'
  <2>1. /\ pending'[c].id = n
        /\ pending'[c].read = generation[n]
        /\ pending'[c].type = nodes[n].type
        /\ \A d \in Client \ {c} : pending'[d] = pending[d]
        /\ UNCHANGED <<nodes, generation>>
    BY <1>0, <1>5 DEF AddEdgeRead, TypeOK
  <2>2. ReadIsPast(pending[c])'
    BY <1>0, <2>1 DEF ReadIsPast
  <2> QED
    BY <1>2, <2>1, <2>2
<1>6. ASSUME NEW c \in Client, NEW text \in Text, NEW F, NEW L,
             PatchCommit(c, F, text, L)
      PROVE ReadsArePast'
  <2> DEFINE n == pending[c].id
  <2>1. /\ Live(nodes') = Live(nodes)
        /\ \A m \in NodeId \ {n} : nodes'[m] = nodes[m]
        /\ nodes'[n] = [type |-> nodes[n].type,
                        revision |-> nodes[n].revision + 1, text |-> text]
    BY <1>0, <1>6, PatchKeepsLive
  <2>2. \A m \in Live(nodes') : nodes'[m].type = nodes[m].type
    BY <2>1 DEF Live
  <2>3. /\ generation' = generation /\ pending'[c] = Idle
        /\ \A d \in Client \ {c} : pending'[d] = pending[d]
    BY <1>0, <1>6 DEF PatchCommit, TypeOK
  <2> QED
    BY <1>2, <2>1, <2>2, <2>3
<1>7. ASSUME NEW c \in Client, NEW f \in Field, NEW to \in NodeId,
             AddEdgeCommit(c, f, to)
      PROVE ReadsArePast'
  BY <1>0, <1>2, <1>7 DEF AddEdgeCommit, TypeOK
<1>8. ASSUME NEW c \in Client, Abort(c) PROVE ReadsArePast'
  BY <1>0, <1>2, <1>8 DEF Abort, TypeOK
<1>9. ASSUME NEW n \in NodeId, DeleteNode(n) PROVE ReadsArePast'
  <2>1. UNCHANGED <<pending, generation>>
    BY <1>9 DEF DeleteNode
  <2>2. /\ Live(nodes') \subseteq Live(nodes)
        /\ \A m \in Live(nodes') : nodes'[m] = nodes[m]
    BY <1>0, <1>9, DeleteRemovesRow DEF Live
  <2> QED
    BY <2>1, <2>2 DEF ReadsArePast, ReadIsPast
<1>10. ASSUME UNCHANGED <<nodes, generation, pending>> PROVE ReadsArePast'
  BY <1>10 DEF ReadsArePast, ReadIsPast, Live
<1> QED
  BY <1>1, <1>3, <1>4, <1>5, <1>6, <1>7, <1>8, <1>9, <1>10 DEF Next, vars, RemoveEdge

\* An edge inserted for a field fits it at both ends, when the source is of
\* the field's type or exempt and the target of the declared type.
LEMMA NewEdgeFits ==
    ASSUME NEW N, NEW X, NEW f \in Field, NEW n, NEW to,
           N[to].type = f.to, n \notin X => N[n].type = f.type,
           NEW m \in Owners(EdgeFor(f, n, to)) \ X
    PROVE  FitsOwner(N, X, EdgeFor(f, n, to), m)
<1> DEFINE e == EdgeFor(f, n, to)
<1>1. /\ e.field = f.name /\ e.single = f.single /\ e.symmetric = Undirected(f)
      /\ \/ e.from = n /\ e.to = to
         \/ e.symmetric /\ e.from = to /\ e.to = n
  BY EdgeForEnds
<1>2. e.symmetric => f.to = f.type
  BY <1>1, SchemaAssumption DEF SchemaAssumption, AlgebraIsSelfReference
<1> HIDE DEF e
<1>3. m = n \/ (e.symmetric /\ m = to)
  BY <1>1 DEF Owners, e
<1>4. CASE m = n
  <2>1. OtherEnd(e, n) = to
    BY <1>1 DEF OtherEnd
  <2> QED
    BY <1>1, <1>4, <2>1 DEF FitsOwner, FieldsOf, e
<1>5. CASE e.symmetric /\ m = to /\ m # n
  <2>1. OtherEnd(e, m) = n
    BY <1>1, <1>5 DEF OtherEnd
  <2> QED
    BY <1>1, <1>2, <1>5, <2>1 DEF FitsOwner, FieldsOf, e
<1> QED
  BY <1>3, <1>4, <1>5

\* An edge goes on fitting while its ends keep their types.
LEMMA OldEdgeFits ==
    ASSUME NEW N, NEW M, NEW X, NEW Y, NEW e, NEW m, FitsOwner(N, X, e, m),
           M[m].type = N[m].type,
           M[OtherEnd(e, m)].type = N[OtherEnd(e, m)].type,
           OtherEnd(e, m) \in X => OtherEnd(e, m) \in Y
    PROVE  FitsOwner(M, Y, e, m)
  BY DEF FitsOwner

LEMMA FitInit == Init => EdgeFitsSchema
  BY DEF Init, EdgeFitsSchema

LEMMA FitNext ==
    TypeInv /\ NoDanglingEdge /\ ReadsArePast /\ EdgeFitsSchema /\ [Next]_vars
        => EdgeFitsSchema'
<1> SUFFICES ASSUME TypeInv, NoDanglingEdge, ReadsArePast, EdgeFitsSchema, [Next]_vars
             PROVE  EdgeFitsSchema'
  OBVIOUS
<1>0. TypeOK
  BY DEF TypeInv
<1>1. ASSUME NEW e \in edges, NEW m \in Owners(e)
      PROVE  m \in Live(nodes) /\ OtherEnd(e, m) \in Live(nodes)
  BY <1>1 DEF NoDanglingEdge, Owners, OtherEnd
<1>2. ASSUME NEW K \in SUBSET edges, NEW D \in SUBSET Edge,
             edges' = K \cup D,
             \A e \in K : \A m \in Owners(e) :
                /\ nodes'[m].type = nodes[m].type
                /\ nodes'[OtherEnd(e, m)].type = nodes[OtherEnd(e, m)].type
                /\ m \in crossed => m \in crossed'
                /\ OtherEnd(e, m) \in crossed => OtherEnd(e, m) \in crossed',
             \A e \in D : \A m \in Owners(e) \ crossed' :
                FitsOwner(nodes', crossed', e, m)
      PROVE  EdgeFitsSchema'
  <2>1. ASSUME NEW e \in K, NEW m \in Owners(e) \ crossed'
        PROVE  FitsOwner(nodes', crossed', e, m)
    <3>1. m \in Owners(e) \ crossed /\ FitsOwner(nodes, crossed, e, m)
      BY <1>2, <2>1 DEF EdgeFitsSchema
    <3> QED
      BY <1>2, <2>1, <3>1, OldEdgeFits
  <2> QED
    BY <1>2, <2>1 DEF EdgeFitsSchema
<1>3. ASSUME NEW id \in NextIds(nodes), NEW type \in Type, NEW text \in Text,
             NEW L \in LinksOf(FieldsOf(type), [nodes EXCEPT ![id] =
                     [type |-> type, revision |-> 1, text |-> text]]),
             CreateNode(id, type, text, L)
      PROVE EdgeFitsSchema'
  <2>1. /\ id \in NodeId \ Live(nodes)
        /\ nodes'[id] = [type |-> type, revision |-> 1, text |-> text]
        /\ \A m \in NodeId \ {id} : nodes'[m] = nodes[m]
    BY <1>0, <1>3, CreateAddsRow
  <2>2. \A l \in L : l[1] \in Field /\ l[1].type = type /\ l[2] \in NodeId
    BY DEF LinksOf, FieldsOf, Live
  <2>3. /\ edges' = edges \cup NewEdges(id, L)
        /\ crossed' = crossed
        /\ \A l \in L : nodes'[l[2]].type = l[1].to
    BY <1>3 DEF CreateNode, AllInsertable, Insertable, TargetFits
  <2>4. NewEdges(id, L) \in SUBSET Edge
    BY <2>1, LinkTypes DEF FieldsOf
  <2>5. ASSUME NEW e \in NewEdges(id, L), NEW m \in Owners(e) \ crossed'
        PROVE  FitsOwner(nodes', crossed', e, m)
    <3>1. PICK l \in L : e = EdgeFor(l[1], id, l[2])
      BY DEF NewEdges
    <3> QED
      BY <2>1, <2>2, <2>3, <2>5, <3>1, NewEdgeFits
  <2>6. ASSUME NEW e \in edges, NEW m \in Owners(e)
        PROVE  nodes'[m] = nodes[m] /\ nodes'[OtherEnd(e, m)] = nodes[OtherEnd(e, m)]
    BY <1>1, <2>1, <2>6 DEF Live
  <2> QED
    BY <1>2, <2>3, <2>4, <2>5, <2>6
<1>4. ASSUME NEW c \in Client, NEW text \in Text,
             NEW F \in SUBSET Patchable(c), NEW L \in LinksOf(F, nodes),
             PatchCommit(c, F, text, L)
      PROVE EdgeFitsSchema'
  <2> DEFINE n == pending[c].id
             kept == edges \ UNION {FieldEdges(edges, n, f) : f \in F}
  <2>1. /\ n \in Live(nodes) /\ n \in NodeId
        /\ nodes'[n] = [type |-> nodes[n].type,
                        revision |-> nodes[n].revision + 1, text |-> text]
        /\ \A m \in NodeId \ {n} : nodes'[m] = nodes[m]
    BY <1>0, <1>4, PatchKeepsLive DEF Live
  <2>2. \A m \in NodeId : nodes'[m].type = nodes[m].type
    BY <2>1
  <2>3. \A l \in L : l[1] \in F /\ l[2] \in NodeId
    BY DEF LinksOf, Live
  <2>4. /\ edges' = kept \cup NewEdges(n, L)
        /\ crossed \subseteq crossed'
        /\ pending[c] # Idle /\ pending[c].op = "patch"
        /\ n \notin crossed' => pending[c].read = generation[n]
        /\ \A l \in L : nodes'[l[2]].type = l[1].to
    BY <1>4 DEF PatchCommit, AllInsertable, Insertable, TargetFits
  <2>5. \A f \in F : f \in Field /\ f.type = pending[c].type
    BY DEF Patchable
  <2>6. n \notin crossed' => pending[c].type = nodes'[n].type
    BY <2>1, <2>2, <2>4 DEF ReadsArePast, ReadIsPast
  <2>7. NewEdges(n, L) \in SUBSET Edge
    BY <2>1, <2>5, LinkTypes
  <2>8. ASSUME NEW e \in NewEdges(n, L), NEW m \in Owners(e) \ crossed'
        PROVE  FitsOwner(nodes', crossed', e, m)
    <3>1. PICK l \in L : e = EdgeFor(l[1], n, l[2])
      BY DEF NewEdges
    <3> QED
      BY <2>3, <2>4, <2>5, <2>6, <2>8, <3>1, NewEdgeFits
  <2>9. ASSUME NEW e \in kept, NEW m \in Owners(e)
        PROVE  m \in NodeId /\ OtherEnd(e, m) \in NodeId
    BY <1>1, <2>9 DEF Live
  <2> HIDE DEF kept, n
  <2>10. kept \in SUBSET edges
    BY DEF kept
  <2> QED
    BY <1>2, <2>2, <2>4, <2>7, <2>8, <2>9, <2>10
<1>5. ASSUME NEW c \in Client, NEW f \in Field, NEW to \in NodeId,
             AddEdgeCommit(c, f, to)
      PROVE EdgeFitsSchema'
  <2> DEFINE n == pending[c].id
  <2>1. /\ n \in Live(nodes) /\ n \in NodeId
        /\ nodes[to].type = f.to
        /\ nodes' = nodes
        /\ edges' = edges \cup {EdgeFor(f, n, to)}
        /\ crossed \subseteq crossed'
        /\ pending[c] # Idle /\ pending[c].op = "addEdge"
        /\ f.type = pending[c].type
        /\ n \notin crossed' => pending[c].read = generation[n]
    BY <1>5 DEF AddEdgeCommit, Insertable, TargetFits, Live
  <2>2. n \notin crossed' => nodes[n].type = f.type
    BY <2>1 DEF ReadsArePast, ReadIsPast
  <2>3. EdgeFor(f, n, to) \in Edge
    BY <2>1, NewEdgeType
  <2>4. \A m \in Owners(EdgeFor(f, n, to)) \ crossed' :
           FitsOwner(nodes', crossed', EdgeFor(f, n, to), m)
    BY <2>1, <2>2, NewEdgeFits
  <2> DEFINE D == {EdgeFor(f, n, to)}
  <2>5. D \in SUBSET Edge /\ edges \in SUBSET edges
    BY <2>3
  <2>6. \A e \in D : \A m \in Owners(e) \ crossed' :
           FitsOwner(nodes', crossed', e, m)
    BY <2>4
  <2>7. edges' = edges \cup D /\ nodes' = nodes /\ crossed \subseteq crossed'
    BY <2>1
  <2> HIDE DEF n, D
  <2> QED
    BY <1>2, <2>5, <2>6, <2>7
<1>6. ASSUME NEW e \in edges, RemoveEdge(e) PROVE EdgeFitsSchema'
  BY <1>6 DEF RemoveEdge, EdgeFitsSchema
<1>7. ASSUME NEW n \in NodeId, DeleteNode(n) PROVE EdgeFitsSchema'
  <2> DEFINE K == {e \in edges : e.from # n /\ e.to # n}
  <2>1. \A m \in NodeId \ {n} : nodes'[m] = nodes[m]
    BY <1>0, <1>7, DeleteRemovesRow
  <2>2. edges' = K \cup {} /\ crossed' = crossed \ {n}
    BY <1>7 DEF DeleteNode
  <2>3. ASSUME NEW e \in K, NEW m \in Owners(e)
        PROVE  m \in NodeId \ {n} /\ OtherEnd(e, m) \in NodeId \ {n}
    BY <1>1, <2>3 DEF Owners, OtherEnd, Live
  <2>4. \A e \in K : \A m \in Owners(e) :
           /\ nodes'[m].type = nodes[m].type
           /\ nodes'[OtherEnd(e, m)].type = nodes[OtherEnd(e, m)].type
           /\ m \in crossed => m \in crossed'
           /\ OtherEnd(e, m) \in crossed => OtherEnd(e, m) \in crossed'
    BY <2>1, <2>2, <2>3
  <2>5. K \in SUBSET edges /\ {} \in SUBSET Edge
    OBVIOUS
  <2> HIDE DEF K
  <2> QED
    BY <1>2, <2>2, <2>4, <2>5, ZenonT(40)
<1>8. ASSUME UNCHANGED <<nodes, edges, crossed>> PROVE EdgeFitsSchema'
  BY <1>8 DEF EdgeFitsSchema
<1> QED
  BY <1>3, <1>4, <1>5, <1>6, <1>7, <1>8
     DEF Next, vars, GetNode, PatchRead, AddEdgeRead, Abort

\* A stored edge fits a field of every node that owns it and of which no write
\* was prepared for another node: AddEdge and PatchNode take the type from a
\* read before their transaction, and that type cannot change under them.
THEOREM EdgesFitSchema == Spec => []EdgeFitsSchema
  BY TypeInit, TypeNext, DanglingInit, DanglingNext, ReadInit, ReadNext,
     FitInit, FitNext, PTL DEF Spec

-----------------------------------------------------------------------------
(***************************************************************************)
(* The constraints on the edges table compare two rows at a time, so what  *)
(* they keep is a relation between any two rows.                           *)
(***************************************************************************)
Compatible(d, e) ==
    d.field = e.field =>
        /\ d.from = e.from /\ d.to = e.to => d = e
        /\ d.single /\ e.single =>
             /\ d.from = e.from => d = e
             /\ d.symmetric /\ e.symmetric /\ {d.from, d.to} \cap {e.from, e.to} # {} => d = e

InOrder(e) == e.symmetric => e.from < e.to

ConstraintsHold(E) ==
    /\ \A d, e \in E : Compatible(d, e)
    /\ \A e \in E : InOrder(e)

\* A row that the constraints let in is compatible with all that are there.
LEMMA FreeIsCompatible ==
    ASSUME NEW E, NEW e, NEW d \in E, EdgeIsUnique(E, e), SingleRefIsFree(E, e)
    PROVE  Compatible(d, e) /\ Compatible(e, d)
  BY DEF EdgeIsUnique, SingleRefIsFree, Compatible

\* An inserted edge of an undirected relation has two ends, in order.
LEMMA InsertedInOrder ==
    ASSUME NEW N, NEW E, NEW f \in Field, NEW n \in NodeId, NEW m \in NodeId,
           Insertable(N, E, f, n, m)
    PROVE  InOrder(EdgeFor(f, n, m))
<1>1. Undirected(f) => n # m
  BY DEF Insertable
<1>2. n \in Int /\ m \in Int
  BY BoundAssumption DEF NodeId
<1> QED
  BY <1>1, <1>2 DEF EdgeFor, InOrder

\* Two different targets of one field give two different rows.
LEMMA OneRowPerTarget ==
    ASSUME NEW f \in Field, NEW n \in NodeId, NEW m \in NodeId, NEW k \in NodeId,
           Undirected(f) => n # m /\ n # k,
           EdgeFor(f, n, m).from = EdgeFor(f, n, k).from,
           EdgeFor(f, n, m).to = EdgeFor(f, n, k).to
    PROVE  m = k
  BY DEF EdgeFor

(***************************************************************************)
(* The edges of one create or patch: their fields are of one type, each    *)
(* single field has one target, and every edge is insertable by itself.    *)
(***************************************************************************)
LEMMA NewEdgesHold ==
    ASSUME NEW N, NEW E, NEW n \in NodeId, NEW F \in SUBSET Field,
           \A f, g \in F : f.type = g.type,
           NEW L \in LinksOf(F, N), LinksFit(F, L), AllInsertable(N, E, n, L)
    PROVE  ConstraintsHold(NewEdges(n, L))
<1>1. \A l \in L : l[1] \in F /\ l[2] \in NodeId /\ l = <<l[1], l[2]>>
  BY DEF LinksOf, Live
<1>2. \A l \in L : Insertable(N, E, l[1], n, l[2])
  BY DEF AllInsertable
<1>3. ASSUME NEW e \in NewEdges(n, L) PROVE InOrder(e)
  <2>1. PICK l \in L : e = EdgeFor(l[1], n, l[2])
    BY <1>3 DEF NewEdges
  <2> QED
    BY <1>1, <1>2, <2>1, InsertedInOrder
<1>4. ASSUME NEW d \in NewEdges(n, L), NEW e \in NewEdges(n, L) PROVE Compatible(d, e)
  <2>1. PICK k \in L : d = EdgeFor(k[1], n, k[2])
    BY <1>4 DEF NewEdges
  <2>2. PICK l \in L : e = EdgeFor(l[1], n, l[2])
    BY <1>4 DEF NewEdges
  <2>3. /\ d.field = k[1].name /\ d.single = k[1].single
        /\ e.field = l[1].name /\ e.single = l[1].single
    BY <2>1, <2>2, EdgeForEnds
  <2>4. k[1].name = l[1].name => k[1] = l[1]
    BY <1>1, SchemaAssumption DEF SchemaAssumption, NamesUnique
  <2>5. k[1] = l[1] /\ d.from = e.from /\ d.to = e.to => d = e
    <3>1. Undirected(k[1]) => n # k[2]
      BY <1>2 DEF Insertable
    <3>2. Undirected(l[1]) => n # l[2]
      BY <1>2 DEF Insertable
    <3> QED
      BY <1>1, <2>1, <2>2, <3>1, <3>2, OneRowPerTarget
  <2>6. k[1] = l[1] /\ k[1].single => d = e
    BY <2>1, <2>2 DEF LinksFit
  <2> QED
    BY <2>3, <2>4, <2>5, <2>6 DEF Compatible
<1> QED
  BY <1>3, <1>4 DEF ConstraintsHold

\* Rows kept, and rows inserted each of which fits the kept ones.
LEMMA InsertHolds ==
    ASSUME NEW K, NEW D, ConstraintsHold(K), ConstraintsHold(D),
           \A e \in D : EdgeIsUnique(K, e) /\ SingleRefIsFree(K, e)
    PROVE  ConstraintsHold(K \cup D)
<1>1. \A d \in K, e \in D : Compatible(d, e) /\ Compatible(e, d)
  BY FreeIsCompatible
<1> QED
  BY <1>1 DEF ConstraintsHold

LEMMA KeepHolds ==
    ASSUME NEW E, NEW K \in SUBSET E, ConstraintsHold(E) PROVE ConstraintsHold(K)
  BY DEF ConstraintsHold

LEMMA NewEdgesFree ==
    ASSUME NEW N, NEW E, NEW n, NEW L, AllInsertable(N, E, n, L)
    PROVE  \A e \in NewEdges(n, L) : EdgeIsUnique(E, e) /\ SingleRefIsFree(E, e)
  BY DEF AllInsertable, Insertable, NewEdges

LEMMA ConstraintsInit == Init => ConstraintsHold(edges)
  BY DEF Init, ConstraintsHold

LEMMA ConstraintsNext ==
    TypeInv /\ ConstraintsHold(edges) /\ [Next]_vars => ConstraintsHold(edges)'
<1> SUFFICES ASSUME TypeInv, ConstraintsHold(edges), [Next]_vars
             PROVE  ConstraintsHold(edges')
  BY DEF ConstraintsHold, Compatible, InOrder
<1>0. TypeOK
  BY DEF TypeInv
<1>1. ASSUME NEW id \in NextIds(nodes), NEW type \in Type, NEW text \in Text,
             NEW L \in LinksOf(FieldsOf(type), [nodes EXCEPT ![id] =
                     [type |-> type, revision |-> 1, text |-> text]]),
             CreateNode(id, type, text, L)
      PROVE ConstraintsHold(edges')
  <2>1. id \in NodeId
    BY DEF NextIds
  <2>2. /\ nodes' = [nodes EXCEPT ![id] = [type |-> type, revision |-> 1, text |-> text]]
        /\ LinksFit(FieldsOf(type), L)
        /\ AllInsertable(nodes', edges, id, L)
        /\ edges' = edges \cup NewEdges(id, L)
    BY <1>1 DEF CreateNode
  <2>3. FieldsOf(type) \in SUBSET Field /\ \A f, g \in FieldsOf(type) : f.type = g.type
    BY DEF FieldsOf
  <2>4. ConstraintsHold(NewEdges(id, L))
    BY <2>1, <2>2, <2>3, NewEdgesHold
  <2> QED
    BY <2>2, <2>4, NewEdgesFree, InsertHolds
<1>2. ASSUME NEW c \in Client, NEW text \in Text,
             NEW F \in SUBSET Patchable(c), NEW L \in LinksOf(F, nodes),
             PatchCommit(c, F, text, L)
      PROVE ConstraintsHold(edges')
  <2> DEFINE n == pending[c].id
             kept == edges \ UNION {FieldEdges(edges, n, f) : f \in F}
  <2>1. n \in NodeId /\ Live(nodes') = Live(nodes)
    BY <1>0, <1>2, PatchKeepsLive DEF Live
  <2>2. /\ LinksFit(F, L)
        /\ AllInsertable(nodes', kept, n, L)
        /\ edges' = kept \cup NewEdges(n, L)
    BY <1>2 DEF PatchCommit
  <2>3. F \in SUBSET Field /\ \A f, g \in F : f.type = g.type
    BY DEF Patchable
  <2>4. L \in LinksOf(F, nodes')
    BY <2>1 DEF LinksOf
  <2>5. ConstraintsHold(NewEdges(n, L))
    BY <2>1, <2>2, <2>3, <2>4, NewEdgesHold
  <2>6. ConstraintsHold(kept)
    BY KeepHolds
  <2> QED
    BY <2>2, <2>5, <2>6, NewEdgesFree, InsertHolds
<1>3. ASSUME NEW c \in Client, NEW f \in Field, NEW to \in NodeId,
             AddEdgeCommit(c, f, to)
      PROVE ConstraintsHold(edges')
  <2> DEFINE e == EdgeFor(f, pending[c].id, to)
  <2>1. /\ Insertable(nodes, edges, f, pending[c].id, to)
        /\ edges' = edges \cup {e}
    BY <1>3 DEF AddEdgeCommit
  <2>2. pending[c].id \in NodeId
    BY <2>1 DEF Insertable, Live
  <2>3. InOrder(e) /\ EdgeIsUnique(edges, e) /\ SingleRefIsFree(edges, e)
    BY <2>1, <2>2, InsertedInOrder DEF Insertable
  <2>4. ConstraintsHold({e})
    BY <2>3 DEF ConstraintsHold, Compatible
  <2> QED
    BY <2>1, <2>3, <2>4, InsertHolds
<1>4. ASSUME NEW e \in edges, RemoveEdge(e) PROVE ConstraintsHold(edges')
  BY <1>4, KeepHolds DEF RemoveEdge
<1>5. ASSUME NEW n \in NodeId, DeleteNode(n) PROVE ConstraintsHold(edges')
  BY <1>5, KeepHolds DEF DeleteNode
<1>6. ASSUME UNCHANGED edges PROVE ConstraintsHold(edges')
  BY <1>6
<1> QED
  BY <1>1, <1>2, <1>3, <1>4, <1>5, <1>6
     DEF Next, vars, GetNode, PatchRead, AddEdgeRead, Abort

\* Whichever end it is entered from and by whatever operation, an undirected
\* relation between two nodes is one row.
THEOREM StoredOnce == Spec => []UndirectedStoredOnce
<1>1. TypeInv /\ ConstraintsHold(edges) => UndirectedStoredOnce
  <2> SUFFICES ASSUME TypeInv, ConstraintsHold(edges), NEW d \in edges, NEW e \in edges,
                      d.symmetric, e.symmetric, d.field = e.field,
                      {d.from, d.to} = {e.from, e.to}
               PROVE  d = e
    BY DEF UndirectedStoredOnce
  <2>1. d.from < d.to /\ e.from < e.to
    BY DEF ConstraintsHold, InOrder
  <2>2. d.from \in Int /\ d.to \in Int /\ e.from \in Int /\ e.to \in Int
    BY BoundAssumption DEF TypeInv, TypeOK, Edge, NodeId
  <2>3. d.from = e.from /\ d.to = e.to
    BY <2>1, <2>2
  <2> QED
    BY <2>3 DEF ConstraintsHold, Compatible
<1> QED
  BY <1>1, TypeInit, TypeNext, ConstraintsInit, ConstraintsNext, PTL DEF Spec

\* A single reference reads one edge at most, at both ends of an undirected
\* relation: the flags that the constraints look at are those of the field,
\* because every edge fits it.
THEOREM SingleRefs == Spec => []SingleRefHeld
<1>1. EdgeFitsSchema /\ ConstraintsHold(edges) => SingleRefHeld
  <2> SUFFICES ASSUME EdgeFitsSchema, ConstraintsHold(edges),
                      NEW n \in Live(nodes) \ crossed, NEW f \in FieldsOf(nodes[n].type),
                      f.single,
                      NEW d \in RefEdges(edges, n, f.name), NEW e \in RefEdges(edges, n, f.name)
               PROVE  d = e
    BY DEF SingleRefHeld
  <2>1. ASSUME NEW g \in RefEdges(edges, n, f.name)
        PROVE  /\ g \in edges /\ g.field = f.name /\ n \in Owners(g)
               /\ g.single /\ g.symmetric = Undirected(f)
    <3>1. g \in edges /\ g.field = f.name /\ n \in Owners(g)
      BY <2>1 DEF RefEdges
    <3>2. FitsOwner(nodes, crossed, g, n)
      BY <3>1 DEF EdgeFitsSchema
    <3>3. PICK h \in FieldsOf(nodes[n].type) :
            h.name = g.field /\ h.single = g.single /\ Undirected(h) = g.symmetric
      BY <3>2 DEF FitsOwner
    <3>4. h = f
      BY <3>1, <3>3, SchemaAssumption DEF SchemaAssumption, NamesUnique, FieldsOf
    <3> QED
      BY <3>1, <3>3, <3>4
  <2>2. /\ d \in edges /\ d.field = f.name /\ d.single /\ n \in Owners(d)
        /\ e \in edges /\ e.field = f.name /\ e.single /\ n \in Owners(e)
        /\ d.symmetric = e.symmetric
    BY <2>1
  <2>3. Compatible(d, e)
    BY <2>2 DEF ConstraintsHold
  <2>4. CASE d.symmetric
    BY <2>2, <2>3, <2>4 DEF Compatible, Owners
  <2>5. CASE ~ d.symmetric
    BY <2>2, <2>3, <2>5 DEF Compatible, Owners
  <2> QED
    BY <2>4, <2>5
<1> QED
  BY <1>1, TypeInit, TypeNext, DanglingInit, DanglingNext, ReadInit, ReadNext,
     FitInit, FitNext, ConstraintsInit, ConstraintsNext, PTL DEF Spec

-----------------------------------------------------------------------------
(***************************************************************************)
(* Required references.  They stay filled if their names are used by       *)
(* directed fields only.  Otherwise deleteFieldEdges may take them away    *)
(* from the other end: run graph_shared_name is the counterexample.        *)
(***************************************************************************)
RequiredIsDirected ==
    \A f, g \in Field : f.required /\ f.name = g.name => ~ Undirected(g)

\* A node reads its own required field from the edges that leave it.
LEMMA RequiredLeaves ==
    ASSUME RequiredIsDirected, EdgeFitsSchema, NEW n \in Live(nodes) \ crossed,
           NEW f \in FieldsOf(nodes[n].type), f.required, NEW e \in RefEdges(edges, n, f.name)
    PROVE  e \in edges /\ e.field = f.name /\ e.from = n
<1>1. e \in edges /\ e.field = f.name /\ n \in Owners(e)
  BY DEF RefEdges
<1>2. PICK g \in FieldsOf(nodes[n].type) : g.name = e.field /\ Undirected(g) = e.symmetric
  BY <1>1 DEF EdgeFitsSchema, FitsOwner
<1>3. ~ e.symmetric
  BY <1>1, <1>2 DEF RequiredIsDirected, FieldsOf
<1> QED
  BY <1>1, <1>3 DEF Owners

LEMMA FilledInit == Init => RequiredFilled
  BY DEF Init, RequiredFilled, Live

LEMMA FilledNext ==
    RequiredIsDirected /\ TypeInv /\ ReadsArePast /\ EdgeFitsSchema /\ RequiredFilled /\ [Next]_vars
        => RequiredFilled'
<1> SUFFICES ASSUME RequiredIsDirected, TypeInv, ReadsArePast, EdgeFitsSchema, RequiredFilled,
                    [Next]_vars
             PROVE  RequiredFilled'
  OBVIOUS
<1>0. TypeOK
  BY DEF TypeInv
<1>1. ASSUME NEW x \in Live(nodes) \ crossed, NEW f \in FieldsOf(nodes[x].type), f.required
      PROVE  \E e \in edges : e.field = f.name /\ e.from = x
  BY <1>1, RequiredLeaves DEF RequiredFilled
<1>2. ASSUME NEW E, NEW x, NEW f, \E e \in E : e.field = f.name /\ e.from = x
      PROVE  RefEdges(E, x, f.name) # {}
  BY <1>2 DEF RefEdges, Owners
<1>3. ASSUME NEW id \in NextIds(nodes), NEW type \in Type, NEW text \in Text,
             NEW L \in LinksOf(FieldsOf(type), [nodes EXCEPT ![id] =
                     [type |-> type, revision |-> 1, text |-> text]]),
             CreateNode(id, type, text, L)
      PROVE RequiredFilled'
  <2>1. /\ nodes'[id] = [type |-> type, revision |-> 1, text |-> text]
        /\ \A m \in NodeId \ {id} : nodes'[m] = nodes[m]
        /\ Live(nodes') = Live(nodes) \cup {id}
    BY <1>0, <1>3, CreateAddsRow
  <2>2. /\ edges' = edges \cup NewEdges(id, L) /\ crossed' = crossed
        /\ LinksFit(FieldsOf(type), L)
    BY <1>3 DEF CreateNode
  <2>3. ASSUME NEW f \in FieldsOf(type), f.required PROVE RefEdges(edges', id, f.name) # {}
    <3>1. PICK l \in L : l[1] = f
      BY <2>2, <2>3 DEF LinksFit
    <3>2. EdgeFor(f, id, l[2]) \in edges'
      BY <2>2, <3>1 DEF NewEdges
    <3> QED
      BY <3>2, EdgeForEnds DEF RefEdges, Owners
  <2>4. ASSUME NEW x \in Live(nodes) \ crossed, x # id, NEW f \in FieldsOf(nodes[x].type), f.required
        PROVE  RefEdges(edges', x, f.name) # {}
    BY <1>1, <1>2, <2>2, <2>4, ZenonT(40)
  <2>5. nodes'[id].type = type /\ \A x \in Live(nodes') : x # id => nodes'[x] = nodes[x] /\ x \in Live(nodes)
    BY <2>1 DEF Live
  <2> QED
    BY <2>2, <2>3, <2>4, <2>5 DEF RequiredFilled
<1>4. ASSUME NEW c \in Client, NEW text \in Text,
             NEW F \in SUBSET Patchable(c), NEW L \in LinksOf(F, nodes),
             PatchCommit(c, F, text, L)
      PROVE RequiredFilled'
  <2> DEFINE n == pending[c].id
             gone == UNION {FieldEdges(edges, n, g) : g \in F}
  <2>1. /\ n \in Live(nodes) /\ Live(nodes') = Live(nodes)
        /\ \A m \in Live(nodes) : nodes'[m].type = nodes[m].type
    <3>1. /\ n \in Live(nodes) /\ Live(nodes') = Live(nodes)
          /\ \A m \in NodeId \ {n} : nodes'[m] = nodes[m]
          /\ nodes'[n] = [type |-> nodes[n].type,
                          revision |-> nodes[n].revision + 1, text |-> text]
      BY <1>0, <1>4, PatchKeepsLive
    <3> HIDE DEF n
    <3> QED
      BY <3>1 DEF Live
  <2>2. /\ edges' = (edges \ gone) \cup NewEdges(n, L)
        /\ LinksFit(F, L)
        /\ crossed' = IF pending[c].read = generation[n] THEN crossed ELSE crossed \cup {n}
        /\ pending[c] # Idle /\ pending[c].op = "patch"
    BY <1>4 DEF PatchCommit
  <2>3. n \notin crossed' => nodes[n].type = pending[c].type
    BY <2>1, <2>2 DEF ReadsArePast, ReadIsPast
  <2>4. \A g \in F : g \in Field /\ g.type = pending[c].type
    BY DEF Patchable
  <2>5. ASSUME NEW x \in Live(nodes) \ crossed', NEW f \in FieldsOf(nodes[x].type), f.required
        PROVE  RefEdges(edges', x, f.name) # {}
    <3>1. x \notin crossed
      BY <2>2
    <3>2. PICK e \in edges : e.field = f.name /\ e.from = x
      BY <1>1, <2>5, <3>1
    <3>3. CASE e \notin gone
      BY <1>2, <2>2, <3>2, <3>3
    <3>4. CASE e \in gone
      <4>1. PICK g \in F : e.field = g.name /\ (e.from = n \/ (Undirected(g) /\ e.to = n))
        BY <3>4 DEF FieldEdges
      <4>2. ~ Undirected(g)
        BY <2>4, <2>5, <3>2, <4>1 DEF RequiredIsDirected, FieldsOf
      <4>3. x = n /\ g = f
        BY <2>3, <2>4, <2>5, <3>2, <4>1, <4>2, SchemaAssumption
           DEF SchemaAssumption, NamesUnique, FieldsOf
      <4>4. PICK l \in L : l[1] = f
        BY <2>2, <2>5, <4>3 DEF LinksFit
      <4>5. EdgeFor(f, n, l[2]) \in edges'
        BY <2>2, <4>4 DEF NewEdges
      <4> HIDE DEF n
      <4> QED
        BY <4>3, <4>5, EdgeForEnds DEF RefEdges, Owners
    <3> QED
      BY <3>3, <3>4
  <2> QED
    BY <2>1, <2>5 DEF RequiredFilled
<1>5. ASSUME NEW c \in Client, NEW f \in Field, NEW to \in NodeId, AddEdgeCommit(c, f, to)
      PROVE RequiredFilled'
  <2>1. nodes' = nodes /\ edges \subseteq edges' /\ crossed \subseteq crossed'
    BY <1>5 DEF AddEdgeCommit
  <2> QED
    BY <2>1 DEF RequiredFilled, RefEdges
<1>6. ASSUME NEW d \in edges, RemoveEdge(d) PROVE RequiredFilled'
  <2>1. edges' = edges \ {d} /\ nodes' = nodes /\ crossed' = crossed
    BY <1>6 DEF RemoveEdge
  <2>2. PICK g \in FieldsOf(nodes[d.from].type) :
          g.name = d.field /\ (g.required => AnotherEdgeIsLeft(g, d))
    BY <1>6 DEF RemoveEdge
  <2>3. ASSUME NEW x \in Live(nodes) \ crossed, NEW f \in FieldsOf(nodes[x].type), f.required
        PROVE  RefEdges(edges', x, f.name) # {}
    <3>1. PICK e \in edges : e.field = f.name /\ e.from = x
      BY <1>1, <2>3
    <3>2. CASE e # d
      BY <1>2, <2>1, <3>1, <3>2
    <3>3. CASE e = d
      <4>1. g = f
        BY <2>2, <2>3, <3>1, <3>3, SchemaAssumption DEF SchemaAssumption, NamesUnique, FieldsOf
      <4>2. ~ Undirected(f)
        BY <2>3 DEF RequiredIsDirected, FieldsOf
      <4>3. FieldEdges(edges, x, f) \ {d} # {}
        BY <2>2, <2>3, <3>1, <3>3, <4>1 DEF AnotherEdgeIsLeft, CountedEnds
      <4>4. PICK k \in edges : k # d /\ k.field = f.name /\ k.from = x
        BY <4>2, <4>3 DEF FieldEdges
      <4> QED
        BY <1>2, <2>1, <4>4
    <3> QED
      BY <3>2, <3>3
  <2> QED
    BY <2>1, <2>3 DEF RequiredFilled
<1>7. ASSUME NEW n \in NodeId, DeleteNode(n) PROVE RequiredFilled'
  <2>1. /\ Live(nodes') = Live(nodes) \ {n} /\ crossed' = crossed \ {n}
        /\ \A m \in NodeId \ {n} : nodes'[m] = nodes[m]
    BY <1>0, <1>7, DeleteRemovesRow DEF DeleteNode
  <2>2. /\ \A e \in edges : e.to = n => e.from = n
        /\ edges' = {e \in edges : e.from # n /\ e.to # n}
    BY <1>7 DEF DeleteNode, IncomingReferences
  <2>3. ASSUME NEW x \in Live(nodes) \ crossed, x # n, NEW f \in FieldsOf(nodes[x].type), f.required
        PROVE  RefEdges(edges', x, f.name) # {}
    <3>1. PICK e \in edges : e.field = f.name /\ e.from = x
      BY <1>1, <2>3
    <3>2. e \in edges'
      BY <2>2, <2>3, <3>1
    <3> QED
      BY <1>2, <3>1, <3>2
  <2>4. \A x \in Live(nodes') \ crossed' : x \in Live(nodes) \ crossed /\ x # n /\ nodes'[x] = nodes[x]
    BY <2>1 DEF Live
  <2> QED
    BY <2>3, <2>4 DEF RequiredFilled
<1>8. ASSUME UNCHANGED <<nodes, edges, crossed>> PROVE RequiredFilled'
  BY <1>8 DEF RequiredFilled, Live
<1> QED
  BY <1>3, <1>4, <1>5, <1>6, <1>7, <1>8
     DEF Next, vars, GetNode, PatchRead, AddEdgeRead, Abort

\* No operation on any node, and no order of them, leaves a required
\* reference empty, when no undirected field has the name of a required one.
THEOREM RequiredStaysFilled ==
    ASSUME RequiredIsDirected PROVE Spec => []RequiredFilled
<1> DEFINE Inv == TypeInv /\ NoDanglingEdge /\ ReadsArePast /\ EdgeFitsSchema /\ RequiredFilled
<1>1. Init => Inv
  BY TypeInit, DanglingInit, ReadInit, FitInit, FilledInit
<1>2. Inv /\ [Next]_vars => Inv'
  BY TypeNext, DanglingNext, ReadNext, FitNext, FilledNext
<1> QED
  BY <1>1, <1>2, PTL DEF Spec

-----------------------------------------------------------------------------
(***************************************************************************)
(* Reachability.                                                           *)
(***************************************************************************)
LEMMA ReachesMore ==
    ASSUME NEW R, NEW Q, R \subseteq Q, NEW V, NEW a, NEW b, Reaches(R, V, a, b)
    PROVE  Reaches(Q, V, a, b)
  BY DEF Reaches, Closed

LEMMA ReachesItself == ASSUME NEW R, NEW V, NEW a PROVE Reaches(R, V, a, a)
  BY DEF Reaches

LEMMA ReachesOn ==
    ASSUME NEW R, NEW V, NEW a, NEW p \in R, Reaches(R, V, a, p[1])
    PROVE  Reaches(R, V, a, p[2])
  BY DEF Reaches, Closed

LEMMA ReachesThrough ==
    ASSUME NEW R, NEW V, NEW a, NEW b, NEW c, Reaches(R, V, a, b), Reaches(R, V, b, c)
    PROVE  Reaches(R, V, a, c)
  BY DEF Reaches

LEMMA FewerAreAcyclic ==
    ASSUME NEW R, NEW Q, R \subseteq Q, NEW V, IsAcyclic(Q, V)
    PROVE  IsAcyclic(R, V)
  BY ReachesMore DEF IsAcyclic

\* A relation whose pairs all go up has no cycle.
LEMMA UpwardIsAcyclic ==
    ASSUME NEW R, \A p \in R : p[1] \in NodeId /\ p[2] \in NodeId /\ p[1] < p[2]
    PROVE  IsAcyclic(R, NodeId)
<1> SUFFICES ASSUME NEW p \in R PROVE ~ Reaches(R, NodeId, p[2], p[1])
  BY DEF IsAcyclic
<1> DEFINE S == {x \in NodeId : p[2] =< x}
<1>1. \A x \in NodeId : x \in Int
  BY BoundAssumption DEF NodeId
<1>2. p[2] \in S /\ p[1] \notin S
  BY <1>1
<1>3. Closed(R, S)
  BY <1>1 DEF Closed
<1> QED
  BY <1>2, <1>3 DEF Reaches

(***************************************************************************)
(* Pairs that all leave n, to vertices from which n is not reached over R  *)
(* (or over more than R), close no cycle: a new cycle would go through two *)
(* of them, or through one and back to n over R.                           *)
(***************************************************************************)
LEMMA StarKeepsAcyclic ==
    ASSUME NEW V, NEW R \in SUBSET (V \X V), IsAcyclic(R, V), NEW n \in V, NEW D,
           \A d \in D : d[1] = n /\ d[2] \in V /\ ~ Reaches(R, V, d[2], n)
    PROVE  IsAcyclic(R \cup D, V)
<1> DEFINE From(a) == {x \in V : Reaches(R, V, a, x)}
<1>1. \A r \in R : r[1] \in V /\ r[2] \in V
  OBVIOUS
<1>2. ASSUME NEW a \in V PROVE a \in From(a) /\ Closed(R, From(a))
  BY <1>1, ReachesItself, ReachesOn DEF Closed
<1>3. ASSUME NEW p \in D PROVE ~ Reaches(R \cup D, V, p[2], p[1])
  <2>1. p[2] \in From(p[2]) /\ n \notin From(p[2]) /\ Closed(R, From(p[2]))
    BY <1>2, <1>3
  <2>2. Closed(R \cup D, From(p[2]))
    BY <2>1 DEF Closed
  <2> HIDE DEF From
  <2>3. From(p[2]) \in SUBSET V
    BY DEF From
  <2> QED
    BY <1>3, <2>1, <2>2, <2>3 DEF Reaches
<1>4. ASSUME NEW p \in R PROVE ~ Reaches(R \cup D, V, p[2], p[1])
  <2>1. p[2] \in V /\ p[1] \notin From(p[2])
    BY <1>1, <1>4 DEF IsAcyclic
  <2>2. CASE n \notin From(p[2])
    <3>1. p[2] \in From(p[2]) /\ Closed(R, From(p[2]))
      BY <1>2, <2>1
    <3>2. Closed(R \cup D, From(p[2]))
      BY <2>2, <3>1 DEF Closed
    <3>3. From(p[2]) \in SUBSET V
      OBVIOUS
    <3> HIDE DEF From
    <3> QED
      BY <2>1, <3>1, <3>2, <3>3 DEF Reaches
  <2>3. CASE n \in From(p[2])
    <3> DEFINE T == From(p[2]) \cup UNION {From(d[2]) : d \in D}
    <3>1. p[2] \in T /\ T \in SUBSET V
      BY <1>2, <2>1
    <3>2. ASSUME NEW d \in D PROVE p[1] \notin From(d[2])
      <4>1. SUFFICES ASSUME p[1] \in From(d[2]) PROVE Reaches(R, V, d[2], n)
        BY <3>2
      <4>2. Reaches(R, V, d[2], p[2])
        BY <1>4, <4>1, ReachesOn
      <4> QED
        BY <2>3, <4>2, ReachesThrough
    <3>3. p[1] \notin T
      BY <2>1, <3>2
    <3>4. Closed(R, T)
      <4>1. ASSUME NEW a \in V, NEW r \in R, r[1] \in From(a) PROVE r[2] \in From(a)
        BY <1>1, <4>1, ReachesOn
      <4> HIDE DEF From
      <4> QED
        BY <2>1, <4>1 DEF Closed
    <3>5. \A d \in D : d[2] \in T
      <4>1. ASSUME NEW d \in D PROVE d[2] \in From(d[2])
        BY <1>2
      <4> HIDE DEF From
      <4> QED
        BY <4>1
    <3>6. Closed(R \cup D, T)
      BY <3>4, <3>5 DEF Closed
    <3> HIDE DEF T
    <3> QED
      BY <3>1, <3>3, <3>6 DEF Reaches
  <2> QED
    BY <2>2, <2>3
<1> QED
  BY <1>3, <1>4 DEF IsAcyclic

-----------------------------------------------------------------------------
(***************************************************************************)
(* One write: the rows in K stay, the rows in D come.  In the relation f   *)
(* the stored pairs do not become more by the write of nodes, and the new  *)
(* ones leave n and have passed wouldCreateCycle.                          *)
(***************************************************************************)
Visible(N, X, f, n) == n \in Live(N) \ X /\ N[n].type = f.type

LEMMA WriteKeepsAcyclic ==
    ASSUME TypeOK, TypeOK', NEW f \in Field, IsAcyclic(OrderedPairs(f), NodeId),
           NEW n \in NodeId, NEW K \in SUBSET edges, NEW D,
           edges' = K \cup D,
           \A e \in K : Visible(nodes', crossed', f, e.from) => Visible(nodes, crossed, f, e.from),
           \A e \in D : e.field = f.name /\ Visible(nodes', crossed', f, e.from) =>
              e.from = n /\ ~ WouldCreateCycle(nodes', K, f, n, e.to)
    PROVE  IsAcyclic(OrderedPairs(f)', NodeId)
<1> DEFINE R == {<<e.from, e.to>> : e \in {d \in K : d.field = f.name /\ Visible(nodes', crossed', f, d.from)}}
           S == {<<e.from, e.to>> : e \in {d \in D : d.field = f.name /\ Visible(nodes', crossed', f, d.from)}}
           Q == FieldPairs(nodes', K, f.type, f.name)
<1>1. OrderedPairs(f)' = R \cup S
  BY DEF OrderedPairs, Visible
<1>2. R \subseteq OrderedPairs(f)
  BY DEF OrderedPairs, Visible
<1>3. R \subseteq Q
  BY DEF FieldPairs, Visible
<1>4. \A e \in edges' : e.from \in NodeId /\ e.to \in NodeId
  BY DEF TypeOK, Edge
<1>5. R \in SUBSET (NodeId \X NodeId)
  BY <1>4
<1>6. ASSUME NEW s \in S
      PROVE  s[1] = n /\ s[2] \in NodeId /\ ~ Reaches(R, NodeId, s[2], n)
  <2>1. PICK e \in D : e.field = f.name /\ Visible(nodes', crossed', f, e.from) /\ s = <<e.from, e.to>>
    BY <1>6
  <2>2. e.from = n /\ ~ Reaches(Q, NodeId, e.to, n)
    BY <2>1 DEF WouldCreateCycle
  <2>3. s[1] = n /\ s[2] = e.to /\ e.to \in NodeId
    BY <1>4, <2>1, <2>2
  <2> HIDE DEF Q, R
  <2> QED
    BY <1>3, <2>2, <2>3, ReachesMore
<1>7. IsAcyclic(R, NodeId)
  BY <1>2, FewerAreAcyclic
<1> HIDE DEF R, S
<1> QED
  BY <1>1, <1>5, <1>6, <1>7, StarKeepsAcyclic

\* A new row that the directed relation f has is an edge of f from the node
\* that is written: a field of the same name and type is f itself.
LEMMA NewRowOfDirected ==
    ASSUME NEW N, NEW X, NEW f \in Field, Ordered(f), ~ Undirected(f),
           NEW g \in Field, NEW n, NEW m, NEW E, Insertable(N, E, g, n, m),
           n \notin X => N[n].type = g.type,
           EdgeFor(g, n, m).field = f.name, Visible(N, X, f, EdgeFor(g, n, m).from)
    PROVE  /\ EdgeFor(g, n, m).from = n
           /\ ~ WouldCreateCycle(N, E, f, n, EdgeFor(g, n, m).to)
<1> DEFINE e == EdgeFor(g, n, m)
<1>1. /\ e.field = g.name /\ e.symmetric = Undirected(g)
      /\ \/ e.from = n /\ e.to = m
         \/ e.symmetric /\ e.from = m /\ e.to = n
  BY EdgeForEnds
<1>2. N[m].type = g.to
  BY DEF Insertable, TargetFits
<1>3. Undirected(g) => g.to = g.type
  BY SchemaAssumption DEF SchemaAssumption, AlgebraIsSelfReference
<1>4. N[e.from].type = f.type /\ e.from \notin X
  BY DEF Visible
<1> HIDE DEF e
<1>5. g.type = f.type
  BY <1>1, <1>2, <1>3, <1>4
<1>6. g = f
  BY <1>1, <1>5, SchemaAssumption DEF SchemaAssumption, NamesUnique, e
<1>7. e.from = n /\ e.to = m
  BY <1>1, <1>6
<1> QED
  BY <1>6, <1>7 DEF Insertable, e

DirectedAcyclic ==
    \A f \in Field : Ordered(f) /\ ~ Undirected(f) => IsAcyclic(OrderedPairs(f), NodeId)

LEMMA AcyclicInit == Init => DirectedAcyclic
  BY DEF Init, DirectedAcyclic, OrderedPairs, IsAcyclic

LEMMA AcyclicNext ==
    TypeInv /\ TypeInv' /\ NoDanglingEdge /\ ReadsArePast /\ DirectedAcyclic /\ [Next]_vars
        => DirectedAcyclic'
<1> SUFFICES ASSUME TypeInv, TypeInv', NoDanglingEdge, ReadsArePast, DirectedAcyclic,
                    [Next]_vars,
                    NEW f \in Field, Ordered(f), ~ Undirected(f)
             PROVE  IsAcyclic(OrderedPairs(f)', NodeId)
  BY DEF DirectedAcyclic
<1>0. TypeOK /\ TypeOK' /\ IsAcyclic(OrderedPairs(f), NodeId)
  BY DEF TypeInv, DirectedAcyclic
<1>1. ASSUME NEW id \in NextIds(nodes), NEW type \in Type, NEW text \in Text,
             NEW L \in LinksOf(FieldsOf(type), [nodes EXCEPT ![id] =
                     [type |-> type, revision |-> 1, text |-> text]]),
             CreateNode(id, type, text, L)
      PROVE IsAcyclic(OrderedPairs(f)', NodeId)
  <2>1. /\ id \in NodeId \ Live(nodes)
        /\ nodes'[id].type = type
        /\ \A m \in NodeId \ {id} : nodes'[m] = nodes[m]
        /\ Live(nodes') = Live(nodes) \cup {id}
    <3>1. /\ id \in NodeId \ Live(nodes)
          /\ nodes'[id] = [type |-> type, revision |-> 1, text |-> text]
          /\ \A m \in NodeId \ {id} : nodes'[m] = nodes[m]
          /\ Live(nodes') = Live(nodes) \cup {id}
      BY <1>0, <1>1, CreateAddsRow
    <3> QED
      BY <3>1
  <2>2. edges' = edges \cup NewEdges(id, L) /\ crossed' = crossed /\ AllInsertable(nodes', edges, id, L)
    BY <1>1 DEF CreateNode
  <2>3. \A e \in edges : Visible(nodes', crossed', f, e.from) => Visible(nodes, crossed, f, e.from)
    BY <2>1, <2>2 DEF Visible, NoDanglingEdge, Live
  <2>4. ASSUME NEW e \in NewEdges(id, L), e.field = f.name, Visible(nodes', crossed', f, e.from)
        PROVE  e.from = id /\ ~ WouldCreateCycle(nodes', edges, f, id, e.to)
    <3>1. PICK l \in L : e = EdgeFor(l[1], id, l[2])
      BY DEF NewEdges
    <3>2. l[1] \in Field /\ l[1].type = type
      BY DEF LinksOf, FieldsOf
    <3>3. Insertable(nodes', edges, l[1], id, l[2])
      BY <2>2 DEF AllInsertable
    <3>4. nodes'[id].type = l[1].type
      BY <2>1, <3>2
    <3>5. /\ EdgeFor(l[1], id, l[2]).field = f.name
          /\ Visible(nodes', crossed', f, EdgeFor(l[1], id, l[2]).from)
      BY <2>4, <3>1
    <3>6. /\ EdgeFor(l[1], id, l[2]).from = id
          /\ ~ WouldCreateCycle(nodes', edges, f, id, EdgeFor(l[1], id, l[2]).to)
      BY <3>2, <3>3, <3>4, <3>5, NewRowOfDirected
    <3> QED
      BY <3>1, <3>6
  <2> QED
    BY <1>0, <2>1, <2>2, <2>3, <2>4, WriteKeepsAcyclic
<1>2. ASSUME NEW c \in Client, NEW text \in Text,
             NEW F \in SUBSET Patchable(c), NEW L \in LinksOf(F, nodes),
             PatchCommit(c, F, text, L)
      PROVE IsAcyclic(OrderedPairs(f)', NodeId)
  <2> DEFINE n == pending[c].id
             kept == edges \ UNION {FieldEdges(edges, n, g) : g \in F}
  <2>1. /\ n \in Live(nodes) /\ Live(nodes') = Live(nodes)
        /\ \A m \in NodeId : nodes'[m].type = nodes[m].type
    <3>1. /\ n \in Live(nodes) /\ Live(nodes') = Live(nodes)
          /\ \A m \in NodeId \ {n} : nodes'[m] = nodes[m]
          /\ nodes'[n] = [type |-> nodes[n].type,
                          revision |-> nodes[n].revision + 1, text |-> text]
      BY <1>0, <1>2, PatchKeepsLive
    <3> HIDE DEF n
    <3> QED
      BY <3>1
  <2>2. /\ edges' = kept \cup NewEdges(n, L)
        /\ AllInsertable(nodes', kept, n, L)
        /\ crossed' = IF pending[c].read = generation[n] THEN crossed ELSE crossed \cup {n}
        /\ pending[c] # Idle /\ pending[c].op = "patch"
    BY <1>2 DEF PatchCommit
  <2>3. \A e \in kept : Visible(nodes', crossed', f, e.from) => Visible(nodes, crossed, f, e.from)
    BY <2>1, <2>2 DEF Visible, Live
  <2>4. n \notin crossed' => nodes'[n].type = pending[c].type
    BY <2>1, <2>2 DEF ReadsArePast, ReadIsPast, Live
  <2>5. ASSUME NEW e \in NewEdges(n, L), e.field = f.name, Visible(nodes', crossed', f, e.from)
        PROVE  e.from = n /\ ~ WouldCreateCycle(nodes', kept, f, n, e.to)
    <3>1. PICK l \in L : e = EdgeFor(l[1], n, l[2])
      BY DEF NewEdges
    <3>2. l[1] \in Field /\ l[1].type = pending[c].type
      BY DEF LinksOf, Patchable
    <3>3. Insertable(nodes', kept, l[1], n, l[2])
      BY <2>2 DEF AllInsertable
    <3> HIDE DEF n, kept
    <3> QED
      BY <2>4, <2>5, <3>1, <3>2, <3>3, NewRowOfDirected
  <2>6. n \in NodeId /\ kept \in SUBSET edges
    BY <2>1 DEF Live
  <2> HIDE DEF n, kept
  <2> QED
    BY <1>0, <2>2, <2>3, <2>5, <2>6, WriteKeepsAcyclic
<1>3. ASSUME NEW c \in Client, NEW g \in Field, NEW to \in NodeId,
             AddEdgeCommit(c, g, to)
      PROVE IsAcyclic(OrderedPairs(f)', NodeId)
  <2> DEFINE n == pending[c].id
             e == EdgeFor(g, n, to)
             D == {e}
  <2>1. /\ edges' = edges \cup {e} /\ nodes' = nodes
        /\ g.type = pending[c].type
        /\ Insertable(nodes', edges, g, n, to)
        /\ crossed' = IF pending[c].read = generation[n] THEN crossed ELSE crossed \cup {n}
        /\ pending[c] # Idle /\ pending[c].op = "addEdge"
    BY <1>3 DEF AddEdgeCommit
  <2>2. n \in Live(nodes) /\ n \in NodeId
    BY <2>1 DEF Insertable, Live
  <2>3. \A d \in edges : Visible(nodes', crossed', f, d.from) => Visible(nodes, crossed, f, d.from)
    BY <2>1 DEF Visible
  <2>4. n \notin crossed' => nodes'[n].type = g.type
    BY <2>1, <2>2 DEF ReadsArePast, ReadIsPast
  <2>5. ASSUME NEW d \in D, d.field = f.name, Visible(nodes', crossed', f, d.from)
        PROVE  d.from = n /\ ~ WouldCreateCycle(nodes', edges, f, n, d.to)
    <3>1. Insertable(nodes', edges, g, n, to)
      BY <2>1
    <3>2. e.field = f.name /\ Visible(nodes', crossed', f, e.from)
      BY <2>5
    <3>3. n \notin crossed' => nodes'[n].type = g.type
      BY <2>4
    <3> HIDE DEF n
    <3>4. e.from = n /\ ~ WouldCreateCycle(nodes', edges, f, n, e.to)
      BY <3>1, <3>2, <3>3, NewRowOfDirected
    <3> HIDE DEF e
    <3> QED
      BY <3>4
  <2>6. edges' = edges \cup D /\ edges \in SUBSET edges
    BY <2>1
  <2> HIDE DEF n, e, D
  <2> QED
    BY <1>0, <2>2, <2>3, <2>5, <2>6, WriteKeepsAcyclic
<1>4. ASSUME OrderedPairs(f)' \subseteq OrderedPairs(f) PROVE IsAcyclic(OrderedPairs(f)', NodeId)
  BY <1>0, <1>4, FewerAreAcyclic
<1>5. ASSUME NEW e \in edges, RemoveEdge(e) PROVE IsAcyclic(OrderedPairs(f)', NodeId)
  BY <1>4, <1>5 DEF RemoveEdge, OrderedPairs
<1>6. ASSUME NEW n \in NodeId, DeleteNode(n) PROVE IsAcyclic(OrderedPairs(f)', NodeId)
  <2>1. /\ Live(nodes') = Live(nodes) \ {n} /\ crossed' = crossed \ {n}
        /\ \A m \in NodeId \ {n} : nodes'[m] = nodes[m]
        /\ edges' \subseteq edges
    BY <1>0, <1>6, DeleteRemovesRow DEF DeleteNode
  <2>2. OrderedPairs(f)' \subseteq OrderedPairs(f)
    BY <2>1 DEF OrderedPairs, Live
  <2> QED
    BY <1>4, <2>2
<1>7. ASSUME UNCHANGED <<nodes, edges, crossed>> PROVE IsAcyclic(OrderedPairs(f)', NodeId)
  BY <1>4, <1>7 DEF OrderedPairs
<1> QED
  BY <1>1, <1>2, <1>3, <1>5, <1>6, <1>7
     DEF Next, vars, GetNode, PatchRead, AddEdgeRead, Abort

\* Clients that insert edges by creates, patches and AddEdge in any order
\* never close a cycle in a transitive or tree.parent relation.  If such a
\* relation is undirected, its rows all go from the smaller id to the larger.
THEOREM RelationsAreAcyclic == Spec => []NoRelationCycle
<1>1. TypeInv /\ EdgeFitsSchema /\ ConstraintsHold(edges) /\ DirectedAcyclic => NoRelationCycle
  <2> SUFFICES ASSUME TypeInv, EdgeFitsSchema, ConstraintsHold(edges), DirectedAcyclic,
                      NEW f \in Field, Ordered(f)
               PROVE  IsAcyclic(OrderedPairs(f), NodeId)
    BY DEF NoRelationCycle
  <2>1. CASE ~ Undirected(f)
    BY <2>1 DEF DirectedAcyclic
  <2>2. CASE Undirected(f)
    <3>1. ASSUME NEW e \in edges, e.field = f.name, e.from \in Live(nodes) \ crossed,
                 nodes[e.from].type = f.type
          PROVE  e.from < e.to /\ e.from \in NodeId /\ e.to \in NodeId
      <4>1. FitsOwner(nodes, crossed, e, e.from)
        BY <3>1 DEF EdgeFitsSchema, Owners
      <4>2. PICK g \in FieldsOf(nodes[e.from].type) : g.name = e.field /\ Undirected(g) = e.symmetric
        BY <4>1 DEF FitsOwner
      <4>3. g = f
        BY <3>1, <4>2, SchemaAssumption DEF SchemaAssumption, NamesUnique, FieldsOf
      <4>4. InOrder(e)
        BY <3>1 DEF ConstraintsHold
      <4> QED
        BY <2>2, <4>2, <4>3, <4>4 DEF InOrder, TypeInv, TypeOK, Edge
    <3> QED
      BY <3>1, UpwardIsAcyclic DEF OrderedPairs
  <2> QED
    BY <2>1, <2>2
<1> QED
  BY <1>1, TypeInit, TypeNext, DanglingInit, DanglingNext, ReadInit, ReadNext, FitInit, FitNext,
     ConstraintsInit, ConstraintsNext, AcyclicInit, AcyclicNext, PTL DEF Spec

-----------------------------------------------------------------------------
(***************************************************************************)
(* The edge table implements the reference store, for every schema in      *)
(* which a field name is undirected in all types that use it or in none.   *)
(* Without that hypothesis it does not: deleteFieldEdges deletes by name,  *)
(* and a write of one node would empty a field of another.                 *)
(***************************************************************************)

\* A name is undirected wherever it is used, or nowhere.
NamesAgree == \A f, g \in Field : f.name = g.name => Undirected(f) = Undirected(g)

(***************************************************************************)
(* What is needed of the rows: the flag that says from how many ends a row *)
(* is read goes by its field name.                                         *)
(***************************************************************************)
FlagsFit(E) == \A e \in E : e.symmetric <=> e.field \in MirroredName

\* k is in the value of m's field when a row says so from one of its ends.
LEMMA ValueByRows ==
    ASSUME NEW E, FlagsFit(E), NEW m, NEW k, NEW f
    PROVE  k \in RefValue(E, m, f) <=>
             \E e \in E : /\ e.field = f
                          /\ \/ e.from = m /\ e.to = k
                             \/ f \in MirroredName /\ e.to = m /\ e.from = k
<1>1. ASSUME k \in RefValue(E, m, f)
      PROVE  \E e \in E : /\ e.field = f
                          /\ \/ e.from = m /\ e.to = k
                             \/ f \in MirroredName /\ e.to = m /\ e.from = k
  <2>1. PICK e \in RefEdges(E, m, f) : k = OtherEnd(e, m)
    BY <1>1 DEF RefValue
  <2>2. e \in E /\ e.field = f /\ m \in Owners(e)
    BY DEF RefEdges
  <2>3. e.symmetric <=> f \in MirroredName
    BY <2>2 DEF FlagsFit
  <2> QED
    BY <2>1, <2>2, <2>3 DEF OtherEnd, Owners
<1>2. ASSUME NEW e \in E, e.field = f,
             \/ e.from = m /\ e.to = k
             \/ f \in MirroredName /\ e.to = m /\ e.from = k
      PROVE  k \in RefValue(E, m, f)
  <2>1. e.symmetric <=> f \in MirroredName
    BY <1>2 DEF FlagsFit
  <2>2. m \in Owners(e) /\ OtherEnd(e, m) = k
    BY <1>2, <2>1 DEF Owners, OtherEnd
  <2> QED
    BY <1>2, <2>2 DEF RefValue, RefEdges
<1> QED
  BY <1>1, <1>2

(***************************************************************************)
(* A write of n changes only rows that n reads.  Then another node loses   *)
(* and wins nothing but n itself, and that only in mirrored fields.        *)
(***************************************************************************)
LEMMA OthersFollow ==
    ASSUME NEW D, NEW E, FlagsFit(D), FlagsFit(E), NEW n,
           \A e : n \notin Owners(e) => (e \in D <=> e \in E),
           NEW m, m # n, NEW f
    PROVE  RefValue(E, m, f) =
             IF f \in MirroredName
             THEN (RefValue(D, m, f) \ {n}) \cup (IF m \in RefValue(E, n, f) THEN {n} ELSE {})
             ELSE RefValue(D, m, f)
<1>1. CASE f \notin MirroredName
  <2>1. ASSUME NEW k, NEW e, e.from = m, e.field = f
        PROVE  e \in D <=> e \in E
    <3>1. CASE e.symmetric
      BY <1>1, <2>1, <3>1 DEF FlagsFit
    <3>2. CASE ~ e.symmetric
      BY <2>1, <3>2 DEF Owners
    <3> QED
      BY <3>1, <3>2
  <2>2. \A k : k \in RefValue(E, m, f) <=> k \in RefValue(D, m, f)
    BY <1>1, <2>1, ValueByRows
  <2> QED
    BY <1>1, <2>2
<1>2. CASE f \in MirroredName
  <2>1. ASSUME NEW k, k # n, NEW e, e.field = f,
               (e.from = m /\ e.to = k) \/ (e.to = m /\ e.from = k)
        PROVE  e \in D <=> e \in E
    BY <2>1 DEF Owners
  <2>2. \A k : k # n => (k \in RefValue(E, m, f) <=> k \in RefValue(D, m, f))
    BY <2>1, ValueByRows
  <2>3. n \in RefValue(E, m, f) <=> m \in RefValue(E, n, f)
    BY <1>2, ValueByRows
  <2>4. \A k : k \in RefValue(E, m, f) <=>
                 k \in (RefValue(D, m, f) \ {n}) \cup (IF m \in RefValue(E, n, f) THEN {n} ELSE {})
    BY <2>2, <2>3
  <2> QED
    BY <1>2, <2>4
<1> QED
  BY <1>1, <1>2

-----------------------------------------------------------------------------
LEMMA FlagsInit == Init => FlagsFit(edges)
  BY DEF Init, FlagsFit

LEMMA NewFlagsFit ==
    ASSUME NamesAgree, NEW f \in Field, NEW n, NEW m
    PROVE  EdgeFor(f, n, m).symmetric <=> EdgeFor(f, n, m).field \in MirroredName
<1>1. EdgeFor(f, n, m).symmetric = Undirected(f) /\ EdgeFor(f, n, m).field = f.name
  BY EdgeForEnds
<1>2. Undirected(f) <=> f.name \in MirroredName
  BY DEF NamesAgree, MirroredName
<1> QED
  BY <1>1, <1>2

\* The rows that the write of n leaves alone are those that n does not read.
Elsewhere(n) == \A e : n \notin Owners(e) => (e \in edges <=> e \in edges')

LEMMA NewIsOwned ==
    ASSUME NEW f, NEW n, NEW m PROVE n \in Owners(EdgeFor(f, n, m))
  BY EdgeForEnds DEF Owners

LEMMA CreateIsLocal ==
    ASSUME NamesAgree, FlagsFit(edges), NEW id, NEW type, NEW text,
           NEW L \in LinksOf(FieldsOf(type), nodes'), CreateNode(id, type, text, L)
    PROVE  FlagsFit(edges') /\ Elsewhere(id)
<1>1. edges' = edges \cup NewEdges(id, L)
  BY DEF CreateNode
<1>2. \A l \in L : l[1] \in Field
  BY DEF LinksOf, FieldsOf
<1>3. FlagsFit(edges')
  BY <1>1, <1>2, NewFlagsFit DEF FlagsFit, NewEdges
<1>4. Elsewhere(id)
  BY <1>1, NewIsOwned DEF Elsewhere, NewEdges
<1> QED
  BY <1>3, <1>4

LEMMA PatchIsLocal ==
    ASSUME NamesAgree, FlagsFit(edges), NEW c \in Client, NEW text,
           NEW F \in SUBSET Patchable(c), NEW L \in LinksOf(F, nodes),
           PatchCommit(c, F, text, L)
    PROVE  FlagsFit(edges') /\ Elsewhere(pending[c].id)
<1> DEFINE n == pending[c].id
           gone == UNION {FieldEdges(edges, n, f) : f \in F}
<1>1. edges' = (edges \ gone) \cup NewEdges(n, L)
  BY DEF PatchCommit
<1>2. F \subseteq Field /\ \A l \in L : l[1] \in Field
  BY DEF LinksOf, Patchable
<1>3. FlagsFit(edges')
  BY <1>1, <1>2, NewFlagsFit DEF FlagsFit, NewEdges
<1>4. ASSUME NEW e \in gone PROVE n \in Owners(e)
  <2>1. PICK f \in F : e \in FieldEdges(edges, n, f)
    BY <1>4
  <2>2. e \in edges /\ e.field = f.name /\ (e.from = n \/ (Undirected(f) /\ e.to = n))
    BY <2>1 DEF FieldEdges
  <2>3. Undirected(f) => e.symmetric
    BY <1>2, <2>2 DEF FlagsFit, MirroredName
  <2> QED
    BY <2>2, <2>3 DEF Owners
<1>5. \A e \in NewEdges(n, L) : n \in Owners(e)
  BY NewIsOwned DEF NewEdges
<1>6. Elsewhere(n)
  BY <1>1, <1>4, <1>5 DEF Elsewhere
<1> QED
  BY <1>3, <1>6

LEMMA AddIsLocal ==
    ASSUME NamesAgree, FlagsFit(edges), NEW c \in Client, NEW f \in Field, NEW to \in NodeId,
           AddEdgeCommit(c, f, to)
    PROVE  FlagsFit(edges') /\ Elsewhere(pending[c].id)
  BY NewFlagsFit, NewIsOwned DEF AddEdgeCommit, FlagsFit, Elsewhere

LEMMA FlagsNext ==
    NamesAgree /\ FlagsFit(edges) /\ [Next]_vars => FlagsFit(edges)'
<1> SUFFICES ASSUME NamesAgree, FlagsFit(edges), [Next]_vars PROVE FlagsFit(edges')
  BY DEF FlagsFit
<1>1. ASSUME NEW id \in NextIds(nodes), NEW type \in Type, NEW text \in Text,
             NEW L \in LinksOf(FieldsOf(type), [nodes EXCEPT ![id] =
                     [type |-> type, revision |-> 1, text |-> text]]),
             CreateNode(id, type, text, L)
      PROVE FlagsFit(edges')
  BY <1>1, CreateIsLocal DEF CreateNode
<1>2. ASSUME NEW c \in Client, NEW text \in Text,
             NEW F \in SUBSET Patchable(c), NEW L \in LinksOf(F, nodes),
             PatchCommit(c, F, text, L)
      PROVE FlagsFit(edges')
  BY <1>2, PatchIsLocal
<1>3. ASSUME NEW c \in Client, NEW f \in Field, NEW to \in NodeId, AddEdgeCommit(c, f, to)
      PROVE FlagsFit(edges')
  BY <1>3, AddIsLocal
<1>4. ASSUME NEW e \in edges, RemoveEdge(e) PROVE FlagsFit(edges')
  BY <1>4 DEF RemoveEdge, FlagsFit
<1>5. ASSUME NEW n \in NodeId, DeleteNode(n) PROVE FlagsFit(edges')
  BY <1>5 DEF DeleteNode, FlagsFit
<1>6. ASSUME UNCHANGED edges PROVE FlagsFit(edges')
  BY <1>6
<1> QED
  BY <1>1, <1>2, <1>3, <1>4, <1>5, <1>6
     DEF Next, vars, GetNode, PatchRead, AddEdgeRead, Abort

-----------------------------------------------------------------------------
(***************************************************************************)
(* Steps of the edge table are steps of the store.                         *)
(***************************************************************************)
Sound == TypeInv /\ NoDanglingEdge /\ ConstraintsHold(edges) /\ FlagsFit(edges)

\* The new value of the node that is written holds live nodes, and in a
\* mirrored field not the node itself.
LEMMA OwnValueFits ==
    ASSUME NEW N, NEW E, FlagsFit(E), E \in SUBSET Edge, \A e \in E : InOrder(e),
           \A e \in E : e.from \in Live(N) /\ e.to \in Live(N), NEW n, NEW f
    PROVE  /\ RefValue(E, n, f) \subseteq Live(N)
           /\ f \in MirroredName => n \notin RefValue(E, n, f)
<1>1. RefValue(E, n, f) \subseteq Live(N)
  BY ValueByRows
<1>2. ASSUME f \in MirroredName, n \in RefValue(E, n, f) PROVE FALSE
  <2>1. PICK e \in E : e.field = f /\ e.from = n /\ e.to = n
    BY <1>2, ValueByRows
  <2>2. e.from < e.to
    BY <1>2, <2>1 DEF FlagsFit, InOrder
  <2>3. e.from \in Int
    BY BoundAssumption DEF Edge, NodeId
  <2> QED
    BY <2>1, <2>2, <2>3
<1> QED
  BY <1>1, <1>2

LEMMA LocalIsRefer ==
    ASSUME Sound, Sound', NEW n \in NodeId, Elsewhere(n)
    PROVE  RS!Refer(n)
<1> DEFINE v == [m \in NodeId |-> [f \in FieldName |-> RefValue(edges, m, f)]]
           w == [m \in NodeId |-> [f \in FieldName |-> RefValue(edges', m, f)]]
<1>1. FlagsFit(edges) /\ FlagsFit(edges')
  BY DEF Sound
<1>2. ASSUME NEW f \in FieldName
      PROVE  w[n][f] \subseteq Live(nodes') /\ (f \in MirroredName => n \notin w[n][f])
  <2>1. /\ edges' \in SUBSET Edge
        /\ \A e \in edges' : InOrder(e)
        /\ \A e \in edges' : e.from \in Live(nodes') /\ e.to \in Live(nodes')
    BY DEF Sound, TypeInv, TypeOK, ConstraintsHold, NoDanglingEdge, InOrder
  <2>2. w[n][f] = RefValue(edges', n, f)
    OBVIOUS
  <2> QED
    BY <1>1, <2>1, <2>2, OwnValueFits
<1>3. ASSUME NEW m \in NodeId, m # n, NEW f \in FieldName
      PROVE  w[m][f] = IF f \in MirroredName
                       THEN (v[m][f] \ {n}) \cup (IF m \in w[n][f] THEN {n} ELSE {})
                       ELSE v[m][f]
  <2>1. /\ w[m][f] = RefValue(edges', m, f)
        /\ v[m][f] = RefValue(edges, m, f)
        /\ w[n][f] = RefValue(edges', n, f)
    OBVIOUS
  <2> QED
    BY <1>1, <1>3, <2>1, OthersFollow DEF Elsewhere
<1>4. w = [m \in NodeId |-> [f \in FieldName |->
             IF m = n THEN w[n][f]
             ELSE IF f \in MirroredName
                  THEN (v[m][f] \ {n}) \cup (IF m \in w[n][f] THEN {n} ELSE {})
                  ELSE v[m][f]]]
  BY <1>3
<1> QED
  BY <1>2, <1>4 DEF RS!Refer, RS!Mirror

LEMMA CreateStep ==
    ASSUME NamesAgree, Sound, Sound', NEW id \in NextIds(nodes), NEW type \in Type,
           NEW text \in Text, NEW L \in LinksOf(FieldsOf(type), nodes'),
           CreateNode(id, type, text, L)
    PROVE  RS!Create(id)
<1>1. id \in NodeId \ Live(nodes) /\ Live(nodes') = Live(nodes) \cup {id}
  BY CreateAddsRow DEF Sound, TypeInv
<1>2. Elsewhere(id)
  BY CreateIsLocal DEF Sound
<1>3. RS!Refer(id)
  BY <1>1, <1>2, LocalIsRefer
<1> QED
  BY <1>1, <1>3 DEF RS!Create

LEMMA WriteStep ==
    ASSUME Sound, Sound', NEW n \in Live(nodes), Live(nodes') = Live(nodes), Elsewhere(n)
    PROVE  RS!Write(n)
<1>1. RS!Refer(n)
  BY LocalIsRefer DEF Live
<1> QED
  BY <1>1 DEF RS!Write

LEMMA DeleteStep ==
    ASSUME Sound, Sound', NEW n \in NodeId, DeleteNode(n)
    PROVE  RS!Delete(n)
<1> DEFINE v == [m \in NodeId |-> [f \in FieldName |-> RefValue(edges, m, f)]]
           w == [m \in NodeId |-> [f \in FieldName |-> RefValue(edges', m, f)]]
<1>1. n \in Live(nodes) /\ Live(nodes') = Live(nodes) \ {n}
  BY DeleteRemovesRow DEF Sound, TypeInv
<1>2. FlagsFit(edges) /\ FlagsFit(edges')
  BY DEF Sound
<1>3. \A e \in edges : (e.to = n \/ (e.symmetric /\ e.from = n)) => e.from = e.to
  BY DEF DeleteNode, IncomingReferences
<1>4. \A e : e \in edges' <=> e \in edges /\ e.from # n /\ e.to # n
  BY DEF DeleteNode
<1>5. ASSUME NEW m \in NodeId, m # n, NEW f
      PROVE  n \notin RefValue(edges, m, f) /\ RefValue(edges', m, f) = RefValue(edges, m, f)
  <2>1. ASSUME NEW e \in edges, e.field = f,
               e.from = m \/ (f \in MirroredName /\ e.to = m)
        PROVE  e.from # n /\ e.to # n
    <3>1. f \in MirroredName => e.symmetric
      BY <1>2, <2>1 DEF FlagsFit
    <3> QED
      BY <1>3, <1>5, <2>1, <3>1
  <2>2. n \notin RefValue(edges, m, f)
    BY <1>2, <2>1, ValueByRows
  <2>3. \A k : k \in RefValue(edges', m, f) <=> k \in RefValue(edges, m, f)
    BY <1>2, <1>4, <2>1, ValueByRows
  <2> QED
    BY <2>2, <2>3
<1>6. \A f : RefValue(edges', n, f) = {}
  BY <1>2, <1>4, ValueByRows
<1>7. w = [v EXCEPT ![n] = [f \in FieldName |-> {}]]
  BY <1>5, <1>6
<1>8. \A m \in Live(nodes) \ {n} : \A f \in FieldName : n \notin v[m][f]
  BY <1>5 DEF Live
<1> QED
  BY <1>1, <1>7, <1>8 DEF RS!Delete, RS!Nothing

LEMMA StoreInit == Init => RS!Init
<1> SUFFICES ASSUME Init PROVE RS!Init
  OBVIOUS
<1>1. Live(nodes) = {}
  BY DEF Init, Live
<1>2. \A n, f : RefValue(edges, n, f) = {}
  BY DEF Init, RefValue, RefEdges
<1> QED
  BY <1>1, <1>2 DEF RS!Init, RS!Nothing

LEMMA StoreNext ==
    NamesAgree /\ Sound /\ Sound' /\ [Next]_vars => [RS!Next]_RS!storeVars
<1> SUFFICES ASSUME NamesAgree, Sound, Sound', [Next]_vars PROVE [RS!Next]_RS!storeVars
  OBVIOUS
<1>1. ASSUME NEW id \in NextIds(nodes), NEW type \in Type, NEW text \in Text,
             NEW L \in LinksOf(FieldsOf(type), [nodes EXCEPT ![id] =
                     [type |-> type, revision |-> 1, text |-> text]]),
             CreateNode(id, type, text, L)
      PROVE RS!Next
  <2>1. L \in LinksOf(FieldsOf(type), nodes') /\ id \in NodeId
    BY <1>1 DEF CreateNode, NextIds
  <2>2. RS!Create(id)
    BY <1>1, <2>1, CreateStep
  <2> QED
    BY <2>1, <2>2 DEF RS!Next
<1>2. ASSUME NEW n \in Live(nodes), Live(nodes') = Live(nodes), Elsewhere(n) PROVE RS!Next
  BY <1>2, WriteStep DEF RS!Next, Live
<1>3. ASSUME NEW c \in Client, NEW text \in Text,
             NEW F \in SUBSET Patchable(c), NEW L \in LinksOf(F, nodes),
             PatchCommit(c, F, text, L)
      PROVE RS!Next
  <2>1. pending[c].id \in Live(nodes) /\ Live(nodes') = Live(nodes)
    BY <1>3, PatchKeepsLive DEF Sound, TypeInv
  <2>2. Elsewhere(pending[c].id)
    BY <1>3, PatchIsLocal DEF Sound
  <2> QED
    BY <1>2, <2>1, <2>2
<1>4. ASSUME NEW c \in Client, NEW f \in Field, NEW to \in NodeId, AddEdgeCommit(c, f, to)
      PROVE RS!Next
  <2>1. pending[c].id \in Live(nodes) /\ nodes' = nodes
    BY <1>4 DEF AddEdgeCommit, Insertable
  <2>2. Elsewhere(pending[c].id)
    BY <1>4, AddIsLocal DEF Sound
  <2> QED
    BY <1>2, <2>1, <2>2
<1>5. ASSUME NEW e \in edges, RemoveEdge(e) PROVE RS!Next
  <2>1. e.from \in Live(nodes) /\ nodes' = nodes
    BY <1>5 DEF RemoveEdge, Sound, NoDanglingEdge
  <2>2. Elsewhere(e.from)
    BY <1>5 DEF RemoveEdge, Elsewhere, Owners
  <2> QED
    BY <1>2, <2>1, <2>2
<1>6. ASSUME NEW n \in NodeId, DeleteNode(n) PROVE RS!Next
  BY <1>6, DeleteStep DEF RS!Next
<1>7. ASSUME UNCHANGED <<nodes, edges>> PROVE UNCHANGED RS!storeVars
  <2>1. nodes' = nodes /\ edges' = edges
    BY <1>7
  <2> QED
    BY <2>1 DEF RS!storeVars
<1> QED
  BY <1>1, <1>3, <1>4, <1>5, <1>6, <1>7
     DEF Next, vars, GetNode, PatchRead, AddEdgeRead, Abort

\* Whatever clients had read before, each committed operation changes the
\* references of one node and, in mirrored fields, of the nodes it referred
\* to or now refers to; a delete changes nobody else's.
THEOREM EdgesImplementReferences ==
    ASSUME NamesAgree PROVE Spec => ImplementsReferenceStore
<1>1. Init => Sound
  BY TypeInit, DanglingInit, ConstraintsInit, FlagsInit DEF Sound
<1>2. Sound /\ [Next]_vars => Sound'
  BY TypeNext, DanglingNext, ConstraintsNext, FlagsNext DEF Sound
<1>3. Sound /\ Sound' /\ [Next]_vars => [RS!Next]_RS!storeVars
  BY StoreNext
<1> QED
  BY <1>1, <1>2, <1>3, StoreInit, PTL DEF Spec, ImplementsReferenceStore, RS!Spec
=============================================================================
