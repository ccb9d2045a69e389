--------------------------- MODULE NodeReadsProofs ---------------------------
(***************************************************************************)
(* Readers beside writers, for every schema, every set of nodes, every set *)
(* of expressions that is closed under parts, and every request.  Three    *)
(* inductive invariants carry the theorems:                                *)
(*                                                                         *)
(*   TablesOK  what the writers and the constraints keep of the tables;    *)
(*   ReadInv   a read holds nothing that has not been there since it       *)
(*             began, and fails only for a reason;                         *)
(*   ExactInv  while nobody writes, the answer is exact as far as the read *)
(*             has come.                                                   *)
(*                                                                         *)
(* The recursive definitions (Compiles, Truth, Below, Under) are functions *)
(* of a level.  Each gets its equation from the equation of one level, by  *)
(* induction over the number of levels (InductionLemmas).                  *)
(***************************************************************************)
EXTENDS NodeReads, InductionLemmas, FiniteSetTheorems, SequenceTheorems, TLAPS

-----------------------------------------------------------------------------
(***************************************************************************)
(* The tables.                                                             *)
(***************************************************************************)
\* The row e is what some field makes of two rows of N.
EdgeFits(N, e) ==
    \E f \in Field :
        /\ e.field = f.name /\ e.single = f.single /\ e.symmetric = Undirected(f)
        /\ N[e.from] # NoRow /\ N[e.from].type = f.type
        /\ N[e.to] # NoRow /\ N[e.to].type = f.to
        /\ Undirected(f) => e.from < e.to
        /\ Ordered(f) => e.from # e.to

\* What the constraints of the edges table ask of two rows.
Compatible(d, e) ==
    d.field = e.field =>
        /\ d.from = e.from /\ d.to = e.to => d = e
        /\ d.single /\ e.single =>
             /\ d.from = e.from => d = e
             /\ d.symmetric /\ e.symmetric /\ {d.from, d.to} \cap {e.from, e.to} # {} => d = e

\* The inductive invariant of the tables, cycles or not: whatever is imported, each edge
\* fits a field at both ends and any two edges are compatible.
TablesOK(N, E) ==
    /\ N \in [NodeId -> Row \cup {NoRow}]
    /\ E \in SUBSET Edge /\ IsFiniteSet(E)
    /\ \A e \in E : EdgeFits(N, e)
    /\ \A d, e \in E : Compatible(d, e)

\* insertEdge writes a row that fits its field.
LEMMA EdgeForFits ==
    ASSUME NEW f \in Field, NEW x \in NodeId, NEW y \in NodeId,
           nodes \in [NodeId -> Row \cup {NoRow}], Fits(f, x, y)
    PROVE  EdgeFor(f, x, y) \in Edge /\ EdgeFits(nodes, EdgeFor(f, x, y))
<1>1. f \in FieldDef
  BY SchemaAssumption DEF SchemaAssumption
<1>2. Undirected(f) => x # y /\ f.to = f.type
  BY SchemaAssumption DEF SchemaAssumption, AlgebraIsSelfReference, Fits
<1>3. x \in Nat /\ y \in Nat
  BY ReadsAssumption DEF ReadsAssumption
<1> DEFINE e == EdgeFor(f, x, y)
<1>4. e \in Edge
  BY <1>1 DEF EdgeFor, Edge, FieldDef, Undirected
<1>5. /\ e.field = f.name /\ e.single = f.single /\ e.symmetric = Undirected(f)
      /\ nodes[e.from] # NoRow /\ nodes[e.from].type = f.type
      /\ nodes[e.to] # NoRow /\ nodes[e.to].type = f.to
      /\ Undirected(f) => e.from < e.to
      /\ Ordered(f) => e.from # e.to
  BY <1>2, <1>3 DEF EdgeFor, Fits
<1> QED
  BY <1>4, <1>5 DEF EdgeFits

\* An insert that the constraints let in keeps the tables.
LEMMA InsertKeepsTables ==
    ASSUME NEW f \in Field, NEW x \in NodeId, NEW y \in NodeId,
           TablesOK(nodes, edges), Fits(f, x, y)
    PROVE  TablesOK(nodes, edges \cup {EdgeFor(f, x, y)})
<1> DEFINE e == EdgeFor(f, x, y)
<1>1. e \in Edge /\ EdgeFits(nodes, e)
  BY EdgeForFits DEF TablesOK
<1>2. EdgeIsUnique(edges, e) /\ SingleRefIsFree(edges, e)
  BY DEF Fits
<1>3. ASSUME NEW d \in edges PROVE Compatible(d, e) /\ Compatible(e, d)
  <2> HIDE DEF e
  <2> QED BY <1>2 DEF EdgeIsUnique, SingleRefIsFree, Compatible
<1>4. Compatible(e, e)
  BY DEF Compatible
<1>5. IsFiniteSet(edges \cup {e})
  BY FS_AddElement DEF TablesOK
<1> HIDE DEF e
<1>6. \A c, d \in edges \cup {e} : Compatible(c, d)
  BY <1>3, <1>4 DEF TablesOK
<1> QED
  BY <1>1, <1>5, <1>6 DEF TablesOK, e

\* Removing rows of edges keeps them.
LEMMA FewerEdgesKeepTables ==
    ASSUME NEW N, NEW E, TablesOK(N, E), NEW F \in SUBSET E
    PROVE  TablesOK(N, F)
<1>1. IsFiniteSet(F)
  BY FS_Subset DEF TablesOK
<1> QED
  BY <1>1 DEF TablesOK

\* So does a change of nodes that leaves the types of the ends alone.
LEMMA RowsKeepTables ==
    ASSUME NEW N, NEW E, TablesOK(N, E), NEW M \in [NodeId -> Row \cup {NoRow}],
           \A e \in E : \A n \in {e.from, e.to} : M[n] # NoRow /\ M[n].type = N[n].type
    PROVE  TablesOK(M, E)
<1>1. ASSUME NEW e \in E PROVE EdgeFits(M, e)
  BY DEF TablesOK, EdgeFits
<1> QED
  BY <1>1 DEF TablesOK

\* The ends of an edge are rows.
LEMMA EdgeEnds ==
    ASSUME NEW N, NEW E, TablesOK(N, E), NEW e \in E
    PROVE  /\ e.from \in NodeId /\ e.to \in NodeId /\ e.field \in FieldName
           /\ N[e.from] # NoRow /\ N[e.to] # NoRow
  BY DEF TablesOK, Edge, EdgeFits

\* CreateNode keeps the tables: the id it takes is the end of no edge.
LEMMA CreateKeepsTables ==
    ASSUME TablesOK(nodes, edges), NEW type \in Type, NEW v \in Value \cup {Null},
           CreateNode(type, v)
    PROVE  TablesOK(nodes', edges')
<1>1. PICK n \in NodeId :
         /\ \A m \in Rows(DB) : m < n
         /\ nodes' = [nodes EXCEPT ![n] = [type |-> type, value |-> v]]
  BY DEF CreateNode
<1>2. nodes[n] = NoRow
  BY <1>1, ReadsAssumption DEF ReadsAssumption, Rows, DB
<1>3. nodes' \in [NodeId -> Row \cup {NoRow}]
  BY <1>1 DEF TablesOK, Row
<1>4. ASSUME NEW e \in edges, NEW m \in {e.from, e.to}
      PROVE  nodes'[m] # NoRow /\ nodes'[m].type = nodes[m].type
  <2>1. m \in NodeId /\ nodes[m] # NoRow /\ m # n
    BY EdgeEnds, <1>2
  <2> QED BY <2>1, <1>1 DEF TablesOK
<1>5. TablesOK(nodes', edges)
  BY <1>3, <1>4, RowsKeepTables
<1>6. edges' = edges
  BY DEF CreateNode
<1> QED
  BY <1>5, <1>6

\* PatchNode of a value keeps the tables.
LEMMA SetValueKeepsTables ==
    ASSUME TablesOK(nodes, edges), NEW n \in NodeId, NEW v \in Value \cup {Null}, SetValue(n, v)
    PROVE  TablesOK(nodes', edges')
<1>1. nodes[n] \in Row /\ nodes[n] # NoRow
  BY DEF SetValue, TablesOK
<1>2. [nodes[n] EXCEPT !.value = v] \in Row /\ [nodes[n] EXCEPT !.value = v].type = nodes[n].type
  BY <1>1 DEF Row
<1>3. nodes' = [nodes EXCEPT ![n] = [nodes[n] EXCEPT !.value = v]]
  BY DEF SetValue
<1>4. nodes' \in [NodeId -> Row \cup {NoRow}]
  BY <1>2, <1>3 DEF TablesOK
<1>5. ASSUME NEW e \in edges, NEW m \in {e.from, e.to}
      PROVE  nodes'[m] # NoRow /\ nodes'[m].type = nodes[m].type
  <2>1. m \in NodeId /\ nodes[m] # NoRow
    BY EdgeEnds
  <2>2. CASE m = n
    BY <2>1, <2>2, <1>2, <1>3, ReadsAssumption DEF TablesOK, ReadsAssumption
  <2>3. CASE m # n
    BY <2>1, <2>3, <1>3 DEF TablesOK
  <2> QED BY <2>2, <2>3
<1>6. edges' = edges
  BY DEF SetValue
<1> QED
  BY <1>4, <1>5, <1>6, RowsKeepTables

\* DeleteNode keeps the tables: the edges of the node go with it.
LEMMA DeleteKeepsTables ==
    ASSUME TablesOK(nodes, edges), NEW n \in NodeId, DeleteNode(n)
    PROVE  TablesOK(nodes', edges')
<1>1. nodes' = [nodes EXCEPT ![n] = NoRow] /\ edges' = {e \in edges : n \notin {e.from, e.to}}
  BY DEF DeleteNode
<1>2. nodes' \in [NodeId -> Row \cup {NoRow}]
  BY <1>1 DEF TablesOK
<1>3. ASSUME NEW e \in edges', NEW m \in {e.from, e.to}
      PROVE  nodes'[m] # NoRow /\ nodes'[m].type = nodes[m].type
  <2>1. e \in edges /\ m # n
    BY <1>1
  <2>2. m \in NodeId /\ nodes[m] # NoRow
    BY <2>1, EdgeEnds
  <2> QED BY <2>1, <2>2, <1>1 DEF TablesOK
<1>4. TablesOK(nodes, edges')
  <2>1. edges' \in SUBSET edges
    BY <1>1
  <2> QED BY <2>1, FewerEdgesKeepTables
<1> QED
  BY <1>2, <1>3, <1>4, RowsKeepTables

\* Every step keeps the tables.
LEMMA TablesStep ==
    ASSUME TablesOK(nodes, edges), [Next]_vars
    PROVE  TablesOK(nodes', edges')
<1>1. ASSUME UNCHANGED <<nodes, edges>> PROVE TablesOK(nodes', edges')
  BY <1>1
<1>2. CASE UNCHANGED vars
  BY <1>1, <1>2 DEF vars
<1>3. CASE \E r \in Request : GetNodes(r)
  BY <1>1, <1>3 DEF GetNodes
<1>4. CASE Read
  BY <1>1, <1>4 DEF Read, Hydrate, ReadEdges, ReadTargets, Answer
<1>5. CASE Write
  <2>1. ASSUME NEW type \in Type, NEW v \in Value \cup {Null}, CreateNode(type, v)
        PROVE  TablesOK(nodes', edges')
    BY <2>1, CreateKeepsTables
  <2>2. ASSUME NEW n \in NodeId, NEW v \in Value \cup {Null}, SetValue(n, v)
        PROVE  TablesOK(nodes', edges')
    BY <2>2, SetValueKeepsTables
  <2>3. ASSUME NEW f \in Field, NEW x \in NodeId, NEW y \in NodeId,
               AddEdge(f, x, y) \/ ImportEdge(f, x, y)
        PROVE  TablesOK(nodes', edges')
    <3>1. Fits(f, x, y) /\ nodes' = nodes /\ edges' = edges \cup {EdgeFor(f, x, y)}
      BY <2>3 DEF AddEdge, ImportEdge, Insert
    <3> QED BY <3>1, InsertKeepsTables
  <2>4. ASSUME NEW e \in edges, RemoveEdge(e)
        PROVE  TablesOK(nodes', edges')
    <3>1. nodes' = nodes /\ edges' \in SUBSET edges
      BY <2>4 DEF RemoveEdge
    <3> QED BY <3>1, FewerEdgesKeepTables
  <2>5. ASSUME NEW n \in NodeId, DeleteNode(n)
        PROVE  TablesOK(nodes', edges')
    BY <2>5, DeleteKeepsTables
  <2> QED BY <1>5, <2>1, <2>2, <2>3, <2>4, <2>5, Zenon DEF Write
<1> QED
  BY <1>2, <1>3, <1>4, <1>5, Zenon DEF Next

\* The empty tables are fine.
LEMMA TablesInit == Init => TablesOK(nodes, edges)
  BY FS_EmptySet DEF Init, TablesOK

\* Whatever is written, imports included, every edge in the tables fits a field at both
\* ends and keeps the uniqueness constraints.
THEOREM TablesFit == Spec => []TablesOK(nodes, edges)
<1>1. TablesOK(nodes, edges) /\ [Next]_vars => TablesOK(nodes, edges)'
  BY TablesStep
<1> QED BY <1>1, TablesInit, PTL DEF Spec

-----------------------------------------------------------------------------
(***************************************************************************)
(* Merge previews.                                                         *)
(***************************************************************************)
\* An edge that stands under the name of a field of one of its owners is an edge of that
\* field, whoever else uses the name.
LEMMA OwnField ==
    ASSUME NEW N, NEW E, TablesOK(N, E), NEW e \in E, NEW g \in Field, g.name = e.field,
           N[e.from].type = g.type \/ (e.symmetric /\ N[e.to].type = g.type)
    PROVE  /\ e.symmetric = Undirected(g) /\ e.single = g.single
           /\ N[e.from].type = g.type /\ N[e.to].type = g.to
           /\ Undirected(g) => e.from # e.to /\ g.to = g.type
<1>1. PICK f \in Field :
        /\ e.field = f.name /\ e.single = f.single /\ e.symmetric = Undirected(f)
        /\ N[e.from].type = f.type /\ N[e.to].type = f.to
        /\ Undirected(f) => e.from < e.to
  BY DEF TablesOK, EdgeFits
<1>2. Undirected(f) => f.to = f.type
  BY SchemaAssumption DEF SchemaAssumption, AlgebraIsSelfReference
<1>3. f = g
  BY <1>1, <1>2, SchemaAssumption DEF SchemaAssumption, NamesUnique
<1>4. e.from \in Nat /\ e.to \in Nat
  BY EdgeEnds, ReadsAssumption DEF ReadsAssumption
<1> QED
  BY <1>1, <1>2, <1>3, <1>4

\* A preview without a decision loses nothing (PreviewMerge), on any tables.
LEMMA MergePreviewHolds == MergePreviewLosesNothing
<1> SUFFICES ASSUME NEW s \in OfType(Listed), NEW t \in OfType(Listed), s # t
             PROVE  /\ ~ RequiresResolution(DB, s, t) => \A e \in edges : s \notin {e.from, e.to}
                    /\ \A k \in Keys(Listed) \ (Suggested(DB, s, t) \cup FieldConflicts(DB, s, t)) :
                         IsAbsent(DB, s, k) \/ FieldOf(DB, s, k) = FieldOf(DB, t, k)
  BY DEF MergePreviewLosesNothing
<1>1. DB.nodes[s].type = Listed /\ DB.edges = edges
  BY DEF OfType, DB
<1>2. ASSUME ~ RequiresResolution(DB, s, t), NEW e \in edges PROVE s \notin {e.from, e.to}
  BY <1>1, <1>2 DEF RequiresResolution, MergeEdges
<1>3. ASSUME NEW k \in Keys(Listed) \ (Suggested(DB, s, t) \cup FieldConflicts(DB, s, t))
      PROVE  IsAbsent(DB, s, k) \/ FieldOf(DB, s, k) = FieldOf(DB, t, k)
  BY <1>1, <1>3 DEF Suggested, FieldConflicts
<1> QED
  BY <1>2, <1>3

\* The value of a field, by its edges.
LEMMA OutReads ==
    ASSUME TablesOK(nodes, edges), NEW n \in Rows(DB), NEW f \in Field,
           nodes[n].type = f.type, NEW m
    PROVE  /\ m \in RefValue(edges, n, f.name) <=>
                \E e \in edges : /\ e.field = f.name
                                 /\ \/ e.from = n /\ e.to = m
                                    \/ Undirected(f) /\ e.symmetric /\ e.to = n /\ e.from = m
           /\ m \in RefValue(edges, n, f.name) => m \in OfType(f.to)
           /\ Undirected(f) =>
                (m \in RefValue(edges, n, f.name) <=>
                   \E e \in edges : /\ e.field = f.name /\ e.symmetric /\ n \in {e.from, e.to}
                                    /\ m = OtherEnd(e, n))
<1> n \in NodeId /\ DB.nodes = nodes
  BY DEF Rows, DB
<1>1. ASSUME NEW e \in edges, e.field = f.name, e.from = n \/ (e.symmetric /\ e.to = n)
      PROVE  /\ e.symmetric = Undirected(f) /\ nodes[e.from].type = f.type /\ nodes[e.to].type = f.to
             /\ Undirected(f) => e.from # e.to /\ f.to = f.type
             /\ e.from \in Rows(DB) /\ e.to \in Rows(DB)
  <2>1. nodes[e.from].type = f.type \/ (e.symmetric /\ nodes[e.to].type = f.type)
    BY <1>1
  <2> QED BY <1>1, <2>1, OwnField, EdgeEnds DEF Rows, DB
<1>2. m \in RefValue(edges, n, f.name) <=>
        \E e \in edges : e.field = f.name /\ (e.from = n \/ (e.symmetric /\ e.to = n)) /\ m = OtherEnd(e, n)
  BY DEF RefValue, RefEdges, Owners
<1> QED
  BY <1>1, <1>2 DEF OtherEnd, OfType, DB

\* A path that names one field has that field's name, and its type at the right end.
LEMMA OneField ==
    ASSUME NEW f \in Field, NEW path, NEW type, Relation(type, path) = {f}
    PROVE  /\ f.name = path.name
           /\ path.kind = "out" => f.type = type /\ TargetType(type, path) = f.to
           /\ path.kind = "in" => f.type = path.source /\ f.to = type /\ TargetType(type, path) = f.type
<1>1. f \in Relation(type, path)
  OBVIOUS
<1>2. (CHOOSE g \in Relation(type, path) : TRUE) = f
  OBVIOUS
<1> QED
  BY <1>1, <1>2 DEF Relation, TargetType

\* A set test and a related condition on an outgoing path read the field.
LEMMA OutPath ==
    ASSUME TablesOK(nodes, edges), NEW n \in Rows(DB), NEW f \in Field,
           Relation(nodes[n].type, Ref(f.name)) = {f}
    PROVE  /\ InNodes(DB, n, Ref(f.name), nodes[n].type)
                \cap OfType(TargetType(nodes[n].type, Ref(f.name))) = RefValue(edges, n, f.name)
           /\ Undirected(f) =>
                JoinedNodes(DB, n, Ref(f.name), nodes[n].type) = RefValue(edges, n, f.name)
<1> DEFINE path == Ref(f.name)
           type == nodes[n].type
<1>1. /\ path.kind = "out" /\ path.name = f.name /\ f.type = type /\ TargetType(type, path) = f.to
  <2>1. path.kind = "out" /\ path.name = f.name
    BY DEF Ref
  <2> HIDE DEF path, type
  <2>2. Relation(type, path) = {f}
    BY DEF path, type
  <2> QED BY <2>1, <2>2, OneField
<1>2. DB.edges = edges /\ DB.nodes = nodes /\ n \in NodeId
  BY DEF DB, Rows
<1>3. Undirected(f) => f.to = f.type
  BY SchemaAssumption DEF SchemaAssumption, AlgebraIsSelfReference
<1>4. Relation(type, path) = {f}
  OBVIOUS
<1> HIDE DEF path, type
<1>5. ASSUME NEW m
      PROVE  m \in InNodes(DB, n, path, type) <=>
               \E e \in edges : /\ e.field = f.name /\ m = OtherEnd(e, n)
                                /\ e.from = n \/ (e.to = n /\ Undirected(f))
  BY <1>1, <1>2, <1>4 DEF InNodes
<1>6. ASSUME NEW m \in OfType(f.to)
      PROVE  m \in InNodes(DB, n, path, type) <=> m \in RefValue(edges, n, f.name)
  <2>1. nodes[m].type = f.to /\ m \in NodeId
    BY DEF OfType, Rows, DB
  <2>2. ASSUME NEW e \in edges, e.field = f.name, e.to = n, e.from # n, m = OtherEnd(e, n), Undirected(f)
        PROVE  e.symmetric
    <3>1. nodes[e.from].type = f.type
      BY <2>1, <2>2, <1>3 DEF OtherEnd
    <3> QED BY <2>2, <3>1, OwnField
  <2>3. ASSUME NEW e \in edges, e.field = f.name, m = OtherEnd(e, n), e.from = n \/ (e.to = n /\ Undirected(f))
        PROVE  (e.from = n /\ e.to = m) \/ (Undirected(f) /\ e.symmetric /\ e.to = n /\ e.from = m)
    BY <2>2, <2>3 DEF OtherEnd
  <2>4. ASSUME NEW e \in edges, e.field = f.name,
               (e.from = n /\ e.to = m) \/ (Undirected(f) /\ e.symmetric /\ e.to = n /\ e.from = m)
        PROVE  m = OtherEnd(e, n) /\ (e.from = n \/ (e.to = n /\ Undirected(f)))
    <3>1. CASE e.from = n /\ e.to = m
      BY <3>1 DEF OtherEnd
    <3>2. CASE Undirected(f) /\ e.symmetric /\ e.to = n /\ e.from = m
      BY <3>2 DEF OtherEnd
    <3> QED BY <2>4, <3>1, <3>2
  <2>5. nodes[n].type = f.type
    BY <1>1 DEF type
  <2> QED BY <1>5, <2>3, <2>4, <2>5, OutReads
<1>7. ASSUME NEW m
      PROVE  m \in RefValue(edges, n, f.name) => m \in OfType(f.to)
  BY <1>1, OutReads DEF type
<1>8. ASSUME Undirected(f), NEW m
      PROVE  m \in JoinedNodes(DB, n, path, type) <=> m \in RefValue(edges, n, f.name)
  <2>1. m \in JoinedNodes(DB, n, path, type) <=>
          \E e \in edges : e.field = f.name /\ e.symmetric /\ n \in {e.from, e.to} /\ m = OtherEnd(e, n)
    BY <1>2, <1>4, <1>8 DEF JoinedNodes, JoinedEdges
  <2>2. nodes[n].type = f.type
    BY <1>1 DEF type
  <2> QED BY <2>1, <2>2, <1>8, OutReads
<1>9. InNodes(DB, n, path, type) \cap OfType(TargetType(type, path)) = RefValue(edges, n, f.name)
  BY <1>1, <1>6, <1>7
<1>10. Undirected(f) => JoinedNodes(DB, n, path, type) = RefValue(edges, n, f.name)
  BY <1>8
<1> QED
  BY <1>9, <1>10 DEF path, type

-----------------------------------------------------------------------------
(***************************************************************************)
(* Relations and searches.                                                 *)
(***************************************************************************)
\* And so on an incoming path.
LEMMA InPath ==
    ASSUME TablesOK(nodes, edges), NEW n \in Rows(DB), NEW f \in Field,
           Relation(nodes[n].type, Incoming(f.type, f.name)) = {f}
    PROVE  LET path == Incoming(f.type, f.name)
           IN  /\ InNodes(DB, n, path, nodes[n].type)
                    \cap OfType(TargetType(nodes[n].type, path)) = Refers(n, path)
               /\ Undirected(f) =>
                    JoinedNodes(DB, n, path, nodes[n].type) = Refers(n, path)
<1> DEFINE path == Incoming(f.type, f.name)
           type == nodes[n].type
<1>1. /\ path.kind = "in" /\ path.name = f.name /\ path.source = f.type
      /\ f.to = type /\ TargetType(type, path) = f.type
  <2>1. path.kind = "in" /\ path.name = f.name /\ path.source = f.type
    BY DEF Incoming
  <2> HIDE DEF path, type
  <2>2. Relation(type, path) = {f}
    BY DEF path, type
  <2> QED BY <2>1, <2>2, OneField
<1>2. DB.edges = edges /\ DB.nodes = nodes /\ n \in NodeId
  BY DEF DB, Rows
<1>3. Undirected(f) => f.to = f.type
  BY SchemaAssumption DEF SchemaAssumption, AlgebraIsSelfReference
<1>4. Relation(type, path) = {f}
  OBVIOUS
<1>5. nodes[n].type = f.to
  BY <1>1
<1> HIDE DEF path, type
\* A node of the source type whose field holds n.
<1>6. ASSUME NEW m
      PROVE  m \in Refers(n, path) <=>
               /\ m \in OfType(f.type)
               /\ \E e \in edges : /\ e.field = f.name
                                   /\ \/ e.from = m /\ e.to = n
                                      \/ Undirected(f) /\ e.symmetric /\ e.to = m /\ e.from = n
  <2>1. m \in Refers(n, path) <=> m \in OfType(f.type) /\ n \in RefValue(edges, m, f.name)
    BY <1>1, <1>2 DEF Refers, OfType
  <2>2. m \in OfType(f.type) => m \in Rows(DB) /\ nodes[m].type = f.type
    BY DEF OfType
  <2> QED BY <2>1, <2>2, OutReads
<1>7. ASSUME NEW m
      PROVE  m \in InNodes(DB, n, path, type) <=>
               \E e \in edges : /\ e.field = f.name /\ m = OtherEnd(e, n)
                                /\ e.to = n \/ (e.from = n /\ Undirected(f))
                                /\ Undirected(f) => e.symmetric /\ nodes[m].type = f.type
  BY <1>1, <1>2, <1>4 DEF InNodes
<1>8. ASSUME NEW e \in edges, e.field = f.name, Undirected(f), e.from = n \/ e.to = n, e.symmetric
      PROVE  /\ e.from # e.to /\ OtherEnd(e, n) \in OfType(f.type)
             /\ e.from \in Rows(DB) /\ e.to \in Rows(DB)
  <2>1. nodes[e.from].type = f.type \/ (e.symmetric /\ nodes[e.to].type = f.type)
    BY <1>3, <1>5, <1>8
  <2>2. e.from # e.to /\ nodes[e.from].type = f.type /\ nodes[e.to].type = f.to
    BY <2>1, <1>8, OwnField
  <2>3. e.from \in Rows(DB) /\ e.to \in Rows(DB)
    BY EdgeEnds DEF Rows, DB
  <2> QED BY <1>3, <1>8, <2>2, <2>3 DEF OfType, OtherEnd, DB
<1>9. ASSUME NEW m \in OfType(f.type)
      PROVE  m \in InNodes(DB, n, path, type) <=> m \in Refers(n, path)
  <2>1. nodes[m].type = f.type
    BY DEF OfType, DB
  <2>2. ASSUME NEW e \in edges, e.field = f.name, m = OtherEnd(e, n),
               e.to = n \/ (e.from = n /\ Undirected(f)), Undirected(f) => e.symmetric
        PROVE  (e.from = m /\ e.to = n) \/ (Undirected(f) /\ e.symmetric /\ e.to = m /\ e.from = n)
    BY <2>2 DEF OtherEnd
  <2>3. ASSUME NEW e \in edges, e.field = f.name,
               (e.from = m /\ e.to = n) \/ (Undirected(f) /\ e.symmetric /\ e.to = m /\ e.from = n)
        PROVE  /\ m = OtherEnd(e, n) /\ (e.to = n \/ (e.from = n /\ Undirected(f)))
               /\ Undirected(f) => e.symmetric
    <3>1. Undirected(f) => e.symmetric
      BY <2>1, <2>3, OwnField
    <3> QED BY <2>3, <3>1 DEF OtherEnd
  <2> QED BY <1>6, <1>7, <2>1, <2>2, <2>3
<1>10. ASSUME NEW m PROVE m \in Refers(n, path) => m \in OfType(f.type)
  BY <1>6
<1>11. ASSUME Undirected(f), NEW m
       PROVE  m \in JoinedNodes(DB, n, path, type) <=> m \in Refers(n, path)
  <2>1. m \in JoinedNodes(DB, n, path, type) <=>
          \E e \in edges : e.field = f.name /\ e.symmetric /\ n \in {e.from, e.to} /\ m = OtherEnd(e, n)
    BY <1>2, <1>4, <1>11 DEF JoinedNodes, JoinedEdges
  <2>2. ASSUME NEW e \in edges, e.field = f.name, e.symmetric, n \in {e.from, e.to}, m = OtherEnd(e, n)
        PROVE  m \in Refers(n, path)
    <3>1. m \in OfType(f.type)
      BY <1>8, <1>11, <2>2
    <3> QED BY <1>6, <1>11, <2>2, <3>1 DEF OtherEnd
  <2>3. ASSUME m \in Refers(n, path)
        PROVE  \E e \in edges : e.field = f.name /\ e.symmetric /\ n \in {e.from, e.to} /\ m = OtherEnd(e, n)
    <3>1. m \in OfType(f.type) /\ nodes[m].type = f.type
      BY <1>6, <2>3 DEF OfType, DB
    <3>2. PICK e \in edges : /\ e.field = f.name
                             /\ \/ e.from = m /\ e.to = n
                                \/ Undirected(f) /\ e.symmetric /\ e.to = m /\ e.from = n
      BY <1>6, <2>3
    <3>3. e.symmetric
      BY <1>11, <3>1, <3>2, OwnField
    <3> QED BY <3>2, <3>3 DEF OtherEnd
  <2> QED BY <2>1, <2>2, <2>3
<1>12. InNodes(DB, n, path, type) \cap OfType(TargetType(type, path)) = Refers(n, path)
  BY <1>1, <1>9, <1>10
<1>13. Undirected(f) => JoinedNodes(DB, n, path, type) = Refers(n, path)
  BY <1>11
<1> QED
  BY <1>12, <1>13 DEF path, type

\* RefIDs, OutEdges and InEdges read the field, by the algebra or by the flags.
LEMMA FieldReads ==
    ASSUME TablesOK(nodes, edges), NEW n \in Rows(DB), NEW f \in FieldsOf(nodes[n].type)
    PROVE  /\ RefIDs(DB, n, f) = RefValue(edges, n, f.name)
           /\ {OtherEnd(e, n) : e \in OutEdges(DB, n, f)} = RefValue(edges, n, f.name)
           /\ \A m \in RefValue(edges, n, f.name) :
                 \E e \in InEdges(DB, m, f.name) : OtherEnd(e, m) = n
<1>1. f \in Field /\ f.type = nodes[n].type /\ DB.edges = edges
  BY DEF FieldsOf, DB
<1>2. ASSUME NEW m
      PROVE  /\ m \in RefIDs(DB, n, f) <=> m \in RefValue(edges, n, f.name)
             /\ m \in {OtherEnd(e, n) : e \in OutEdges(DB, n, f)} <=> m \in RefValue(edges, n, f.name)
  <2>1. CASE Undirected(f)
    BY <1>1, <2>1, OutReads, SMTT(30) DEF RefIDs, OutEdges
  <2>2. CASE ~ Undirected(f)
    <3>1. m \in RefValue(edges, n, f.name) <=>
            \E e \in edges : e.field = f.name /\ e.from = n /\ e.to = m
      BY <1>1, <2>2, OutReads
    <3> QED BY <1>1, <2>2, <3>1 DEF RefIDs, OutEdges, OtherEnd
  <2> QED BY <2>1, <2>2
<1>3. ASSUME NEW m \in RefValue(edges, n, f.name)
      PROVE  \E e \in InEdges(DB, m, f.name) : OtherEnd(e, m) = n
  <2>1. PICK e \in edges : /\ e.field = f.name
                           /\ \/ e.from = n /\ e.to = m
                              \/ Undirected(f) /\ e.symmetric /\ e.to = n /\ e.from = m
    BY <1>1, OutReads
  <2> QED BY <1>1, <2>1 DEF InEdges, OtherEnd
<1> QED
  BY <1>2, <1>3

\* All readers of a relation agree with the field.
LEMMA RelationsHold ==
    ASSUME TablesOK(nodes, edges)
    PROVE  RelationsReadTheirField
<1> SUFFICES ASSUME NEW n \in Rows(DB)
             PROVE  /\ \A f \in Field : \A path \in {Ref(f.name), Incoming(f.type, f.name)} :
                         LET type == nodes[n].type
                         IN  Relation(type, path) = {f} =>
                               /\ InNodes(DB, n, path, type) \cap OfType(TargetType(type, path)) = Refers(n, path)
                               /\ Undirected(f) => JoinedNodes(DB, n, path, type) = Refers(n, path)
                    /\ \A f \in FieldsOf(nodes[n].type) :
                         LET value == RefValue(edges, n, f.name)
                         IN  /\ RefIDs(DB, n, f) = value
                             /\ {OtherEnd(e, n) : e \in OutEdges(DB, n, f)} = value
                             /\ \A m \in value : \E e \in InEdges(DB, m, f.name) : OtherEnd(e, m) = n
  BY DEF RelationsReadTheirField
<1>1. ASSUME NEW f \in Field PROVE Refers(n, Ref(f.name)) = RefValue(edges, n, f.name)
  BY DEF Refers, Ref
<1> QED
  BY <1>1, OutPath, InPath, FieldReads

\* A sequence of one.
LEMMA OneToken ==
    ASSUME NEW S, NEW s \in Seq(S), Len(s) = 1
    PROVE  DOMAIN s = {1} /\ s = <<s[1]>>
  OBVIOUS

\* A phrase of less than two tokens is one token.
LEMMA ShortPhrase ==
    ASSUME NEW S, NEW s \in Seq(S), NEW i \in DOMAIN s, Len(s) < 2
    PROVE  Len(s) = 1 /\ i = 1
<1>1. Len(s) \in Nat /\ DOMAIN s = 1 .. Len(s)
  BY LenProperties
<1>2. i \in 1 .. Len(s)
  BY <1>1
<1> QED BY <1>1, <1>2

\* A document with a token has the phrase of that token.
LEMMA PhraseOfOne ==
    ASSUME NEW S, NEW s \in Seq(S), NEW q \in Seq(S), Len(q) = 1, HasToken(s, q[1])
    PROVE  HasPhrase(s, q)
<1>1. PICK j \in DOMAIN s : s[j] = q[1]
  BY DEF HasToken
<1>2. j \in 1 .. Len(s) /\ j - 1 \in 0 .. Len(s) - Len(q)
  BY <1>1
<1>3. SubSeq(s, (j - 1) + 1, (j - 1) + Len(q)) = SubSeq(s, j, j)
  <2>1. (j - 1) + 1 = j /\ (j - 1) + Len(q) = j
    BY <1>2
  <2> QED BY <2>1
<1>4. SubSeq(s, j, j) = <<s[j]>>
  <2>1. /\ SubSeq(s, j, j) \in Seq(S) /\ Len(SubSeq(s, j, j)) = 1
        /\ SubSeq(s, j, j)[1] = s[j]
    BY <1>2, SubSeqProperties
  <2> QED BY <2>1, OneToken
<1>5. q = <<q[1]>>
  BY OneToken
<1> QED
  BY <1>1, <1>2, <1>3, <1>4, <1>5 DEF HasPhrase

\* A search finds what is visible.
LEMMA SearchHolds ==
    ASSUME TablesOK(nodes, edges)
    PROVE  SearchFindsWhatIsVisible
<1> SUFFICES ASSUME NEW search \in Searches
             PROVE  LET t == search.targets
                        q == search.text
                        shown == Indexed(DB) \cap Visible(DB, t)
                    IN  /\ \A n \in shown : HasPhrase(Tokens(DB, n), q) => n \in Hits(DB, q, t)
                        /\ (\E n \in shown, i \in DOMAIN q : HasToken(Tokens(DB, n), q[i]))
                             => Hits(DB, q, t) # {}
  BY DEF SearchFindsWhatIsVisible
<1> DEFINE t == search.targets
           q == search.text
           shown == Indexed(DB) \cap Visible(DB, t)
<1>1. q \in Seq(STRING)
  BY ReadsAssumption DEF Searches, ReadsAssumption
<1>2. ASSUME NEW n \in shown, HasPhrase(Tokens(DB, n), q) PROVE n \in Hits(DB, q, t)
  BY <1>2 DEF Hits
<1>3. ASSUME NEW n \in shown, NEW i \in DOMAIN q, HasToken(Tokens(DB, n), q[i])
      PROVE  Hits(DB, q, t) # {}
  <2>1. CASE Len(q) < 2
    <3>1. Len(q) = 1 /\ i = 1
    BY <1>1, <2>1, ShortPhrase
    <3>2. nodes[n] \in Row
      BY DEF TablesOK, Indexed, Rows, DB
    <3>3. Tokens(DB, n) \in Seq(STRING)
      BY <3>2, ReadsAssumption DEF ReadsAssumption, Tokens, DB, Row
    <3>4. HasPhrase(Tokens(DB, n), q)
      BY <1>1, <1>3, <3>1, <3>3, PhraseOfOne
    <3> QED BY <1>2, <3>4
  <2>2. CASE ~ (Len(q) < 2)
    <3>1. n \in {m \in Indexed(DB) \cap Visible(DB, t) : \E k \in DOMAIN q : HasToken(Tokens(DB, m), q[k])}
      BY <1>3
    <3> QED BY <2>2, <3>1 DEF Hits
  <2> QED BY <2>1, <2>2
<1> QED
  BY <1>2, <1>3

-----------------------------------------------------------------------------
(***************************************************************************)
(* The reader and what it has seen.                                        *)
(***************************************************************************)
\* While the read ran, an id had two types.
Reused(S) == \E a, b \in S.rows : a[1] = b[1] /\ a[2] # b[2]

\* The edge e was a reference of a field, between rows that have been there.
Shown(S, e) ==
    \E f \in Field : /\ e.field = f.name /\ e.symmetric = Undirected(f)
                     /\ <<e.from, f.type>> \in S.rows /\ <<e.to, f.to>> \in S.rows

\* The type of seen.
SeenType == [edges : SUBSET Edge, rows : SUBSET (NodeId \X Type)]

\* S holds all that the tables hold, and for every edge in it both rows.
SeenOK(N, E, S) ==
    /\ S \in SeenType /\ IsFiniteSet(S.edges)
    /\ E \subseteq S.edges /\ RowsOf(N) \subseteq S.rows
    /\ \A e \in S.edges : Shown(S, e)

\* The segment that a reader is at.
SegOf(r) == r.req.paths[r.path][r.seg]

\* An edge that has been there joins a to b, in the direction of the segment.
Joined(S, a, b, seg) ==
    \E e \in S.edges :
        /\ e.field = seg.name
        /\ \/ (e.symmetric \/ seg.kind = "out") /\ e.from = a /\ e.to = b
           \/ (e.symmetric \/ seg.kind = "in") /\ e.to = a /\ e.from = b

\* The pairs of a reader were edges; a single reference has two targets only if an id was
\* reused.
PairsOK(r, S) ==
    /\ \A p \in r.pairs : p[1] \in IdsOf(r.batch) /\ Joined(S, p[1], p[2], SegOf(r))
    /\ SegmentSingle(r.type, SegOf(r)) =>
         Reused(S) \/ \A p, q \in r.pairs : p[1] = q[1] => p[2] = q[2]

\* Every entry of the answer was an edge.
HeapOK(heap, S) == \A h \in heap : \A c \in h.to : Joined(S, h.of.id, c.id, h.key)

\* What ReadFailsForAReason allows as a reason.
Reason(r, S) ==
    \/ Reused(S)
    \/ /\ r.req.paths # << >>
       /\ \/ ~ SegmentResolves(r.type, SegOf(r))
          \/ Cardinality({e \in S.edges : e.field = SegOf(r).name}) > ExpandLimit
          \/ \E f \in Field : /\ SegOf(r).kind = "in" /\ f.name = SegOf(r).name
                              /\ f.to = r.type /\ f.type # SegOf(r).source

\* Where a reader is in its request, by the statement it sends next.
PlaceOK(r) ==
    /\ r.req.type \in Type
    /\ r.pc = "hydrate" => r.path = 1 /\ r.seg = 1 /\ r.type = r.req.type
    /\ r.pc \in {"edges", "targets"} =>
         r.path \in DOMAIN r.req.paths /\ r.seg \in DOMAIN r.req.paths[r.path]
    /\ r.pc = "targets" => SegmentResolves(r.type, SegOf(r))

\* The rows of the batch have been there with the type they are read with.
BatchOK(r, S) ==
    /\ \A n \in r.roots : <<n, r.req.type>> \in S.rows
    /\ \A c \in r.batch : <<c.id, r.type>> \in S.rows

\* All of this, for a reader r that has seen S.
ReaderOK(r, S) ==
    /\ r \in Reading /\ ExpandIsAccepted(r.req.paths)
    /\ PlaceOK(r) /\ BatchOK(r, S) /\ HeapOK(r.heap, S)
    /\ r.pc = "targets" => PairsOK(r, S)
    /\ r.pc = "failed" => Reason(r, S)

\* The inductive invariant of types, reasons and inventions. A read that others write
\* beside knows only what has been there, so the invariant is about seen and not about
\* the tables.
ReadInv ==
    /\ TablesOK(nodes, edges)
    /\ \/ reader = Idle /\ seen \in SeenType
       \/ ReaderOK(reader, seen) /\ SeenOK(nodes, edges, seen)

\* A reader that is reading is not idle.
LEMMA NotIdle ==
    ASSUME NEW r \in Reading
    PROVE  r # Idle /\ r.pc # "idle"
  BY DEF Reading, Idle

\* The edges of fitting tables are references between rows that have been there.
LEMMA FitsAreShown ==
    ASSUME NEW N, NEW E, TablesOK(N, E), NEW S, RowsOf(N) \subseteq S.rows, NEW e \in E
    PROVE  Shown(S, e)
<1>1. PICK f \in Field :
        /\ e.field = f.name /\ e.symmetric = Undirected(f)
        /\ N[e.from] # NoRow /\ N[e.from].type = f.type
        /\ N[e.to] # NoRow /\ N[e.to].type = f.to
  BY DEF TablesOK, EdgeFits
<1>2. e.from \in NodeId /\ e.to \in NodeId
  BY EdgeEnds
<1>3. <<e.from, f.type>> \in RowsOf(N) /\ <<e.to, f.to>> \in RowsOf(N)
  BY <1>1, <1>2 DEF RowsOf
<1> QED
  BY <1>1, <1>3 DEF Shown

\* The rows with their types.
LEMMA RowsTyped ==
    ASSUME NEW N, NEW E, TablesOK(N, E)
    PROVE  RowsOf(N) \in SUBSET (NodeId \X Type)
  BY DEF TablesOK, RowsOf, Row

\* What a read has seen when it begins.
LEMMA SeenStarts ==
    ASSUME NEW N, NEW E, TablesOK(N, E)
    PROVE  SeenOK(N, E, [edges |-> E, rows |-> RowsOf(N)])
<1> DEFINE S == [edges |-> E, rows |-> RowsOf(N)]
<1>1. S \in SeenType /\ IsFiniteSet(S.edges)
  BY RowsTyped DEF TablesOK, SeenType
<1>2. E \subseteq S.edges /\ RowsOf(N) \subseteq S.rows /\ S.edges = E
  OBVIOUS
<1> HIDE DEF S
<1>3. \A e \in S.edges : Shown(S, e)
  BY <1>2, FitsAreShown
<1> QED
  BY <1>1, <1>2, <1>3 DEF SeenOK, S

\* What it has seen after a write.
LEMMA SeenGrows ==
    ASSUME NEW N, NEW E, NEW M, NEW F, TablesOK(M, F), NEW S, SeenOK(N, E, S),
           NEW T, T = [edges |-> S.edges \cup F, rows |-> S.rows \cup RowsOf(M)]
    PROVE  SeenOK(M, F, T) /\ S.edges \subseteq T.edges /\ S.rows \subseteq T.rows
<1>1. /\ T.edges = S.edges \cup F /\ T.rows = S.rows \cup RowsOf(M)
  OBVIOUS
<1>2. T \in SeenType
  BY RowsTyped DEF TablesOK, SeenType, SeenOK
<1>3. IsFiniteSet(T.edges)
  BY <1>1, FS_Union DEF TablesOK, SeenOK
<1>4. ASSUME NEW e \in T.edges PROVE Shown(T, e)
  <2>1. CASE e \in F
    BY <1>1, <2>1, FitsAreShown
  <2>2. CASE e \in S.edges
    BY <1>1, <2>2 DEF SeenOK, Shown
  <2> QED BY <1>1, <2>1, <2>2
<1> QED
  BY <1>1, <1>2, <1>3, <1>4 DEF SeenOK

\* What was joined stays joined in a longer past.
LEMMA JoinedStays ==
    ASSUME NEW S, NEW T, S.edges \subseteq T.edges, NEW a, NEW b, NEW seg, Joined(S, a, b, seg)
    PROVE  Joined(T, a, b, seg)
  BY DEF Joined

\* And what was reused stays reused.
LEMMA ReusedStays ==
    ASSUME NEW S, NEW T, S.rows \subseteq T.rows, Reused(S)
    PROVE  Reused(T)
  BY DEF Reused

\* A reader that writers run beside keeps what it has.
LEMMA ReaderStays ==
    ASSUME NEW r, NEW S, NEW T, ReaderOK(r, S), S.edges \subseteq T.edges, S.rows \subseteq T.rows,
           r.pc # "failed", r.torn < MaxTorn
    PROVE  ReaderOK([r EXCEPT !.torn = @ + 1], T)
<1> DEFINE q == [r EXCEPT !.torn = @ + 1]
<1>1. r \in Reading
  BY DEF ReaderOK
<1>2. q \in Reading
  <2>1. r.torn + 1 \in 0 .. MaxTorn
    BY <1>1, ReadsAssumption DEF Reading, ReadsAssumption
  <2> QED BY <1>1, <2>1 DEF Reading
<1>3. /\ q.pc = r.pc /\ q.req = r.req /\ q.path = r.path /\ q.seg = r.seg /\ q.type = r.type
      /\ q.roots = r.roots /\ q.batch = r.batch /\ q.pairs = r.pairs /\ q.heap = r.heap
  BY <1>1 DEF Reading
<1> HIDE DEF q
<1>4. SegOf(q) = SegOf(r)
  BY <1>3 DEF SegOf
<1>5. PlaceOK(q)
  BY <1>3, <1>4 DEF ReaderOK, PlaceOK
<1>6. BatchOK(q, T)
  BY <1>3 DEF ReaderOK, BatchOK
<1>7. HeapOK(q.heap, T)
  BY <1>3, JoinedStays DEF ReaderOK, HeapOK
<1>8. q.pc = "targets" => PairsOK(q, T)
  BY <1>3, <1>4, JoinedStays, ReusedStays DEF ReaderOK, PairsOK
<1> QED
  BY <1>2, <1>3, <1>5, <1>6, <1>7, <1>8 DEF ReaderOK, q

\* A write leaves an idle reader alone and counts in a running one.
LEMMA WritesNotice ==
    ASSUME Write
    PROVE  \/ reader = Idle /\ reader' = reader /\ seen' = seen
           \/ /\ reader # Idle /\ reader.torn < MaxTorn /\ reader.pc # "failed" /\ reader.pc # "done"
              /\ reader' = [reader EXCEPT !.torn = @ + 1]
              /\ seen' = [edges |-> seen.edges \cup edges', rows |-> seen.rows \cup RowsOf(nodes')]
<1>1. Noticed => \/ reader = Idle /\ reader' = reader /\ seen' = seen
                 \/ /\ reader # Idle
                    /\ reader' = [reader EXCEPT !.torn = @ + 1]
                    /\ seen' = [edges |-> seen.edges \cup edges', rows |-> seen.rows \cup RowsOf(nodes')]
  BY DEF Noticed
<1>2. Noticed \/ (reader = Idle /\ reader' = reader /\ seen' = seen)
  BY DEF Write, CreateNode, SetValue, AddEdge, ImportEdge, Insert, RemoveEdge, DeleteNode
<1>3. (reader = Idle \/ reader.torn < MaxTorn) /\ reader.pc # "failed" /\ reader.pc # "done"
  BY DEF Write
<1> QED BY <1>1, <1>2, <1>3

\* A write keeps the invariant of the reader.
LEMMA WriteKeepsReadInv ==
    ASSUME ReadInv, Write, TablesOK(nodes', edges')
    PROVE  ReadInv'
<1>1. CASE reader = Idle
  <2>1. reader' = Idle /\ seen' = seen
    BY <1>1, WritesNotice
  <2>2. seen \in SeenType
    BY <1>1, NotIdle DEF ReadInv, ReaderOK, SeenOK
  <2> QED BY <2>1, <2>2 DEF ReadInv
<1>2. CASE reader # Idle
  <2>1. ReaderOK(reader, seen) /\ SeenOK(nodes, edges, seen)
    BY <1>2 DEF ReadInv
  <2>2. /\ reader.torn < MaxTorn /\ reader.pc # "failed"
        /\ reader' = [reader EXCEPT !.torn = @ + 1]
        /\ seen' = [edges |-> seen.edges \cup edges', rows |-> seen.rows \cup RowsOf(nodes')]
    BY <1>2, WritesNotice
  <2>3. SeenOK(nodes', edges', seen') /\ seen.edges \subseteq seen'.edges /\ seen.rows \subseteq seen'.rows
    BY <2>1, <2>2, SeenGrows
  <2>4. ReaderOK(reader', seen')
    BY <2>1, <2>2, <2>3, ReaderStays
  <2> QED BY <2>3, <2>4 DEF ReadInv
<1> QED
  BY <1>1, <1>2

\* A finite set of more than one has two members.
LEMMA TwoMembers ==
    ASSUME NEW S, IsFiniteSet(S), Cardinality(S) > 1
    PROVE  \E a, b \in S : a # b
<1>1. Cardinality(S) \in Nat
  BY FS_CardinalityType
<1>2. S # {}
  BY <1>1, FS_EmptySet
<1>3. PICK a \in S : TRUE
  BY <1>2
<1>4. S # {a}
  BY <1>1, FS_Singleton
<1> QED
  BY <1>3, <1>4

\* An accepted query has a type of the schema.
LEMMA AcceptedHasType ==
    ASSUME NEW type, NEW scope, NEW where, QueryIsAccepted(type, scope, where)
    PROVE  type \in Type
  BY DEF QueryIsAccepted

\* The first statement establishes the invariant.
LEMMA GetNodesKeeps ==
    ASSUME ReadInv, NEW r \in Request, GetNodes(r)
    PROVE  ReadInv'
<1> DEFINE found == Matches(DB, r.type, r.scope, r.where)
<1>1. /\ reader' = [pc |-> "hydrate", req |-> r, torn |-> 0, path |-> 1, seg |-> 1,
                    load |-> 0, type |-> r.type, roots |-> found,
                    batch |-> {Copy(n, 0) : n \in found}, pairs |-> {}, heap |-> {}]
      /\ seen' = [edges |-> edges, rows |-> RowsOf(nodes)]
      /\ nodes' = nodes /\ edges' = edges /\ ExpandIsAccepted(r.paths) /\ r.type \in Type
  BY AcceptedHasType DEF GetNodes
<1>2. \A n \in found : n \in NodeId /\ nodes[n] # NoRow /\ nodes[n].type = r.type
  BY DEF Matches, Selected, Rows, DB
<1>3. \A n \in found : <<n, r.type>> \in RowsOf(nodes)
  BY <1>2 DEF RowsOf
<1> HIDE DEF found
<1>4. {Copy(n, 0) : n \in found} \in SUBSET CopyIds
  BY <1>2 DEF Copy, CopyIds
<1>5. reader' \in Reading
  BY <1>1, <1>2, <1>4, ReadsAssumption DEF Reading, ReadsAssumption
<1>6. PlaceOK(reader')
  BY <1>1 DEF PlaceOK
<1>7. BatchOK(reader', seen')
  BY <1>1, <1>3 DEF BatchOK, Copy
<1>8. HeapOK(reader'.heap, seen')
  BY <1>1 DEF HeapOK
<1>9. ReaderOK(reader', seen')
  BY <1>1, <1>5, <1>6, <1>7, <1>8 DEF ReaderOK
<1>10. SeenOK(nodes', edges', seen')
  BY <1>1, SeenStarts DEF ReadInv
<1> QED
  BY <1>1, <1>9, <1>10 DEF ReadInv

\* A node that was read with a type, and a single field of that type: two
\* rows for it mean that the id has been passed on.
LEMMA SingleOrReused ==
    ASSUME TablesOK(nodes, edges), NEW S, SeenOK(nodes, edges, S),
           NEW n, NEW f \in Field, f.single, <<n, f.type>> \in S.rows,
           NEW d \in edges, NEW e \in edges, d.field = f.name, e.field = f.name,
           n \in Owners(d), n \in Owners(e)
    PROVE  Reused(S) \/ d = e
<1>1. n \in NodeId /\ nodes[n] # NoRow
  BY EdgeEnds DEF Owners
<1>2. <<n, nodes[n].type>> \in S.rows
  BY <1>1 DEF SeenOK, RowsOf
<1>3. CASE nodes[n].type # f.type
  BY <1>2, <1>3 DEF Reused
<1>4. CASE nodes[n].type = f.type
  <2>1. /\ d.symmetric = Undirected(f) /\ d.single
        /\ e.symmetric = Undirected(f) /\ e.single
    BY <1>4, OwnField DEF Owners
  <2>2. Compatible(d, e)
    BY DEF TablesOK
  <2> QED BY <2>1, <2>2 DEF Compatible, Owners
<1> QED
  BY <1>3, <1>4

\* The statement for the references keeps it; it fails only when an id has been reused.
LEMMA HydrateKeeps ==
    ASSUME ReadInv, Hydrate
    PROVE  ReadInv'
<1>1. ReaderOK(reader, seen) /\ SeenOK(nodes, edges, seen) /\ TablesOK(nodes, edges)
  BY DEF ReadInv, Hydrate, Idle
<1>2. reader \in Reading /\ reader.pc = "hydrate" /\ nodes' = nodes /\ edges' = edges /\ seen' = seen
  BY <1>1 DEF ReaderOK, Hydrate
<1>3. PICK pc \in {"failed", "done", "edges"} :
        /\ reader' = [reader EXCEPT !.pc = pc]
        /\ pc = "failed" => \E n \in reader.roots, f \in FieldsOf(reader.type) :
                              f.single /\ Cardinality(RefValue(edges, n, f.name)) > 1
        /\ pc = "edges" => reader.req.paths # << >>
  BY DEF Hydrate
<1>4. reader' \in Reading /\ reader'.pc = pc
  BY <1>2, <1>3 DEF Reading
<1>5. /\ reader'.req = reader.req /\ reader'.path = reader.path /\ reader'.seg = reader.seg
      /\ reader'.type = reader.type /\ reader'.roots = reader.roots /\ reader'.batch = reader.batch
      /\ reader'.pairs = reader.pairs /\ reader'.heap = reader.heap
  BY <1>2, <1>3 DEF Reading
<1>6. pc = "edges" => reader.path \in DOMAIN reader.req.paths /\ reader.seg \in DOMAIN reader.req.paths[reader.path]
  <2>1. reader.path = 1 /\ reader.seg = 1
    BY <1>1, <1>2 DEF ReaderOK, PlaceOK
  <2>2. reader.req.paths \in Seq(Seq(Steps))
    BY <1>2, ReadsAssumption DEF Reading, ReadsAssumption
  <2>3. ASSUME reader.req.paths # << >> PROVE 1 \in DOMAIN reader.req.paths
    BY <2>2, <2>3
  <2>4. ASSUME 1 \in DOMAIN reader.req.paths PROVE 1 \in DOMAIN reader.req.paths[1]
    <3>1. Len(reader.req.paths[1]) \in 1 .. MaxExpandDepth
      BY <1>1, <2>4 DEF ReaderOK, ExpandIsAccepted
    <3>2. reader.req.paths[1] \in Seq(Steps)
      BY <2>2, <2>4
    <3> QED BY <3>1, <3>2, LimitAssumption DEF LimitAssumption
  <2> QED BY <1>3, <2>1, <2>3, <2>4
<1>7. PlaceOK(reader')
  BY <1>1, <1>3, <1>4, <1>5, <1>6 DEF ReaderOK, PlaceOK
<1>8. BatchOK(reader', seen') /\ HeapOK(reader'.heap, seen') /\ ExpandIsAccepted(reader'.req.paths)
  BY <1>1, <1>2, <1>5 DEF ReaderOK, BatchOK
<1>9. ASSUME pc = "failed" PROVE Reused(seen)
  <2>1. PICK n \in reader.roots, f \in FieldsOf(reader.type) :
          f.single /\ Cardinality(RefValue(edges, n, f.name)) > 1
    BY <1>3, <1>9
  <2>2. f \in Field /\ <<n, f.type>> \in seen.rows
    BY <1>1, <1>2 DEF ReaderOK, BatchOK, PlaceOK, FieldsOf
  <2>3. RefValue(edges, n, f.name) \subseteq NodeId
    BY <1>1, EdgeEnds DEF RefValue, RefEdges, OtherEnd
  <2>4. IsFiniteSet(RefValue(edges, n, f.name))
    BY <2>3, FS_Subset, ReadsAssumption DEF ReadsAssumption
  <2>5. PICK a, b \in RefValue(edges, n, f.name) : a # b
    BY <2>1, <2>4, TwoMembers
  <2>6. PICK d \in edges, e \in edges :
          /\ d.field = f.name /\ n \in Owners(d) /\ a = OtherEnd(d, n)
          /\ e.field = f.name /\ n \in Owners(e) /\ b = OtherEnd(e, n)
    BY DEF RefValue, RefEdges
  <2> QED BY <1>1, <2>1, <2>2, <2>5, <2>6, SingleOrReused
<1>10. pc = "failed" => Reason(reader', seen')
  BY <1>2, <1>9 DEF Reason
<1> QED
  BY <1>1, <1>2, <1>3, <1>4, <1>7, <1>8, <1>10 DEF ReadInv, ReaderOK

\* The answer keeps it.
LEMMA AnswerKeeps ==
    ASSUME ReadInv, Answer
    PROVE  ReadInv'
  BY DEF ReadInv, Answer, SeenType

\* The segment at which a reader stands is one of those that can be asked for.
LEMMA SegmentIsStep ==
    ASSUME NEW r \in Reading, PlaceOK(r), r.pc \in {"edges", "targets"}
    PROVE  SegOf(r) \in Steps /\ SegOf(r).kind \in {"out", "in"}
<1>1. r.req.paths \in Seq(Seq(Steps))
  BY ReadsAssumption DEF Reading, ReadsAssumption
<1>2. SegOf(r) \in Steps
  BY <1>1 DEF PlaceOK, SegOf
<1>3. \A s \in Steps : s.kind \in {"out", "in"}
  <2>1. \A name \in FieldName : Ref(name).kind = "out"
    BY DEF Ref
  <2>2. \A type \in Type, name \in FieldName : Incoming(type, name).kind = "in"
    BY DEF Incoming
  <2>3. ASSUME NEW s \in Steps PROVE s.kind \in {"out", "in"}
    <3>1. CASE s \in {Ref(name) : name \in FieldName}
      BY <2>1, <3>1
    <3>2. CASE s \in {Incoming(type, name) : type \in Type, name \in FieldName}
      BY <2>2, <3>2
    <3> QED BY <3>1, <3>2 DEF Steps
  <2> QED BY <2>3
<1> QED
  BY <1>2, <1>3

\* A segment that resolves has a field: of the type itself, or of the type it comes from.
LEMMA ResolvedField ==
    ASSUME NEW type, NEW seg, SegmentResolves(type, seg)
    PROVE  LET f == SegmentField(type, seg)
           IN  /\ f \in Field /\ f.name = seg.name
               /\ seg.kind \in {"out", "in"}
               /\ seg.kind = "out" => f.type = type /\ TargetType(type, seg) = f.to
               /\ seg.kind = "in" => f.type = seg.source /\ f.to = type /\ TargetType(type, seg) = f.type
<1>1. SegmentField(type, seg) \in Relation(type, seg)
  BY DEF SegmentResolves, SegmentField
<1>2. SegmentField(type, seg) = (CHOOSE f \in Relation(type, seg) : TRUE)
  BY DEF SegmentField
<1> QED
  BY <1>1, <1>2 DEF Relation, TargetType, SegmentResolves, IsRelation

\* A reader that gives up for a reason.
LEMMA FailKeeps ==
    ASSUME ReadInv, reader # Idle, reader' = [reader EXCEPT !.pc = "failed"],
           nodes' = nodes, edges' = edges, seen' = seen, Reason(reader, seen)
    PROVE  ReadInv'
<1>1. ReaderOK(reader, seen) /\ SeenOK(nodes, edges, seen) /\ TablesOK(nodes, edges)
  BY DEF ReadInv
<1>2. reader \in Reading
  BY <1>1 DEF ReaderOK
<1>3. reader' \in Reading /\ reader'.pc = "failed"
  BY <1>2 DEF Reading
<1>4. /\ reader'.req = reader.req /\ reader'.path = reader.path /\ reader'.seg = reader.seg
      /\ reader'.type = reader.type /\ reader'.roots = reader.roots /\ reader'.batch = reader.batch
      /\ reader'.pairs = reader.pairs /\ reader'.heap = reader.heap
  BY <1>2 DEF Reading
<1>5. Reason(reader', seen')
  BY <1>4 DEF Reason, SegOf
<1>6. PlaceOK(reader')
  BY <1>1, <1>3, <1>4 DEF ReaderOK, PlaceOK
<1>7. BatchOK(reader', seen') /\ HeapOK(reader'.heap, seen') /\ ExpandIsAccepted(reader'.req.paths)
  BY <1>1, <1>4 DEF ReaderOK, BatchOK
<1> QED
  BY <1>1, <1>3, <1>5, <1>6, <1>7 DEF ReadInv, ReaderOK

\* The pairs of the statement for edges are edges of the batch.
LEMMA GroupedJoins ==
    ASSUME NEW r, NEW S, SeenOK(nodes, edges, S), SegmentResolves(r.type, SegOf(r)),
           NEW p \in Grouped(TypedEdges(DB, IdsOf(r.batch), r.type, SegOf(r)),
                             IdsOf(r.batch), r.type, SegOf(r))
    PROVE  /\ p \in IdsOf(r.batch) \X NodeId
           /\ Joined(S, p[1], p[2], SegOf(r))
           /\ \E e \in edges : /\ e.field = SegOf(r).name
                               /\ SegOf(r).kind = "out" => p[1] \in Owners(e) /\ p[2] = OtherEnd(e, p[1])
<1> DEFINE seg == SegOf(r)
           f == SegmentField(r.type, seg)
<1>1. f \in Field /\ f.name = seg.name /\ seg.kind \in {"out", "in"}
  BY ResolvedField
<1> HIDE DEF seg
<1>2. PICK e \in TypedEdges(DB, IdsOf(r.batch), r.type, seg) :
         CASE Undirected(f) -> p[1] \in {e.from, e.to} /\ p[2] = OtherEnd(e, p[1])
           [] ~ Undirected(f) /\ seg.kind = "in" -> p[1] = e.to /\ p[2] = e.from
           [] OTHER -> p[1] = e.from /\ p[2] = e.to
  BY DEF Grouped, seg
<1>3. e \in edges /\ e.field = seg.name /\ (Undirected(f) => e.symmetric)
  BY <1>2 DEF TypedEdges, DB
<1> HIDE DEF f
<1>4. e \in S.edges
  BY <1>3 DEF SeenOK
<1>5. Joined(S, p[1], p[2], seg)
  <2>1. CASE Undirected(f)
    BY <1>2, <1>3, <1>4, <2>1 DEF Joined, OtherEnd
  <2>2. CASE ~ Undirected(f) /\ seg.kind = "in"
    BY <1>2, <1>3, <1>4, <2>2 DEF Joined
  <2>3. CASE ~ Undirected(f) /\ seg.kind # "in"
    BY <1>1, <1>2, <1>3, <1>4, <2>3 DEF Joined
  <2> QED BY <2>1, <2>2, <2>3
<1>6. ASSUME seg.kind = "out" PROVE p[1] \in Owners(e) /\ p[2] = OtherEnd(e, p[1])
  <2>1. CASE Undirected(f)
    <3>1. p[1] \in {e.from, e.to} /\ p[2] = OtherEnd(e, p[1])
      BY <1>2, <1>6, <2>1
    <3>2. Owners(e) = {e.from} \cup {e.to}
      BY <1>3, <2>1 DEF Owners
    <3> QED BY <3>1, <3>2
  <2>2. CASE ~ Undirected(f)
    BY <1>2, <1>6, <2>2 DEF Owners, OtherEnd
  <2> QED BY <2>1, <2>2
<1>7. p \in IdsOf(r.batch) \X NodeId
  BY DEF Grouped
<1> QED
  BY <1>3, <1>5, <1>6, <1>7 DEF seg

\* The statement for edges keeps the invariant; it fails at the limit, or on a segment
\* that does not resolve.
LEMMA ReadEdgesKeeps ==
    ASSUME ReadInv, ReadEdges
    PROVE  ReadInv'
<1> DEFINE ids == IdsOf(reader.batch)
           found == TypedEdges(DB, ids, reader.type, Segment)
           pairs == Grouped(found, ids, reader.type, Segment)
<1>1. ReaderOK(reader, seen) /\ SeenOK(nodes, edges, seen) /\ TablesOK(nodes, edges) /\ reader # Idle
  BY DEF ReadInv, ReadEdges, Idle
<1>2. reader \in Reading /\ reader.pc = "edges" /\ nodes' = nodes /\ edges' = edges /\ seen' = seen
  BY <1>1 DEF ReaderOK, ReadEdges
<1>3. Segment = SegOf(reader) /\ reader.req.paths # << >>
  BY <1>1, <1>2 DEF Segment, SegOf, ReaderOK, PlaceOK
<1>4. CASE ~ SegmentResolves(reader.type, Segment) \/ Cardinality(found) > ExpandLimit
  <2>1. reader' = [reader EXCEPT !.pc = "failed"]
    BY <1>4 DEF ReadEdges
  <2>2. CASE ~ SegmentResolves(reader.type, Segment)
    BY <1>1, <1>2, <1>3, <2>1, <2>2, FailKeeps DEF Reason
  <2>3. CASE Cardinality(found) > ExpandLimit
    <3> DEFINE all == {e \in seen.edges : e.field = SegOf(reader).name}
    <3>1. found \subseteq all
      BY <1>1, <1>3 DEF TypedEdges, DB, SeenOK
    <3>2. IsFiniteSet(all)
      BY <1>1, FS_Subset DEF SeenOK
    <3>3. IsFiniteSet(found) /\ Cardinality(found) =< Cardinality(all)
      BY <3>1, <3>2, FS_Subset
    <3>4. Cardinality(found) \in Nat /\ Cardinality(all) \in Nat
      BY <3>2, <3>3, FS_CardinalityType
    <3> HIDE DEF found, all
    <3>5. Cardinality(all) > ExpandLimit
      BY <2>3, <3>3, <3>4, LimitAssumption DEF LimitAssumption
    <3>6. Reason(reader, seen)
      BY <1>3, <3>5 DEF Reason, all
    <3> QED BY <1>1, <1>2, <2>1, <3>6, FailKeeps
  <2> QED BY <1>4, <2>2, <2>3
<1>5. CASE SegmentResolves(reader.type, Segment) /\ ~ (Cardinality(found) > ExpandLimit)
  <2>1. reader' = [reader EXCEPT !.pc = "targets", !.pairs = pairs]
    BY <1>5 DEF ReadEdges
  <2>2. \A c \in reader.batch : c.id \in NodeId
    BY <1>2 DEF Reading, CopyIds
  <2>3. \A p \in pairs : /\ p \in ids \X NodeId
                         /\ Joined(seen, p[1], p[2], SegOf(reader))
                         /\ \E e \in edges : /\ e.field = SegOf(reader).name
                                             /\ SegOf(reader).kind = "out" => p[1] \in Owners(e) /\ p[2] = OtherEnd(e, p[1])
    BY <1>1, <1>3, <1>5, GroupedJoins
  <2>4. ASSUME SegmentSingle(reader.type, SegOf(reader)), NEW p \in pairs, NEW q \in pairs, p[1] = q[1]
        PROVE  Reused(seen) \/ p[2] = q[2]
    <3> DEFINE f == SegmentField(reader.type, SegOf(reader))
    <3>1. /\ f \in Field /\ f.name = SegOf(reader).name /\ f.type = reader.type
          /\ f.single /\ SegOf(reader).kind = "out"
      BY <1>3, <1>5, <2>4, ResolvedField DEF SegmentSingle
    <3> HIDE DEF f
    <3>2. <<p[1], f.type>> \in seen.rows
      BY <1>1, <2>3, <3>1 DEF ReaderOK, BatchOK, IdsOf
    <3>3. PICK d \in edges : d.field = f.name /\ p[1] \in Owners(d) /\ p[2] = OtherEnd(d, p[1])
      BY <2>3, <3>1
    <3>4. PICK e \in edges : e.field = f.name /\ q[1] \in Owners(e) /\ q[2] = OtherEnd(e, q[1])
      BY <2>3, <3>1
    <3>5. Reused(seen) \/ d = e
      BY <1>1, <2>4, <3>1, <3>2, <3>3, <3>4, SingleOrReused
    <3> QED BY <2>4, <3>3, <3>4, <3>5
  <2> HIDE DEF pairs, found
  <2>5. pairs \subseteq Pairs
    BY <2>2, <2>3 DEF IdsOf, Pairs
  <2>6. reader' \in Reading /\ reader'.pc = "targets" /\ reader'.pairs = pairs
    BY <1>2, <2>1, <2>5 DEF Reading
  <2>7. /\ reader'.req = reader.req /\ reader'.path = reader.path /\ reader'.seg = reader.seg
        /\ reader'.type = reader.type /\ reader'.roots = reader.roots /\ reader'.batch = reader.batch
        /\ reader'.heap = reader.heap
    BY <1>2, <2>1 DEF Reading
  <2>8. SegOf(reader') = SegOf(reader)
    BY <2>7 DEF SegOf
  <2>9. PlaceOK(reader')
    BY <1>1, <1>2, <1>3, <1>5, <2>6, <2>7, <2>8 DEF ReaderOK, PlaceOK
  <2>10. BatchOK(reader', seen') /\ HeapOK(reader'.heap, seen') /\ ExpandIsAccepted(reader'.req.paths)
    BY <1>1, <1>2, <2>7 DEF ReaderOK, BatchOK
  <2>11. PairsOK(reader', seen')
    BY <1>2, <2>3, <2>4, <2>6, <2>7, <2>8 DEF PairsOK
  <2> QED
    BY <1>1, <1>2, <2>6, <2>9, <2>10, <2>11 DEF ReadInv, ReaderOK
<1> QED
  BY <1>4, <1>5

\* A segment that resolves is a key.
LEMMA SegmentIsKey ==
    ASSUME NEW type, NEW seg \in Steps, SegmentResolves(type, seg)
    PROVE  seg \in {Ref(f.name) : f \in Field} \cup {Incoming(f.type, f.name) : f \in Field}
<1> DEFINE f == SegmentField(type, seg)
<1>1. /\ f \in Field /\ f.name = seg.name
      /\ seg.kind = "in" => f.type = seg.source
  BY ResolvedField
<1> HIDE DEF f
<1>2. CASE seg \in {Ref(name) : name \in FieldName}
  <2>1. PICK name \in FieldName : seg = Ref(name)
    BY <1>2
  <2>2. name = f.name
    BY <1>1, <2>1 DEF Ref
  <2> QED BY <1>1, <2>1, <2>2
<1>3. CASE seg \in {Incoming(t, name) : t \in Type, name \in FieldName}
  <2>1. PICK t \in Type, name \in FieldName : seg = Incoming(t, name)
    BY <1>3
  <2>2. name = f.name /\ t = f.type
    BY <1>1, <2>1 DEF Incoming
  <2> QED BY <1>1, <2>1, <2>2
<1> QED
  BY <1>2, <1>3 DEF Steps

\* The rows that came back for a segment have the type of its targets, or
\* there is a reason why they do not.
LEMMA MisfitHasReason ==
    ASSUME NEW r, r \in Reading, NEW S, SeenOK(nodes, edges, S), BatchOK(r, S),
           PairsOK(r, S), SegmentResolves(r.type, SegOf(r)), r.req.paths # << >>,
           NEW p \in r.pairs, p[2] \in NodeId, nodes[p[2]] # NoRow,
           nodes[p[2]].type # TargetType(r.type, SegOf(r))
    PROVE  Reason(r, S)
<1> DEFINE seg == SegOf(r)
           f == SegmentField(r.type, seg)
<1>1. /\ f \in Field /\ f.name = seg.name
      /\ seg.kind \in {"out", "in"}
      /\ seg.kind = "out" => f.type = r.type /\ TargetType(r.type, seg) = f.to
      /\ seg.kind = "in" => f.type = seg.source /\ f.to = r.type /\ TargetType(r.type, seg) = f.type
  BY ResolvedField
<1> HIDE DEF seg, f
<1>2. /\ <<p[1], r.type>> \in S.rows
      /\ Joined(S, p[1], p[2], seg)
  BY DEF PairsOK, BatchOK, IdsOf, seg
<1>3. <<p[2], nodes[p[2]].type>> \in S.rows
  BY DEF SeenOK, RowsOf
<1>4. PICK e \in S.edges :
        /\ e.field = seg.name
        /\ \/ (e.symmetric \/ seg.kind = "out") /\ e.from = p[1] /\ e.to = p[2]
           \/ (e.symmetric \/ seg.kind = "in") /\ e.to = p[1] /\ e.from = p[2]
  BY <1>2 DEF Joined
<1>5. PICK g \in Field : /\ e.field = g.name /\ e.symmetric = Undirected(g)
                         /\ <<e.from, g.type>> \in S.rows /\ <<e.to, g.to>> \in S.rows
  BY DEF SeenOK, Shown
<1>6. Undirected(g) => g.to = g.type
  BY SchemaAssumption DEF SchemaAssumption, AlgebraIsSelfReference, Undirected
<1>7. ASSUME seg.kind = "in", g.to = r.type, g.type # seg.source
      PROVE  Reason(r, S)
  BY <1>4, <1>5, <1>7 DEF Reason, seg
<1>8. \A x, s, t : <<x, s>> \in S.rows /\ <<x, t>> \in S.rows /\ s # t => Reused(S)
  BY DEF Reused
<1>9. Reused(S) => Reason(r, S)
  BY DEF Reason
<1>10. CASE seg.kind = "out"
  <2>1. <<p[1], g.type>> \in S.rows /\ <<p[2], g.to>> \in S.rows
    BY <1>4, <1>5, <1>6, <1>10
  <2>2. CASE g.type # r.type
    BY <1>2, <1>8, <1>9, <2>1, <2>2
  <2>3. CASE g.type = r.type
    <3>1. f = g
      BY <1>1, <1>4, <1>5, <1>10, <2>3, SchemaAssumption DEF SchemaAssumption, NamesUnique
    <3>2. g.to # nodes[p[2]].type
      BY <1>1, <1>10, <3>1 DEF seg
    <3> QED BY <1>3, <1>8, <1>9, <2>1, <3>2
  <2> QED BY <2>2, <2>3
<1>11. CASE seg.kind = "in"
  <2>1. <<p[1], g.to>> \in S.rows /\ <<p[2], g.type>> \in S.rows
    BY <1>4, <1>5, <1>6, <1>11
  <2>2. CASE g.to # r.type
    BY <1>2, <1>8, <1>9, <2>1, <2>2
  <2>3. CASE g.to = r.type /\ g.type # seg.source
    BY <1>7, <1>11, <2>3
  <2>4. CASE g.type = seg.source
    <3>1. g.type # nodes[p[2]].type
      BY <1>1, <1>11, <2>4 DEF seg
    <3> QED BY <1>3, <1>8, <1>9, <2>1, <3>1
  <2> QED BY <2>2, <2>3, <2>4
<1> QED
  BY <1>1, <1>10, <1>11

\* Storing what was joined keeps the answer free of inventions.
LEMMA AttachKeepsHeap ==
    ASSUME NEW heap, NEW batch, NEW pairs, NEW loaded, NEW load, NEW seg, NEW single, NEW S,
           HeapOK(heap, S), \A p \in pairs : Joined(S, p[1], p[2], seg)
    PROVE  HeapOK(Attach(heap, batch, pairs, loaded, load, seg, single), S)
<1> DEFINE H == Attach(heap, batch, pairs, loaded, load, seg, single)
<1>1. ASSUME NEW h \in H, NEW c \in h.to
      PROVE  Joined(S, h.of.id, c.id, h.key)
  <2>1. CASE h \in heap
    BY <1>1, <2>1 DEF HeapOK
  <2>2. CASE h \notin heap
    <3>1. PICK b \in batch : h = [of |-> b, key |-> seg, to |-> ValuesOf(pairs, b.id, loaded, load)]
      BY <1>1, <2>2 DEF Attach
    <3>2. PICK p \in pairs : p[1] = b.id /\ c = Copy(p[2], load)
      BY <1>1, <3>1 DEF ValuesOf
    <3> QED BY <3>1, <3>2 DEF Copy
  <2> QED BY <2>1, <2>2
<1> QED
  BY <1>1 DEF HeapOK

\* The keys of the answer.
Key == {Ref(f.name) : f \in Field} \cup {Incoming(f.type, f.name) : f \in Field}
\* The type of an answer.
Heap == SUBSET [of : CopyIds, key : Key, to : SUBSET CopyIds]

\* And it keeps the type of the answer.
LEMMA AttachType ==
    ASSUME NEW heap \in Heap, NEW batch \in SUBSET CopyIds, NEW pairs \in SUBSET Pairs,
           NEW loaded, NEW load \in Nat, NEW seg \in Key, NEW single
    PROVE  Attach(heap, batch, pairs, loaded, load, seg, single) \in Heap
<1> HIDE DEF Key
<1>1. \A n : ValuesOf(pairs, n, loaded, load) \subseteq CopyIds
  BY DEF ValuesOf, Copy, CopyIds, Pairs
<1>2. ASSUME NEW b \in batch
      PROVE  [of |-> b, key |-> seg, to |-> ValuesOf(pairs, b.id, loaded, load)]
               \in [of : CopyIds, key : Key, to : SUBSET CopyIds]
  BY <1>1
<1> QED
  BY <1>2, Zenon DEF Attach, Heap

\* What AttachKeepsHeap and AttachType give of the reader that has stored the
\* targets of its segment.
Stored(r, q, loaded) ==
    /\ q \in Reading
    /\ q.pc = r.pc /\ q.req = r.req /\ q.path = r.path /\ q.seg = r.seg
    /\ q.type = r.type /\ q.batch = r.batch /\ q.roots = r.roots /\ q.load = r.load + 1 /\ q.pairs = {}
    /\ q.heap = Attach(r.heap, r.batch, r.pairs, loaded, r.load + 1, SegOf(r),
                       SegmentSingle(r.type, SegOf(r)))

\* A reader with another answer is a reader.
LEMMA ReadingHeap ==
    ASSUME NEW r \in Reading, NEW H \in Heap, NEW q,
           q = [r EXCEPT !.load = @ + 1, !.pairs = {}, !.heap = H]
    PROVE  q \in Reading
<1>1. Reading =
    [pc : {"hydrate", "edges", "targets", "done", "failed"},
     req : Request, torn : 0 .. MaxTorn, path : Nat, seg : Nat, load : Nat,
     type : Type, roots : SUBSET NodeId, batch : SUBSET CopyIds,
     pairs : SUBSET Pairs, heap : Heap]
  BY DEF Reading, Heap, Key
<1> HIDE DEF Heap
<1>2. r.load + 1 \in Nat /\ {} \in SUBSET Pairs
  BY <1>1
<1>3. q = [[[r EXCEPT !.load = r.load + 1] EXCEPT !.pairs = {}] EXCEPT !.heap = H]
  OBVIOUS
<1>4. [r EXCEPT !.load = r.load + 1] \in Reading
  BY <1>1, <1>2
<1>5. [[r EXCEPT !.load = r.load + 1] EXCEPT !.pairs = {}] \in Reading
  BY <1>1, <1>2, <1>4
<1> QED
  BY <1>1, <1>3, <1>5

\* The reader that ReadTargets makes before it advances.
LEMMA StoredIsReading ==
    ASSUME NEW r \in Reading, NEW loaded, SegOf(r) \in Key, NEW q,
           q = [r EXCEPT !.load = @ + 1, !.pairs = {},
                  !.heap = Attach(@, r.batch, r.pairs, loaded, r.load + 1, SegOf(r),
                                  SegmentSingle(r.type, SegOf(r)))]
    PROVE  Stored(r, q, loaded)
<1> DEFINE H == Attach(r.heap, r.batch, r.pairs, loaded, r.load + 1, SegOf(r),
                       SegmentSingle(r.type, SegOf(r)))
<1>1. r.heap \in Heap /\ r.batch \in SUBSET CopyIds /\ r.pairs \in SUBSET Pairs /\ r.load \in Nat
  BY DEF Reading, Heap, Key
<1>2. H \in Heap
  BY <1>1, AttachType
<1>3. q = [r EXCEPT !.load = @ + 1, !.pairs = {}, !.heap = H]
  OBVIOUS
<1> HIDE DEF H
<1>4. q \in Reading
  BY <1>2, <1>3, ReadingHeap
<1>5. /\ q.pc = r.pc /\ q.req = r.req /\ q.path = r.path /\ q.seg = r.seg
      /\ q.type = r.type /\ q.batch = r.batch /\ q.roots = r.roots /\ q.load = r.load + 1 /\ q.pairs = {}
      /\ q.heap = H
  BY <1>3 DEF Reading
<1> QED
  BY <1>4, <1>5 DEF Stored, H

\* An accepted path has a first segment.
LEMMA StartsAtFirst ==
    ASSUME NEW r \in Reading, ExpandIsAccepted(r.req.paths), NEW i \in DOMAIN r.req.paths
    PROVE  1 \in DOMAIN r.req.paths[i]
<1>1. r.req.paths \in Seq(Seq(Steps))
  BY ReadsAssumption DEF Reading, ReadsAssumption
<1>2. Len(r.req.paths[i]) \in 1 .. MaxExpandDepth
  BY DEF ExpandIsAccepted
<1>3. r.req.paths[i] \in Seq(Steps)
  BY <1>1
<1> QED
  BY <1>2, <1>3, LimitAssumption DEF LimitAssumption

\* Advance, for a reader that is not the variable.
Moves(q, z, next, to) ==
    z = IF q.seg < Len(q.req.paths[q.path]) /\ next # {}
          THEN [q EXCEPT !.pc = "edges", !.seg = @ + 1, !.batch = next, !.type = to]
        ELSE IF q.path < Len(q.req.paths)
          THEN [q EXCEPT !.pc = "edges", !.path = @ + 1, !.seg = 1,
                         !.batch = {Copy(n, 0) : n \in q.roots}, !.type = q.req.type]
        ELSE [q EXCEPT !.pc = "done"]

\* Moving on keeps the invariant.
LEMMA AdvanceKeeps ==
    ASSUME NEW r, NEW S, ReaderOK(r, S), r.pc = "targets", NEW q, NEW loaded, Stored(r, q, loaded),
           loaded \subseteq NodeId,
           \A n \in loaded : <<n, TargetType(r.type, SegOf(r))>> \in S.rows,
           TargetType(r.type, SegOf(r)) \in Type,
           NEW z, Moves(q, z, {Copy(n, r.load + 1) : n \in loaded}, TargetType(r.type, SegOf(r)))
    PROVE  ReaderOK(z, S)
<1> DEFINE next == {Copy(n, r.load + 1) : n \in loaded}
           to == TargetType(r.type, SegOf(r))
           start == {Copy(n, 0) : n \in q.roots}
<1>1. /\ r \in Reading /\ ExpandIsAccepted(r.req.paths) /\ HeapOK(r.heap, S)
      /\ PlaceOK(r) /\ PairsOK(r, S) /\ BatchOK(r, S)
  BY DEF ReaderOK
<1>2. /\ q \in Reading /\ q.req = r.req /\ q.path = r.path /\ q.seg = r.seg
      /\ q.roots = r.roots
  BY DEF Stored
<1>3. HeapOK(q.heap, S)
  BY <1>1, AttachKeepsHeap DEF Stored, PairsOK
<1>4. /\ r.req.paths \in Seq(Seq(Steps))
      /\ r.path \in DOMAIN r.req.paths /\ r.seg \in DOMAIN r.req.paths[r.path]
  BY <1>1, ReadsAssumption DEF Reading, ReadsAssumption, PlaceOK
<1>5. /\ DOMAIN r.req.paths = 1 .. Len(r.req.paths) /\ Len(r.req.paths) \in Nat
      /\ DOMAIN r.req.paths[r.path] = 1 .. Len(r.req.paths[r.path]) /\ Len(r.req.paths[r.path]) \in Nat
  BY <1>4, SMTT(30)
<1>6. next \subseteq CopyIds /\ start \subseteq CopyIds
  BY <1>1, <1>2 DEF Copy, CopyIds, Reading
<1>7. \A c \in next : <<c.id, to>> \in S.rows
  BY DEF Copy
<1>8. \A c \in start : <<c.id, r.req.type>> \in S.rows
  BY <1>1, <1>2 DEF Copy, BatchOK
<1>9. r.req.type \in Type /\ to \in Type
  BY <1>1 DEF PlaceOK
<1> HIDE DEF next, to, start
<1>10. CASE q.seg < Len(q.req.paths[q.path]) /\ next # {}
  <2>1. z = [q EXCEPT !.pc = "edges", !.seg = @ + 1, !.batch = next, !.type = to]
    BY <1>10 DEF next, to, start, Moves
  <2>2. z \in Reading
    <3>1. q.seg + 1 \in Nat /\ to \in Type /\ next \in SUBSET CopyIds
      BY <1>2, <1>6, <1>9 DEF Reading
    <3> QED BY <1>2, <2>1, <3>1 DEF Reading
  <2>3. /\ z.pc = "edges" /\ z.req = r.req /\ z.path = r.path /\ z.seg = r.seg + 1
        /\ z.roots = r.roots /\ z.heap = q.heap /\ z.batch = next /\ z.type = to
    BY <1>2, <2>1 DEF Reading
  <2>4. PlaceOK(z)
    BY <1>2, <1>4, <1>5, <1>9, <1>10, <2>3, SMTT(30) DEF PlaceOK
  <2>5. BatchOK(z, S)
    BY <1>1, <1>7, <2>3 DEF BatchOK
  <2> QED
    BY <1>1, <1>3, <2>2, <2>3, <2>4, <2>5 DEF ReaderOK
<1>11. CASE ~ (q.seg < Len(q.req.paths[q.path]) /\ next # {}) /\ q.path < Len(q.req.paths)
  <2>1. z = [q EXCEPT !.pc = "edges", !.path = @ + 1, !.seg = 1, !.batch = start, !.type = q.req.type]
    BY <1>11 DEF next, to, start, Moves
  <2>2. z \in Reading
    <3>1. q.path + 1 \in Nat /\ 1 \in Nat /\ q.req.type \in Type /\ start \in SUBSET CopyIds
      BY <1>2, <1>6, <1>9 DEF Reading
    <3> QED BY <1>2, <2>1, <3>1 DEF Reading
  <2>3. /\ z.pc = "edges" /\ z.req = r.req /\ z.path = r.path + 1 /\ z.seg = 1
        /\ z.roots = r.roots /\ z.heap = q.heap /\ z.batch = start /\ z.type = r.req.type
    BY <1>2, <2>1 DEF Reading
  <2>4. r.path + 1 \in DOMAIN r.req.paths
    BY <1>2, <1>4, <1>5, <1>11
  <2>5. 1 \in DOMAIN r.req.paths[r.path + 1]
    BY <1>1, <2>4, StartsAtFirst
  <2>6. PlaceOK(z)
    BY <1>9, <2>3, <2>4, <2>5 DEF PlaceOK
  <2>7. BatchOK(z, S)
    BY <1>1, <1>8, <2>3 DEF BatchOK
  <2> QED
    BY <1>1, <1>3, <2>2, <2>3, <2>6, <2>7 DEF ReaderOK
<1>12. CASE ~ (q.seg < Len(q.req.paths[q.path]) /\ next # {}) /\ ~ (q.path < Len(q.req.paths))
  <2>1. z = [q EXCEPT !.pc = "done"]
    BY <1>12 DEF next, to, start, Moves
  <2>2. z \in Reading
    BY <1>2, <2>1 DEF Reading
  <2>3. /\ z.pc = "done" /\ z.req = r.req /\ z.type = q.type
        /\ z.roots = r.roots /\ z.heap = q.heap /\ z.batch = q.batch
    BY <1>2, <2>1 DEF Reading
  <2>4. PlaceOK(z)
    BY <1>9, <2>3 DEF PlaceOK
  <2>5. q.type = r.type /\ q.batch = r.batch
    BY DEF Stored
  <2>6. BatchOK(z, S)
    BY <1>1, <2>3, <2>5 DEF BatchOK
  <2> QED
    BY <1>1, <1>3, <2>2, <2>3, <2>4, <2>6 DEF ReaderOK
<1> QED
  BY <1>10, <1>11, <1>12

\* One load makes finitely many copies.
LEMMA CopiesFinite ==
    ASSUME NEW load
    PROVE  IsFiniteSet({Copy(n, load) : n \in NodeId})
<1> DEFINE all == {Copy(n, load) : n \in NodeId}
           g == [n \in NodeId |-> Copy(n, load)]
<1>1. \A n \in NodeId : g[n] = Copy(n, load)
  OBVIOUS
<1>2. \A c \in all : \E n \in NodeId : g[n] = c
  BY <1>1
<1>3. g \in [NodeId -> all]
  OBVIOUS
<1> HIDE DEF all, g
<1>4. g \in Surjection(NodeId, all)
  BY <1>2, <1>3 DEF Surjection
<1> QED
  BY <1>4, FS_Surjection, ReadsAssumption DEF ReadsAssumption, all

\* The statement for targets keeps the invariant; it fails when a row that came back has
\* the wrong type or a single reference has two targets.
LEMMA ReadTargetsKeeps ==
    ASSUME ReadInv, ReadTargets
    PROVE  ReadInv'
<1> DEFINE loaded == Loaded(DB, TargetsOf(reader.pairs))
           single == SegmentSingle(reader.type, Segment)
           next == {Copy(n, reader.load + 1) : n \in loaded}
           q == [reader EXCEPT !.load = @ + 1, !.pairs = {},
                   !.heap = Attach(@, reader.batch, reader.pairs, loaded,
                                   reader.load + 1, Segment, single)]
           misfit == ~ TargetsFit(DB, loaded, reader.type, Segment)
           twice == single /\ \E c \in reader.batch : Cardinality(ValuesOf(reader.pairs, c.id, loaded, 0)) > 1
<1>1. ReaderOK(reader, seen) /\ SeenOK(nodes, edges, seen) /\ TablesOK(nodes, edges) /\ reader # Idle
  BY DEF ReadInv, ReadTargets, Idle
<1>2. reader.pc = "targets" /\ nodes' = nodes /\ edges' = edges /\ seen' = seen
  BY DEF ReadTargets
<1>3. /\ reader \in Reading /\ PlaceOK(reader) /\ PairsOK(reader, seen) /\ BatchOK(reader, seen)
      /\ SegmentResolves(reader.type, SegOf(reader)) /\ reader.req.paths # << >>
  BY <1>1, <1>2 DEF ReaderOK, PlaceOK
<1>4. Segment = SegOf(reader)
  BY DEF Segment, SegOf
<1>5. SegOf(reader) \in Key
  BY <1>2, <1>3, SegmentIsStep, SegmentIsKey DEF Key
<1>6. Stored(reader, q, loaded)
  BY <1>3, <1>4, <1>5, StoredIsReading
<1>7. \A n \in loaded : n \in NodeId /\ nodes[n] # NoRow /\ \E p \in reader.pairs : p[2] = n
  BY DEF Loaded, TargetsOf, Rows, DB
<1>8. reader' = IF misfit \/ twice THEN [reader EXCEPT !.pc = "failed"] ELSE Advance(q, next)
  BY DEF ReadTargets
<1>9. CASE misfit
  <2>1. PICK n \in loaded : nodes[n].type # TargetType(reader.type, Segment)
    BY <1>9 DEF TargetsFit, Loaded, DB
  <2>2. PICK p \in reader.pairs : p[2] = n
    BY <1>7
  <2>3. Reason(reader, seen)
    BY <1>1, <1>3, <1>4, <1>7, <2>1, <2>2, MisfitHasReason
  <2> QED BY <1>1, <1>2, <1>8, <1>9, <2>3, FailKeeps
<1>10. CASE twice
  <2>1. PICK c \in reader.batch : Cardinality(ValuesOf(reader.pairs, c.id, loaded, 0)) > 1
    BY <1>10
  <2> DEFINE V == ValuesOf(reader.pairs, c.id, loaded, 0)
             all == {Copy(n, 0) : n \in NodeId}
  <2>2. V \subseteq all
    BY <1>7 DEF ValuesOf
  <2>3. IsFiniteSet(all)
    BY CopiesFinite
  <2> HIDE DEF all
  <2>4. IsFiniteSet(V)
    BY <2>2, <2>3, FS_Subset
  <2>5. PICK a, b \in V : a # b
    <3> HIDE DEF V
    <3> QED BY <2>1, <2>4, TwoMembers DEF V
  <2>6. PICK p \in reader.pairs : p[1] = c.id /\ a = Copy(p[2], 0)
    BY DEF ValuesOf
  <2>7. PICK r \in reader.pairs : r[1] = c.id /\ b = Copy(r[2], 0)
    BY DEF ValuesOf
  <2>8. Reused(seen)
    BY <1>3, <1>4, <1>10, <2>5, <2>6, <2>7 DEF PairsOK
  <2>9. Reason(reader, seen)
    BY <2>8 DEF Reason
  <2> QED BY <1>1, <1>2, <1>8, <1>10, <2>9, FailKeeps
<1>11. CASE ~ misfit /\ ~ twice
  <2> DEFINE to == TargetType(reader.type, SegOf(reader))
  <2>1. \A n \in loaded : nodes[n].type = to
    BY <1>4, <1>7, <1>11 DEF TargetsFit, Loaded, Rows, DB
  <2>2. \A n \in loaded : <<n, to>> \in seen.rows
    BY <1>1, <1>7, <2>1 DEF SeenOK, RowsOf
  <2>3. to \in Type
    BY <1>3, ResolvedField, SchemaAssumption DEF SchemaAssumption, FieldDef
  <2>4. q.req = reader.req /\ q.path = reader.path /\ q.seg = reader.seg /\ q.type = reader.type
    BY <1>6 DEF Stored
  <2> HIDE DEF misfit, twice, q
  <2>5. reader' = Advance(q, next)
    BY <1>8, <1>11
  <2>6. Moves(q, reader', next, to)
    BY <1>4, <2>4, <2>5 DEF Advance, Moves
  <2> HIDE DEF loaded, to
  <2>7. loaded \subseteq NodeId
    BY <1>7
  <2>8. ReaderOK(reader', seen)
    BY <1>1, <1>2, <1>6, <2>2, <2>3, <2>6, <2>7, AdvanceKeeps DEF to
  <2> QED BY <1>1, <1>2, <2>8 DEF ReadInv
<1> QED
  BY <1>9, <1>10, <1>11

\* The invariant holds at the start.
LEMMA ReadInvInit == Init => ReadInv
  BY TablesInit DEF Init, ReadInv, SeenType

\* Every step keeps it.
LEMMA ReadInvStep == ReadInv /\ [Next]_vars => ReadInv'
<1> SUFFICES ASSUME ReadInv, [Next]_vars PROVE ReadInv'
  OBVIOUS
<1>1. TablesOK(nodes', edges')
  BY TablesStep DEF ReadInv
<1>2. CASE Write
  BY <1>1, <1>2, WriteKeepsReadInv
<1>3. CASE \E r \in Request : GetNodes(r)
  BY <1>3, GetNodesKeeps
<1>4. CASE Read
  BY <1>4, HydrateKeeps, ReadEdgesKeeps, ReadTargetsKeeps, AnswerKeeps DEF Read
<1>5. CASE UNCHANGED vars
  BY <1>5 DEF vars, ReadInv
<1> QED
  BY <1>2, <1>3, <1>4, <1>5 DEF Next

\* ReadInv is an invariant: during a read with writers beside it, the reader has its
\* place in its request, and all it holds has been in the tables since it began.
THEOREM ReadInvariant == Spec => []ReadInv
  BY ReadInvInit, ReadInvStep, PTL DEF Spec

\* It implies the types.
LEMMA ReadInvTypes == ReadInv => TypeOK
  BY EdgeEnds DEF ReadInv, TablesOK, TypeOK, SeenOK, SeenType, ReaderOK, Rows, DB

\* Tables, reader and past keep their types (TypeOK).
THEOREM TypeCorrect == Spec => []TypeOK
  BY ReadInvariant, ReadInvTypes, PTL

\* It implies that nothing is invented.
LEMMA ReadInvInventsNothing == ReadInv => NothingIsInvented
<1> SUFFICES ASSUME ReadInv, reader.pc = "done", NEW h \in reader.heap, NEW c \in h.to
             PROVE  \E e \in seen.edges, f \in Field :
                      /\ e.field = h.key.name /\ f.name = e.field
                      /\ \/ (e.symmetric \/ h.key.kind = "out") /\ e.from = h.of.id /\ e.to = c.id
                         \/ (e.symmetric \/ h.key.kind = "in") /\ e.to = h.of.id /\ e.from = c.id
                      /\ {<<e.from, f.type>>, <<e.to, f.to>>} \subseteq seen.rows
  BY DEF NothingIsInvented
<1>1. ReaderOK(reader, seen) /\ SeenOK(nodes, edges, seen)
  BY DEF ReadInv, Idle
<1>2. PICK e \in seen.edges :
        /\ e.field = h.key.name
        /\ \/ (e.symmetric \/ h.key.kind = "out") /\ e.from = h.of.id /\ e.to = c.id
           \/ (e.symmetric \/ h.key.kind = "in") /\ e.to = h.of.id /\ e.from = c.id
  BY <1>1 DEF ReaderOK, HeapOK, Joined
<1>3. PICK f \in Field : /\ e.field = f.name
                         /\ <<e.from, f.type>> \in seen.rows /\ <<e.to, f.to>> \in seen.rows
  BY <1>1 DEF SeenOK, Shown
<1> QED
  BY <1>2, <1>3

\* Whatever is written between the statements of an expansion, it joins two nodes only by
\* an edge that was there while it ran, between rows the field joins.
THEOREM NothingInvented == Spec => []NothingIsInvented
  BY ReadInvariant, ReadInvInventsNothing, PTL

\* It implies that a failure has a reason.
LEMMA ReadInvHasReason == ReadInv => ReadFailsForAReason
<1> SUFFICES ASSUME ReadInv, reader.pc = "failed" PROVE ReadFailsForAReason
  BY DEF ReadFailsForAReason
<1>1. Reason(reader, seen)
  BY DEF ReadInv, Idle, ReaderOK
<1>2. Segment = SegOf(reader)
  BY DEF Segment, SegOf
<1> QED
  BY <1>1, <1>2 DEF Reason, Reused, ReadFailsForAReason

\* A read fails only on a segment that does not resolve, at the limit, or because an id
\* or a field name was reused.
THEOREM FailsForAReason == Spec => []ReadFailsForAReason
  BY ReadInvariant, ReadInvHasReason, PTL

\* Every reader of a relation agrees with the value of the field
\* (RelationsReadTheirField), in every database the writers and imports can make.
THEOREM RelationsAgree == Spec => []RelationsReadTheirField
  BY TablesFit, RelationsHold, PTL

\* A search finds every visible document with the phrase, and is not empty-handed because
\* of hidden documents (Search).
THEOREM SearchFinds == Spec => []SearchFindsWhatIsVisible
  BY TablesFit, SearchHolds, PTL

\* A preview that requires no resolution loses no value and no reference when it is
\* followed (PreviewMerge).
THEOREM MergePreview == Spec => []MergePreviewLosesNothing
  BY MergePreviewHolds, PTL

-----------------------------------------------------------------------------
(***************************************************************************)
(* The levels of the query compiler.                                       *)
(***************************************************************************)
\* What compile says, and what the SQL means, with k levels left.
CompileLevel(k, below) ==
    [e \in Clause |-> [t \in Type |-> k > 0 /\ CompilesStep(k, below, e, t)]]
\* The levels of Compiles, as one function of the level.
CompileAt == CHOOSE C : C = [k \in 0 .. Levels |-> CompileLevel(k, C[k - 1])]

\* One level of Truth from the level below.
TruthLevel(D, k, below) ==
    [e \in Clause |-> [t \in Type |-> [n \in NodeId |->
       IF k = 0 THEN Null ELSE TruthStep(D, below, e, t, n)]]]
\* The levels of Truth.
TruthAt(D) == CHOOSE T : T = [k \in 0 .. Levels |-> TruthLevel(D, k, T[k - 1])]

\* There is at least one level.
LEMMA LevelsNat == Levels \in Nat /\ Levels >= 1
  BY ExprAssumption DEF ExprAssumption, Levels

\* Compiles is the last level.
LEMMA CompilesIs ==
    ASSUME NEW e, NEW t
    PROVE  Compiles(e, t) = CompileAt[Levels][e][t]
  BY DEF Compiles, CompileAt, CompileLevel

\* Truth is the last level.
LEMMA TruthIs ==
    ASSUME NEW D, NEW e, NEW t, NEW n
    PROVE  Truth(D, e, t, n) = TruthAt(D)[Levels][e][t][n]
  BY DEF Truth, TruthAt, TruthLevel

\* One level of compile follows from the level below.
LEMMA CompileAtDef ==
    \A i \in 0 .. Levels : CompileAt[i] = CompileLevel(i, CompileAt[i - 1])
<1> DEFINE L == Levels
           Step(g, i) == CompileLevel(i, g[i - 1])
           Some(n) == \E g : g = [i \in 0 .. n |-> Step(g, i)]
           Good == {n \in 0 .. L : Some(n)}
<1>0. L \in Nat
  BY LevelsNat
<1>1. 0 \in Good
  <2> DEFINE g == [i \in 0 .. 0 |-> CompileLevel(0, 0)]
  <2>1. \A x, y : CompileLevel(0, x) = CompileLevel(0, y)
    BY DEF CompileLevel
  <2>2. g = [i \in 0 .. 0 |-> Step(g, i)]
    <3>1. \A i \in 0 .. 0 : i = 0
      OBVIOUS
    <3>2. \A i \in 0 .. 0 : g[i] = Step(g, i)
      BY <2>1, <3>1
    <3> HIDE DEF Step
    <3> QED BY <3>2
  <2>3. Some(0)
    <3> HIDE DEF g
    <3> QED BY <2>2
  <2> HIDE DEF Some
  <2> QED BY <1>0, <2>3
<1>2. ASSUME NEW n \in 1 .. L, n - 1 \in Good
      PROVE  n \in Good
  <2>1. PICK g : g = [i \in 0 .. n - 1 |-> Step(g, i)]
    BY <1>2
  <2> DEFINE h == [i \in 0 .. n |-> IF i = n THEN CompileLevel(n, g[n - 1]) ELSE g[i]]
  <2>2. \A i \in 0 .. n : h[i] = Step(h, i)
    <3> TAKE i \in 0 .. n
    <3>0. n - 1 \in 0 .. n /\ n - 1 # n
      BY <1>0
    <3>1. CASE i = n
      <4>1. h[n - 1] = g[n - 1] /\ h[n] = CompileLevel(n, g[n - 1])
        BY <1>0, <3>0, <3>1
      <4> HIDE DEF h
      <4> QED BY <3>1, <4>1
    <3>2. CASE i # n
      <4>1. i \in 0 .. n - 1
        BY <1>0, <3>2
      <4>2. h[i] = g[i] /\ g[i] = Step(g, i)
        BY <2>1, <3>2, <4>1
      <4>3. CASE i = 0
        <5>1. \A x, y : CompileLevel(0, x) = CompileLevel(0, y)
          BY DEF CompileLevel
        <5>2. g[i] = CompileLevel(0, g[i - 1])
          BY <4>2, <4>3
        <5> HIDE DEF h
        <5> QED BY <4>2, <4>3, <5>1, <5>2
      <4>4. CASE i # 0
        <5>1. i - 1 \in 0 .. n - 1 /\ i - 1 # n
          BY <1>0, <4>1, <4>4
        <5>2. h[i - 1] = g[i - 1]
          BY <1>0, <5>1
        <5> HIDE DEF h
        <5> QED BY <4>2, <5>2
      <4> QED BY <4>3, <4>4
    <3> QED BY <3>1, <3>2
  <2>3. h = [i \in 0 .. n |-> Step(h, i)]
    <3> HIDE DEF Step
    <3> QED BY <2>2
  <2>4. Some(n)
    <3> HIDE DEF h
    <3> QED BY <2>3
  <2>5. n \in 0 .. L
    BY <1>0
  <2> HIDE DEF Some
  <2> QED BY <2>4, <2>5
<1>3. L \in Good
  <2> HIDE DEF Good
  <2>1. \A k \in 1 .. L : k - 1 \in Good => k \in Good
    BY <1>2
  <2> HIDE DEF L
  <2>2. 0 .. L \subseteq Good
    BY <1>0, <1>1, <2>1, InductionOn
  <2> QED BY <1>0, <2>2
<1>4. Some(L)
  BY <1>3
<1> DEFINE U == CompileAt
<1>5. U = [i \in 0 .. L |-> Step(U, i)]
  BY <1>4 DEF CompileAt
<1> HIDE DEF U, L, Step
<1>6. \A i \in 0 .. L : U[i] = Step(U, i)
  BY <1>5
<1> QED
  BY <1>6 DEF U, L, Step

\* One level of the meaning follows from the level below.
LEMMA TruthAtDef ==
    ASSUME NEW D
    PROVE  \A i \in 0 .. Levels : TruthAt(D)[i] = TruthLevel(D, i, TruthAt(D)[i - 1])
<1> DEFINE L == Levels
           Step(g, i) == TruthLevel(D, i, g[i - 1])
           Some(n) == \E g : g = [i \in 0 .. n |-> Step(g, i)]
           Good == {n \in 0 .. L : Some(n)}
<1>0. L \in Nat
  BY LevelsNat
<1>1. 0 \in Good
  <2> DEFINE g == [i \in 0 .. 0 |-> TruthLevel(D, 0, 0)]
  <2>1. \A x, y : TruthLevel(D, 0, x) = TruthLevel(D, 0, y)
    BY DEF TruthLevel
  <2>2. g = [i \in 0 .. 0 |-> Step(g, i)]
    <3>1. \A i \in 0 .. 0 : i = 0
      OBVIOUS
    <3>2. \A i \in 0 .. 0 : g[i] = Step(g, i)
      BY <2>1, <3>1
    <3> HIDE DEF Step
    <3> QED BY <3>2
  <2>3. Some(0)
    <3> HIDE DEF g
    <3> QED BY <2>2
  <2> HIDE DEF Some
  <2> QED BY <1>0, <2>3
<1>2. ASSUME NEW n \in 1 .. L, n - 1 \in Good
      PROVE  n \in Good
  <2>1. PICK g : g = [i \in 0 .. n - 1 |-> Step(g, i)]
    BY <1>2
  <2> DEFINE h == [i \in 0 .. n |-> IF i = n THEN TruthLevel(D, n, g[n - 1]) ELSE g[i]]
  <2>2. \A i \in 0 .. n : h[i] = Step(h, i)
    <3> TAKE i \in 0 .. n
    <3>0. n - 1 \in 0 .. n /\ n - 1 # n
      BY <1>0
    <3>1. CASE i = n
      <4>1. h[n - 1] = g[n - 1] /\ h[n] = TruthLevel(D, n, g[n - 1])
        BY <1>0, <3>0, <3>1
      <4> HIDE DEF h
      <4> QED BY <3>1, <4>1
    <3>2. CASE i # n
      <4>1. i \in 0 .. n - 1
        BY <1>0, <3>2
      <4>2. h[i] = g[i] /\ g[i] = Step(g, i)
        BY <2>1, <3>2, <4>1
      <4>3. CASE i = 0
        <5>1. \A x, y : TruthLevel(D, 0, x) = TruthLevel(D, 0, y)
          BY DEF TruthLevel
        <5>2. g[i] = TruthLevel(D, 0, g[i - 1])
          BY <4>2, <4>3
        <5> HIDE DEF h
        <5> QED BY <4>2, <4>3, <5>1, <5>2
      <4>4. CASE i # 0
        <5>1. i - 1 \in 0 .. n - 1 /\ i - 1 # n
          BY <1>0, <4>1, <4>4
        <5>2. h[i - 1] = g[i - 1]
          BY <1>0, <5>1
        <5> HIDE DEF h
        <5> QED BY <4>2, <5>2
      <4> QED BY <4>3, <4>4
    <3> QED BY <3>1, <3>2
  <2>3. h = [i \in 0 .. n |-> Step(h, i)]
    <3> HIDE DEF Step
    <3> QED BY <2>2
  <2>4. Some(n)
    <3> HIDE DEF h
    <3> QED BY <2>3
  <2>5. n \in 0 .. L
    BY <1>0
  <2> HIDE DEF Some
  <2> QED BY <2>4, <2>5
<1>3. L \in Good
  <2> HIDE DEF Good
  <2>1. \A k \in 1 .. L : k - 1 \in Good => k \in Good
    BY <1>2
  <2> HIDE DEF L
  <2>2. 0 .. L \subseteq Good
    BY <1>0, <1>1, <2>1, InductionOn
  <2> QED BY <1>0, <2>2
<1>4. Some(L)
  BY <1>3
<1> DEFINE U == TruthAt(D)
<1>5. U = [i \in 0 .. L |-> Step(U, i)]
  BY <1>4 DEF TruthAt
<1> HIDE DEF U, L, Step
<1>6. \A i \in 0 .. L : U[i] = Step(U, i)
  BY <1>5
<1> QED
  BY <1>6 DEF U, L, Step

\* Truth values of SQL.
Bool3 == BOOLEAN \cup {Null}
\* The ends of the edges are ids.
EndsKnown(D) == \A e \in D.edges : e.from \in NodeId /\ e.to \in NodeId

\* Two tables of the level below agree on what compiles there.
AgreeOn(C, U, V) ==
    \A e \in Clause, t \in Type, n \in NodeId : C[e][t] => U[e][t][n] = V[e][t][n]

\* The parts of an expression that compiles compile one level below.
LEMMA PartsOf ==
    ASSUME NEW k, NEW C, NEW e \in Clause, NEW t \in Type, CompilesStep(k, C, e, t)
    PROVE  /\ e.k \in {"constant", "compare", "not", "and", "or", "in", "exists", "related"}
           /\ e.k = "not" => e.arg \in Clause /\ C[e.arg][t]
           /\ e.k \in {"and", "or"} => \A i \in DOMAIN e.args : e.args[i] \in Clause /\ C[e.args[i]][t]
           /\ e.k = "related" => /\ e.where \in Clause /\ TargetType(t, e.path) \in Type
                                 /\ C[e.where][TargetType(t, e.path)]
           /\ e.k = "constant" => e.b \in BOOLEAN
           /\ e.k = "compare" => e.v = Null \/ e.op \in {"eq", "ne", "gt", "gte", "lt", "lte"}
<1>1. e.k \in {"constant", "compare", "not", "and", "or", "in", "exists", "related"}
  BY DEF CompilesStep
<1>2. e \in Expr
  BY <1>1 DEF Clause, NoExpr
<1>3. PartsClosed /\ (e.k = "constant" => e.b \in BOOLEAN)
  BY <1>2, ExprAssumption DEF ExprAssumption
<1>4. e.k = "not" => e.arg \in Clause /\ C[e.arg][t]
  BY <1>2, <1>3 DEF CompilesStep, PartsClosed
<1>5. e.k \in {"and", "or"} => \A i \in DOMAIN e.args : e.args[i] \in Clause /\ C[e.args[i]][t]
  <2>1. ASSUME e.k \in {"and", "or"} PROVE \A i \in DOMAIN e.args : C[e.args[i]][t]
    BY <2>1 DEF CompilesStep
  <2> QED BY <1>2, <1>3, <2>1 DEF PartsClosed
<1>6. ASSUME e.k = "related"
      PROVE  /\ e.where \in Clause /\ TargetType(t, e.path) \in Type
             /\ C[e.where][TargetType(t, e.path)]
  <2>1. IsRelation(e.path) /\ PathResolves(t, e.path) /\ C[e.where][TargetType(t, e.path)]
    BY <1>6 DEF CompilesStep
  <2>2. Relation(t, e.path) # {}
    BY <2>1 DEF IsRelation, PathResolves
  <2>3. SegmentResolves(t, e.path)
    BY <2>1, <2>2 DEF SegmentResolves
  <2>4. TargetType(t, e.path) \in Type
    BY <2>3, ResolvedField, SchemaAssumption DEF SchemaAssumption, FieldDef
  <2> QED BY <1>2, <1>3, <1>6, <2>1, <2>4 DEF PartsClosed
<1>7. ASSUME e.k = "compare", e.v # Null PROVE e.op \in {"eq", "ne", "gt", "gte", "lt", "lte"}
  <2>1. CompareCompiles(t, e)
    BY <1>7 DEF CompilesStep
  <2>2. OpClass(e.op) \in OpsOf(e.path)
    BY <1>7, <2>1 DEF CompareCompiles
  <2>3. OpClass(e.op) # "text"
    BY <2>2, ExprAssumption DEF ExprAssumption, OpsOf
  <2> QED BY <2>3 DEF OpClass
<1> QED
  BY <1>1, <1>3, <1>4, <1>5, <1>6, <1>7

\* The nodes that exists and related look at are ids.
LEMMA JoinedInNodes ==
    ASSUME NEW D, EndsKnown(D), NEW n, NEW path, NEW type
    PROVE  JoinedNodes(D, n, path, type) \subseteq NodeId
<1>1. \A f : JoinedEdges(D, n, path, f) \subseteq D.edges
  BY DEF JoinedEdges
<1>2. ASSUME NEW m \in JoinedNodes(D, n, path, type) PROVE m \in NodeId
  <2>1. PICK f \in Relation(type, path) : m \in {OtherEnd(e, n) : e \in JoinedEdges(D, n, path, f)}
    BY <1>2 DEF JoinedNodes
  <2> QED BY <1>1, <2>1 DEF OtherEnd, EndsKnown
<1> QED
  BY <1>2

\* One level: tables that agree on the parts that compile agree on the whole.
LEMMA StepAgrees ==
    ASSUME NEW D, EndsKnown(D), NEW k, NEW C, NEW U, NEW V, AgreeOn(C, U, V),
           NEW e \in Clause, NEW t \in Type, NEW n \in NodeId, CompilesStep(k, C, e, t)
    PROVE  TruthStep(D, U, e, t, n) = TruthStep(D, V, e, t, n)
<1>1. e.k \in {"constant", "compare", "not", "and", "or", "in", "exists", "related"}
  BY PartsOf
<1>2. CASE e.k \in {"constant", "compare", "in", "exists"}
  BY <1>2 DEF TruthStep
<1>3. CASE e.k = "not"
  <2>0. e.arg \in Clause /\ C[e.arg][t]
    BY <1>3, PartsOf
  <2>1. U[e.arg][t][n] = V[e.arg][t][n]
    BY <2>0 DEF AgreeOn
  <2> QED BY <1>3, <2>1 DEF TruthStep
<1>4. CASE e.k \in {"and", "or"}
  <2>0. \A i \in DOMAIN e.args : e.args[i] \in Clause /\ C[e.args[i]][t]
    BY <1>4, PartsOf
  <2>1. \A i \in DOMAIN e.args : U[e.args[i]][t][n] = V[e.args[i]][t][n]
    BY <2>0 DEF AgreeOn
  <2>2. {U[e.args[i]][t][n] : i \in DOMAIN e.args} = {V[e.args[i]][t][n] : i \in DOMAIN e.args}
    BY <2>1
  <2> QED BY <1>4, <2>2 DEF TruthStep
<1>5. CASE e.k = "related"
  <2> DEFINE to == TargetType(t, e.path)
  <2>1. e.where \in Clause /\ to \in Type /\ C[e.where][to]
    BY <1>5, PartsOf
  <2>2. \A m \in JoinedNodes(D, n, e.path, t) : U[e.where][to][m] = V[e.where][to][m]
    BY <2>1, JoinedInNodes DEF AgreeOn
  <2>3. /\ TruthStep(D, U, e, t, n) = (\E m \in JoinedNodes(D, n, e.path, t) : U[e.where][to][m] = TRUE)
        /\ TruthStep(D, V, e, t, n) = (\E m \in JoinedNodes(D, n, e.path, t) : V[e.where][to][m] = TRUE)
    BY <1>5 DEF TruthStep
  <2> HIDE DEF to
  <2> QED BY <2>2, <2>3
<1> QED
  BY <1>1, <1>2, <1>3, <1>4, <1>5

\* An expression that compiles is true, false or null.
LEMMA StepTyped ==
    ASSUME NEW D, NEW k, NEW C, NEW U, NEW e \in Clause, NEW t \in Type, NEW n \in NodeId,
           CompilesStep(k, C, e, t)
    PROVE  TruthStep(D, U, e, t, n) \in Bool3
<1>1. e.k \in {"constant", "compare", "not", "and", "or", "in", "exists", "related"}
  BY PartsOf
<1>2. CASE e.k = "constant"
  BY <1>2, PartsOf DEF TruthStep, Bool3
<1>3. CASE e.k = "compare"
  <2> DEFINE x == Column(D, n, e.path)
  <2>1. TruthStep(D, U, e, t, n) =
          IF e.v = Null THEN (x = Null) = (e.op = "eq")
          ELSE IF x = Null THEN Null ELSE Compare3(x, e.op, e.v)
    BY <1>3 DEF TruthStep
  <2> HIDE DEF x
  <2>2. e.v = Null \/ e.op \in {"eq", "ne", "gt", "gte", "lt", "lte"}
    BY <1>3, PartsOf
  <2>3. ASSUME e.op \in {"eq", "ne", "gt", "gte", "lt", "lte"} PROVE Compare3(x, e.op, e.v) \in BOOLEAN
    <3>1. /\ e.op = "eq" => Compare3(x, e.op, e.v) = (x = e.v)
          /\ e.op = "ne" => Compare3(x, e.op, e.v) = (x # e.v)
      BY DEF Compare3
    <3>2. /\ e.op = "gt" => Compare3(x, e.op, e.v) = (x > e.v)
          /\ e.op = "gte" => Compare3(x, e.op, e.v) = (x >= e.v)
          /\ e.op = "lt" => Compare3(x, e.op, e.v) = (x < e.v)
          /\ e.op = "lte" => Compare3(x, e.op, e.v) = (x =< e.v)
      BY DEF Compare3
    <3>3. (x > e.v) \in BOOLEAN /\ (x >= e.v) \in BOOLEAN /\ (x < e.v) \in BOOLEAN /\ (x =< e.v) \in BOOLEAN
      OBVIOUS
    <3>4. CASE e.op \in {"eq", "ne"}
      BY <3>1, <3>4
    <3>5. CASE e.op \in {"gt", "gte", "lt", "lte"}
      BY <3>2, <3>3, <3>5, Zenon
    <3> QED BY <2>3, <3>4, <3>5
  <2> QED BY <2>1, <2>2, <2>3 DEF Bool3
<1>4. CASE e.k = "not"
  BY <1>4 DEF TruthStep, Not3, Bool3
<1>5. CASE e.k \in {"and", "or"}
  BY <1>5 DEF TruthStep, And3, Or3, Bool3
<1>6. CASE e.k \in {"in", "exists"}
  BY <1>6 DEF TruthStep, Bool3
<1>7. CASE e.k = "related"
  BY <1>7 DEF TruthStep, Bool3
<1> QED
  BY <1>1, <1>2, <1>3, <1>4, <1>5, <1>6, <1>7

\* A level of Compiles, for one expression.
LEMMA CompiledAt ==
    ASSUME NEW k \in 0 .. Levels, NEW e \in Clause, NEW t \in Type
    PROVE  CompileAt[k][e][t] <=> (k > 0 /\ CompilesStep(k, CompileAt[k - 1], e, t))
<1>1. CompileAt[k] = CompileLevel(k, CompileAt[k - 1])
  BY CompileAtDef
<1>2. CompileAt[k][e][t] = (k > 0 /\ CompilesStep(k, CompileAt[k - 1], e, t))
  BY <1>1 DEF CompileLevel
<1> QED
  BY <1>2

\* A level of Truth, for one expression and one row.
LEMMA TrueAt ==
    ASSUME NEW D, NEW k \in 1 .. Levels, NEW e \in Clause, NEW t \in Type, NEW n \in NodeId
    PROVE  TruthAt(D)[k][e][t][n] = TruthStep(D, TruthAt(D)[k - 1], e, t, n)
<1>1. k \in 0 .. Levels /\ k # 0
  BY LevelsNat
<1>2. TruthAt(D)[k] = TruthLevel(D, k, TruthAt(D)[k - 1])
  BY <1>1, TruthAtDef
<1> QED
  BY <1>1, <1>2 DEF TruthLevel

\* What compiles with fewer levels means the same with one more.
LEMMA MoreLevels ==
    ASSUME NEW D, EndsKnown(D)
    PROVE  \A k \in 0 .. Levels - 1 : AgreeOn(CompileAt[k], TruthAt(D)[k + 1], TruthAt(D)[k])
<1> DEFINE P(k) == AgreeOn(CompileAt[k], TruthAt(D)[k + 1], TruthAt(D)[k])
           S == {k \in 0 .. Levels - 1 : P(k)}
<1>0. Levels - 1 \in Nat /\ Levels \in Nat
  BY LevelsNat
<1>1. 0 \in S
  <2>1. \A e \in Clause, t \in Type : ~ CompileAt[0][e][t]
    <3>1. 0 \in 0 .. Levels /\ ~ (0 > 0)
      BY <1>0
    <3> QED BY <3>1, CompiledAt
  <2> QED BY <1>0, <2>1 DEF AgreeOn
<1>2. ASSUME NEW k \in 1 .. Levels - 1, k - 1 \in S PROVE k \in S
  <2>1. AgreeOn(CompileAt[k - 1], TruthAt(D)[k], TruthAt(D)[k - 1])
    <3>1. (k - 1) + 1 = k
      OBVIOUS
    <3> QED BY <1>2, <3>1
  <2>2. k \in 0 .. Levels /\ k \in 1 .. Levels /\ k + 1 \in 1 .. Levels /\ (k + 1) - 1 = k
    BY <1>0
  <2>3. ASSUME NEW e \in Clause, NEW t \in Type, NEW n \in NodeId, CompileAt[k][e][t]
        PROVE  TruthAt(D)[k + 1][e][t][n] = TruthAt(D)[k][e][t][n]
    <3>1. CompilesStep(k, CompileAt[k - 1], e, t)
      BY <2>2, <2>3, CompiledAt
    <3>2. TruthAt(D)[k][e][t][n] = TruthStep(D, TruthAt(D)[k - 1], e, t, n)
      BY <2>2, TrueAt
    <3>3. TruthAt(D)[k + 1][e][t][n] = TruthStep(D, TruthAt(D)[k], e, t, n)
      BY <2>2, TrueAt
    <3> QED BY <2>1, <3>1, <3>2, <3>3, StepAgrees
  <2> QED BY <2>2, <2>3 DEF AgreeOn
<1> HIDE DEF P
<1>3. 0 .. Levels - 1 \subseteq S
  BY <1>0, <1>1, <1>2, InductionOn
<1> QED
  BY <1>3 DEF P

\* The pair of two.
LEMMA TwoConcat ==
    ASSUME NEW a, NEW b
    PROVE  DOMAIN (<<a>> \o <<b>>) = 1 .. 2 /\ (<<a>> \o <<b>>)[1] = a /\ (<<a>> \o <<b>>)[2] = b
  OBVIOUS

\* A sequence of one, and nothing after it.
LEMMA OneConcat ==
    ASSUME NEW a
    PROVE  DOMAIN (<<a>> \o << >>) = 1 .. 1 /\ (<<a>> \o << >>)[1] = a
  OBVIOUS

\* The arguments of a conjunction are those that are there.
LEMMA CompactMembers ==
    ASSUME NEW a, NEW b, a # NoExpr
    PROVE  \A x : (\E i \in DOMAIN Compact(a, b) : Compact(a, b)[i] = x) <=> x = a \/ (x = b /\ b # NoExpr)
<1>1. CASE b = NoExpr
  <2>1. Compact(a, b) = <<a>> \o << >>
    BY <1>1 DEF Compact
  <2> QED BY <1>1, <2>1, OneConcat
<1>2. CASE b # NoExpr
  <2>1. Compact(a, b) = <<a>> \o <<b>>
    BY <1>2 DEF Compact
  <2>2. \A i \in 1 .. 2 : i = 1 \/ i = 2
    OBVIOUS
  <2> DEFINE c == Compact(a, b)
  <2>3. DOMAIN c = 1 .. 2 /\ c[1] = a /\ c[2] = b
    BY <2>1, TwoConcat
  <2> HIDE DEF c
  <2>4. 1 \in DOMAIN c /\ 2 \in DOMAIN c /\ \A i \in DOMAIN c : i = 1 \/ i = 2
    BY <2>3
  <2>5. \A x : (\E i \in DOMAIN c : c[i] = x) <=> x = a \/ x = b
    BY <2>3, <2>4, Zenon
  <2> QED BY <1>2, <2>5 DEF c
<1> QED
  BY <1>1, <1>2

\* And is true when both parts are, or the one that is there.
LEMMA TruthOfAnd ==
    ASSUME NEW D, EndsKnown(D), NEW type \in Type, NEW n \in NodeId, NEW a, NEW b,
           And(a, b) \in Clause, a # NoExpr, Compiles(And(a, b), type)
    PROVE  Truth(D, And(a, b), type, n) = TRUE <=>
             /\ Truth(D, a, type, n) = TRUE
             /\ b = NoExpr \/ Truth(D, b, type, n) = TRUE
<1> DEFINE e == And(a, b)
           below == TruthAt(D)[Levels - 1]
           Arg(x) == \E i \in DOMAIN e.args : e.args[i] = x
<1>1. /\ Levels \in 1 .. Levels /\ Levels \in 0 .. Levels /\ Levels - 1 \in 0 .. Levels - 1
      /\ Levels - 1 \in 0 .. Levels /\ (Levels - 1) + 1 = Levels
  BY LevelsNat
<1>2. e.k = "and" /\ e.args = Compact(a, b)
  BY DEF And
<1>3. \A x : Arg(x) <=> x = a \/ (x = b /\ b # NoExpr)
  <2>1. \A x : (\E i \in DOMAIN Compact(a, b) : Compact(a, b)[i] = x) <=> x = a \/ (x = b /\ b # NoExpr)
    BY CompactMembers
  <2> HIDE DEF e
  <2> QED BY <1>2, <2>1
<1> HIDE DEF e
<1>4. CompilesStep(Levels, CompileAt[Levels - 1], e, type)
  BY <1>1, CompilesIs, CompiledAt DEF e
<1>5. e \in Clause
  BY DEF e
<1>6. \A i \in DOMAIN e.args : e.args[i] \in Clause /\ CompileAt[Levels - 1][e.args[i]][type]
  <2>1. e.k \in {"and", "or"}
    BY <1>2
  <2> HIDE DEF Arg, below
  <2> QED BY <1>4, <1>5, <2>1, PartsOf
<1>7. Truth(D, e, type, n) = TruthStep(D, below, e, type, n)
  BY <1>1, <1>5, TruthIs, TrueAt
<1>8. TruthStep(D, below, e, type, n) = And3({below[e.args[i]][type][n] : i \in DOMAIN e.args})
  BY <1>2 DEF TruthStep
<1>9. ASSUME NEW x, Arg(x)
      PROVE  below[x][type][n] = Truth(D, x, type, n) /\ below[x][type][n] \in Bool3
  <2>1. x \in Clause /\ CompileAt[Levels - 1][x][type]
    BY <1>6, <1>9
  <2>2. TruthAt(D)[Levels][x][type][n] = below[x][type][n]
    BY <1>1, <2>1, MoreLevels DEF AgreeOn
  <2>3. /\ Levels - 1 > 0
        /\ CompilesStep(Levels - 1, CompileAt[(Levels - 1) - 1], x, type)
    BY <1>1, <2>1, CompiledAt
  <2>4. Levels - 1 \in 1 .. Levels
    BY <1>1, <2>3
  <2>5. below[x][type][n] = TruthStep(D, TruthAt(D)[(Levels - 1) - 1], x, type, n)
    BY <2>1, <2>4, TrueAt
  <2>6. below[x][type][n] \in Bool3
    BY <2>1, <2>3, <2>5, StepTyped
  <2> QED BY <2>2, <2>6, TruthIs
<1>10. \A y : y \in {below[e.args[i]][type][n] : i \in DOMAIN e.args} <=> \E x : Arg(x) /\ y = below[x][type][n]
  OBVIOUS
<1>11. Null # TRUE /\ Null # FALSE
  BY ExprAssumption DEF ExprAssumption
<1>12. \A V : V \subseteq Bool3 => (And3(V) = TRUE <=> \A y \in V : y = TRUE)
  BY <1>11 DEF And3, Bool3
<1>13. {below[e.args[i]][type][n] : i \in DOMAIN e.args} \subseteq Bool3
  BY <1>9, <1>10
<1> HIDE DEF below, Arg
<1>14. Truth(D, e, type, n) = TRUE <=> \A x : Arg(x) => below[x][type][n] = TRUE
  BY <1>7, <1>8, <1>10, <1>12, <1>13
<1>15. \A x : Arg(x) => below[x][type][n] = Truth(D, x, type, n)
  BY <1>9
<1> QED
  BY <1>3, <1>14, <1>15 DEF e

-----------------------------------------------------------------------------
(***************************************************************************)
(* Scopes.                                                                 *)
(***************************************************************************)
\* The rows of a query are those the scope allows and the condition selects
\* (QueryScope.apply).
LEMMA ScopeApplies ==
    ASSUME TablesOK(nodes, edges), NEW type, NEW s, NEW w, Effective(s, w) \in Clause,
           QueryIsAccepted(type, s, w)
    PROVE  Matches(DB, type, s, w) = Allowed(type, s) \cap Selected(DB, w, type)
<1>1. type \in Type /\ IsAccepted(Effective(s, w), type)
  BY DEF QueryIsAccepted
<1>2. CASE s.mode # "restricted"
  <2>1. Effective(s, w) = w
    BY <1>2 DEF Effective
  <2>2. Matches(DB, type, s, w) = Selected(DB, w, type) /\ Allowed(type, s) = {n \in Rows(DB) : nodes[n].type = type}
    BY <1>2, <2>1 DEF Matches, Allowed
  <2>3. Selected(DB, w, type) \subseteq {n \in Rows(DB) : nodes[n].type = type}
    BY DEF Selected, DB
  <2> QED BY <2>2, <2>3
<1>3. CASE s.mode = "restricted" /\ w = NoExpr
  <2>1. Effective(s, w) = s.where
    BY <1>3 DEF Effective
  <2> QED BY <1>3, <2>1 DEF Matches, Allowed, Selected
<1>4. CASE s.mode = "restricted" /\ w # NoExpr
  <2>1. Effective(s, w) = And(w, s.where)
    BY <1>4 DEF Effective
  <2>2. And(w, s.where) # NoExpr
    BY DEF And, NoExpr
  <2>3. And(w, s.where) \in Clause /\ Compiles(And(w, s.where), type)
    BY <1>1, <2>1, <2>2 DEF IsAccepted
  <2>4. EndsKnown(DB)
    BY EdgeEnds DEF EndsKnown, DB
  <2>5. \A n \in NodeId : Truth(DB, And(w, s.where), type, n) = TRUE <=>
             /\ Truth(DB, w, type, n) = TRUE
             /\ s.where = NoExpr \/ Truth(DB, s.where, type, n) = TRUE
    BY <1>1, <1>4, <2>3, <2>4, TruthOfAnd
  <2>6. Matches(DB, type, s, w) = Selected(DB, And(w, s.where), type)
    BY <2>1 DEF Matches
  <2>7. Allowed(type, s) = Selected(DB, s.where, type)
    BY <1>4 DEF Allowed
  <2>8. \A n : n \in Selected(DB, And(w, s.where), type) <=>
               n \in Selected(DB, s.where, type) /\ n \in Selected(DB, w, type)
    BY <1>4, <2>2, <2>5 DEF Selected, Rows
  <2> QED BY <2>6, <2>7, <2>8
<1> QED
  BY <1>2, <1>3, <1>4

\* A scope allows finitely many rows.
LEMMA AllowedFinite ==
    ASSUME NEW type, NEW s
    PROVE  IsFiniteSet(Allowed(type, s)) /\ Allowed(type, s) \subseteq NodeId
<1>1. Allowed(type, s) \subseteq NodeId
  BY DEF Allowed, Selected, Rows
<1> QED
  BY <1>1, FS_Subset, ReadsAssumption DEF ReadsAssumption

\* One level of Below from the level above.
BelowStep(T, S, i, above) ==
    IF i = 0 THEN S ELSE above \cup UNION {Children(T, n) : n \in above}
\* The levels of Below.
BelowAt(T, S) ==
    CHOOSE Down : Down = [i \in 0 .. Cardinality(T.nodes) |-> BelowStep(T, S, i, Down[i - 1])]

\* Below is the last level.
LEMMA BelowIs ==
    ASSUME NEW T, NEW S
    PROVE  Below(T, S) = BelowAt(T, S)[Cardinality(T.nodes)]
  BY DEF Below, BelowAt, BelowStep

\* One level of the nodes below some follows from the level above.
LEMMA BelowAtDef ==
    ASSUME NEW T, IsFiniteSet(T.nodes), NEW S
    PROVE  \A i \in 0 .. Cardinality(T.nodes) : BelowAt(T, S)[i] = BelowStep(T, S, i, BelowAt(T, S)[i - 1])
<1> DEFINE L == Cardinality(T.nodes)
           Step(g, i) == BelowStep(T, S, i, g[i - 1])
           Some(n) == \E g : g = [i \in 0 .. n |-> Step(g, i)]
           Good == {n \in 0 .. L : Some(n)}
<1>0. L \in Nat
  BY FS_CardinalityType
<1>1. 0 \in Good
  <2> DEFINE g == [i \in 0 .. 0 |-> BelowStep(T, S, 0, 0)]
  <2>1. \A x, y : BelowStep(T, S, 0, x) = BelowStep(T, S, 0, y)
    BY DEF BelowStep
  <2>2. g = [i \in 0 .. 0 |-> Step(g, i)]
    <3>1. \A i \in 0 .. 0 : i = 0
      OBVIOUS
    <3>2. \A i \in 0 .. 0 : g[i] = Step(g, i)
      BY <2>1, <3>1
    <3> HIDE DEF Step
    <3> QED BY <3>2
  <2>3. Some(0)
    <3> HIDE DEF g
    <3> QED BY <2>2
  <2> HIDE DEF Some
  <2> QED BY <1>0, <2>3
<1>2. ASSUME NEW n \in 1 .. L, n - 1 \in Good
      PROVE  n \in Good
  <2>1. PICK g : g = [i \in 0 .. n - 1 |-> Step(g, i)]
    BY <1>2
  <2> DEFINE h == [i \in 0 .. n |-> IF i = n THEN BelowStep(T, S, n, g[n - 1]) ELSE g[i]]
  <2>2. \A i \in 0 .. n : h[i] = Step(h, i)
    <3> TAKE i \in 0 .. n
    <3>0. n - 1 \in 0 .. n /\ n - 1 # n
      BY <1>0
    <3>1. CASE i = n
      <4>1. h[n - 1] = g[n - 1] /\ h[n] = BelowStep(T, S, n, g[n - 1])
        BY <1>0, <3>0, <3>1
      <4> HIDE DEF h
      <4> QED BY <3>1, <4>1
    <3>2. CASE i # n
      <4>1. i \in 0 .. n - 1
        BY <1>0, <3>2
      <4>2. h[i] = g[i] /\ g[i] = Step(g, i)
        BY <2>1, <3>2, <4>1
      <4>3. CASE i = 0
        <5>1. \A x, y : BelowStep(T, S, 0, x) = BelowStep(T, S, 0, y)
          BY DEF BelowStep
        <5>2. g[i] = BelowStep(T, S, 0, g[i - 1])
          BY <4>2, <4>3
        <5> HIDE DEF h
        <5> QED BY <4>2, <4>3, <5>1, <5>2
      <4>4. CASE i # 0
        <5>1. i - 1 \in 0 .. n - 1 /\ i - 1 # n
          BY <1>0, <4>1, <4>4
        <5>2. h[i - 1] = g[i - 1]
          BY <1>0, <5>1
        <5> HIDE DEF h
        <5> QED BY <4>2, <5>2
      <4> QED BY <4>3, <4>4
    <3> QED BY <3>1, <3>2
  <2>3. h = [i \in 0 .. n |-> Step(h, i)]
    <3> HIDE DEF Step
    <3> QED BY <2>2
  <2>4. Some(n)
    <3> HIDE DEF h
    <3> QED BY <2>3
  <2>5. n \in 0 .. L
    BY <1>0
  <2> HIDE DEF Some
  <2> QED BY <2>4, <2>5
<1>3. L \in Good
  <2> HIDE DEF Good
  <2>1. \A k \in 1 .. L : k - 1 \in Good => k \in Good
    BY <1>2
  <2> HIDE DEF L
  <2>2. 0 .. L \subseteq Good
    BY <1>0, <1>1, <2>1, InductionOn
  <2> QED BY <1>0, <2>2
<1>4. Some(L)
  BY <1>3
<1> DEFINE U == BelowAt(T, S)
<1>5. U = [i \in 0 .. L |-> Step(U, i)]
  BY <1>4 DEF BelowAt
<1> HIDE DEF U, L, Step
<1>6. \A i \in 0 .. L : U[i] = Step(U, i)
  BY <1>5
<1> QED
  BY <1>6 DEF U, L, Step

\* Going down the children stays in the tree.
LEMMA BelowStays ==
    ASSUME NEW T, IsFiniteSet(T.nodes), NEW S, S \subseteq T.nodes
    PROVE  Below(T, S) \subseteq T.nodes
<1> DEFINE L == Cardinality(T.nodes)
           Q == {i \in 0 .. L : BelowAt(T, S)[i] \subseteq T.nodes}
<1>1. L \in Nat
  BY FS_CardinalityType
<1>2. \A i \in 0 .. L : BelowAt(T, S)[i] = BelowStep(T, S, i, BelowAt(T, S)[i - 1])
  BY BelowAtDef
<1> HIDE DEF L
<1>3. 0 \in Q
  <2>1. 0 \in 0 .. L
    BY <1>1
  <2>2. BelowAt(T, S)[0] = S
    BY <1>2, <2>1 DEF BelowStep
  <2> QED BY <2>1, <2>2
<1>4. ASSUME NEW i \in 1 .. L, i - 1 \in Q PROVE i \in Q
  <2>1. i \in 0 .. L /\ i # 0 /\ BelowAt(T, S)[i - 1] \subseteq T.nodes
    BY <1>1, <1>4
  <2>2. BelowAt(T, S)[i] = BelowAt(T, S)[i - 1] \cup UNION {Children(T, n) : n \in BelowAt(T, S)[i - 1]}
    BY <1>2, <2>1 DEF BelowStep
  <2>3. \A n : Children(T, n) \subseteq T.nodes
    BY DEF Children
  <2> QED BY <2>1, <2>2, <2>3
<1> HIDE DEF Q
<1>5. 0 .. L \subseteq Q
  BY <1>1, <1>3, <1>4, InductionOn
<1>6. L \in Q
  BY <1>1, <1>5
<1> QED
  BY <1>6, BelowIs DEF Q, L

\* No list, count, tree or search goes past its scope.
LEMMA ScopeHolds ==
    ASSUME TablesOK(nodes, edges)
    PROVE  ScopeIsNeverWidened
<1>1. ASSUME NEW q \in Queries
      PROVE  /\ Matches(DB, Listed, q.scope, q.where) = Allowed(Listed, q.scope) \cap Selected(DB, q.where, Listed)
             /\ CountNodes(DB, Listed, q.scope, q.where, 1) =< Cardinality(Allowed(Listed, q.scope))
  <2> DEFINE M == Matches(DB, Listed, q.scope, q.where)
             A == Allowed(Listed, q.scope)
  <2>1. q.scope \in Scopes /\ q.where \in Wheres \cup {NoExpr} /\ QueryIsAccepted(Listed, q.scope, q.where)
    BY DEF Queries
  <2>2. M = A \cap Selected(DB, q.where, Listed)
    BY <2>1, ScopeApplies, ReadsAssumption DEF ReadsAssumption
  <2>3. IsFiniteSet(A) /\ M \subseteq A
    BY <2>2, AllowedFinite
  <2> HIDE DEF M, A
  <2>4. IsFiniteSet(M) /\ Cardinality(M) =< Cardinality(A)
    BY <2>3, FS_Subset
  <2>5. Cardinality(M) \in Nat /\ Cardinality(A) \in Nat
    BY <2>3, <2>4, FS_CardinalityType
  <2>6. CountNodes(DB, Listed, q.scope, q.where, 1) = IF Cardinality(M) > 1 THEN 1 ELSE Cardinality(M)
    BY <2>5 DEF CountNodes, M
  <2> QED BY <2>2, <2>4, <2>5, <2>6 DEF M, A
<1>2. ASSUME NEW s \in Lists
      PROVE  \A n \in JsonNodes(LoadTree(DB, Listed, s)) : n \in Allowed(Listed, s)
  <2> DEFINE T == LoadTree(DB, Listed, s)
  <2>1. PICK q \in Queries : q.where = NoExpr /\ s = q.scope
    BY DEF Lists
  <2>2. T.nodes = Matches(DB, Listed, s, NoExpr)
    BY DEF LoadTree
  <2>3. T.nodes \subseteq Allowed(Listed, s)
    BY <1>1, <2>1, <2>2
  <2>4. IsFiniteSet(T.nodes)
    BY <2>3, AllowedFinite, FS_Subset
  <2>5. Roots(T) \subseteq T.nodes
    BY DEF Roots
  <2> HIDE DEF T
  <2>6. JsonNodes(T) \subseteq T.nodes
    BY <2>4, <2>5, BelowStays DEF JsonNodes
  <2> QED BY <2>3, <2>6 DEF T
<1>3. ASSUME NEW q \in Searches, NEW n \in Hits(DB, q.text, q.targets)
      PROVE  \E i \in DOMAIN q.targets :
                n \in Allowed(q.targets[i].type, q.targets[i].scope)
                        \cap Selected(DB, q.targets[i].where, q.targets[i].type)
  <2> DEFINE t == q.targets
  <2>1. t \in Targets /\ SearchIsAccepted(t)
    BY DEF Searches
  <2>2. n \in Visible(DB, t)
    BY <1>3 DEF Hits
  <2> HIDE DEF t
  <2>3. PICK i \in DOMAIN t : n \in Matches(DB, t[i].type, t[i].scope, t[i].where)
    BY <2>2 DEF Visible
  <2>4. QueryIsAccepted(t[i].type, t[i].scope, t[i].where)
    BY <2>1 DEF SearchIsAccepted
  <2>5. Effective(t[i].scope, t[i].where) \in Clause
    BY <2>1, ReadsAssumption DEF ReadsAssumption
  <2>6. n \in Allowed(t[i].type, t[i].scope) \cap Selected(DB, t[i].where, t[i].type)
    BY <2>3, <2>4, <2>5, ScopeApplies
  <2> QED BY <2>6 DEF t
<1> QED
  BY <1>1, <1>2, <1>3 DEF ScopeIsNeverWidened

\* Whatever the user's condition, a query returns exactly the rows that the policy allows
\* and the condition selects; a count, a tree and a search show no other.
THEOREM ScopeNeverWidened == Spec => []ScopeIsNeverWidened
  BY TablesFit, ScopeHolds, PTL

-----------------------------------------------------------------------------
(***************************************************************************)
(* The levels of an answer.                                                *)
(***************************************************************************)
\* The copies that a heap holds for some copies under one key.
Entries(heap, X, key) == {g \in heap : g.of \in X /\ g.key = key}
\* One level of Under from the level above.
UnderStep(heap, C, keys, i, above) ==
    IF i = 0 THEN C ELSE UNION {h.to : h \in {g \in heap : g.of \in above /\ g.key = keys[i]}}
\* The levels of Under.
UnderAt(heap, C, keys) ==
    CHOOSE G : G = [i \in 0 .. Len(keys) |-> UnderStep(heap, C, keys, i, G[i - 1])]

\* Under is the last level.
LEMMA UnderIs ==
    ASSUME NEW heap, NEW C, NEW keys
    PROVE  Under(heap, C, keys) = UnderAt(heap, C, keys)[Len(keys)]
  BY DEF Under, UnderAt, UnderStep

\* One level of the copies under a path follows from the level above.
LEMMA UnderAtDef ==
    ASSUME NEW heap, NEW C, NEW keys, Len(keys) \in Nat
    PROVE  \A i \in 0 .. Len(keys) : UnderAt(heap, C, keys)[i] = UnderStep(heap, C, keys, i, UnderAt(heap, C, keys)[i - 1])
<1> DEFINE L == Len(keys)
           Step(g, i) == UnderStep(heap, C, keys, i, g[i - 1])
           Some(n) == \E g : g = [i \in 0 .. n |-> Step(g, i)]
           Good == {n \in 0 .. L : Some(n)}
<1>0. L \in Nat
  OBVIOUS
<1>1. 0 \in Good
  <2> DEFINE g == [i \in 0 .. 0 |-> UnderStep(heap, C, keys, 0, 0)]
  <2>1. \A x, y : UnderStep(heap, C, keys, 0, x) = UnderStep(heap, C, keys, 0, y)
    BY DEF UnderStep
  <2>2. g = [i \in 0 .. 0 |-> Step(g, i)]
    <3>1. \A i \in 0 .. 0 : i = 0
      OBVIOUS
    <3>2. \A i \in 0 .. 0 : g[i] = Step(g, i)
      BY <2>1, <3>1
    <3> HIDE DEF Step
    <3> QED BY <3>2
  <2>3. Some(0)
    <3> HIDE DEF g
    <3> QED BY <2>2
  <2> HIDE DEF Some
  <2> QED BY <1>0, <2>3
<1>2. ASSUME NEW n \in 1 .. L, n - 1 \in Good
      PROVE  n \in Good
  <2>1. PICK g : g = [i \in 0 .. n - 1 |-> Step(g, i)]
    BY <1>2
  <2> DEFINE h == [i \in 0 .. n |-> IF i = n THEN UnderStep(heap, C, keys, n, g[n - 1]) ELSE g[i]]
  <2>2. \A i \in 0 .. n : h[i] = Step(h, i)
    <3> TAKE i \in 0 .. n
    <3>0. n - 1 \in 0 .. n /\ n - 1 # n
      BY <1>0
    <3>1. CASE i = n
      <4>1. h[n - 1] = g[n - 1] /\ h[n] = UnderStep(heap, C, keys, n, g[n - 1])
        BY <1>0, <3>0, <3>1
      <4> HIDE DEF h
      <4> QED BY <3>1, <4>1
    <3>2. CASE i # n
      <4>1. i \in 0 .. n - 1
        BY <1>0, <3>2
      <4>2. h[i] = g[i] /\ g[i] = Step(g, i)
        BY <2>1, <3>2, <4>1
      <4>3. CASE i = 0
        <5>1. \A x, y : UnderStep(heap, C, keys, 0, x) = UnderStep(heap, C, keys, 0, y)
          BY DEF UnderStep
        <5>2. g[i] = UnderStep(heap, C, keys, 0, g[i - 1])
          BY <4>2, <4>3
        <5> HIDE DEF h
        <5> QED BY <4>2, <4>3, <5>1, <5>2
      <4>4. CASE i # 0
        <5>1. i - 1 \in 0 .. n - 1 /\ i - 1 # n
          BY <1>0, <4>1, <4>4
        <5>2. h[i - 1] = g[i - 1]
          BY <1>0, <5>1
        <5> HIDE DEF h
        <5> QED BY <4>2, <5>2
      <4> QED BY <4>3, <4>4
    <3> QED BY <3>1, <3>2
  <2>3. h = [i \in 0 .. n |-> Step(h, i)]
    <3> HIDE DEF Step
    <3> QED BY <2>2
  <2>4. Some(n)
    <3> HIDE DEF h
    <3> QED BY <2>3
  <2>5. n \in 0 .. L
    BY <1>0
  <2> HIDE DEF Some
  <2> QED BY <2>4, <2>5
<1>3. L \in Good
  <2> HIDE DEF Good
  <2>1. \A k \in 1 .. L : k - 1 \in Good => k \in Good
    BY <1>2
  <2> HIDE DEF L
  <2>2. 0 .. L \subseteq Good
    BY <1>0, <1>1, <2>1, InductionOn
  <2> QED BY <1>0, <2>2
<1>4. Some(L)
  BY <1>3
<1> DEFINE U == UnderAt(heap, C, keys)
<1>5. U = [i \in 0 .. L |-> Step(U, i)]
  BY <1>4 DEF UnderAt
<1> HIDE DEF U, L, Step
<1>6. \A i \in 0 .. L : U[i] = Step(U, i)
  BY <1>5
<1> QED
  BY <1>6 DEF U, L, Step

\* Level 0 are the copies themselves.
LEMMA UnderStarts ==
    ASSUME NEW heap, NEW C, NEW keys, Len(keys) \in Nat
    PROVE  UnderAt(heap, C, keys)[0] = C
<1>1. 0 \in 0 .. Len(keys)
  OBVIOUS
<1>2. UnderAt(heap, C, keys)[0] = UnderStep(heap, C, keys, 0, UnderAt(heap, C, keys)[0 - 1])
  BY <1>1, UnderAtDef
<1> QED
  BY <1>2 DEF UnderStep

\* The next level, by the entries.
LEMMA UnderNext ==
    ASSUME NEW heap, NEW C, NEW keys, Len(keys) \in Nat, NEW i \in 1 .. Len(keys)
    PROVE  UnderAt(heap, C, keys)[i] =
             UNION {h.to : h \in Entries(heap, UnderAt(heap, C, keys)[i - 1], keys[i])}
<1>1. i \in 0 .. Len(keys) /\ i # 0
  OBVIOUS
<1>2. UnderAt(heap, C, keys)[i] = UnderStep(heap, C, keys, i, UnderAt(heap, C, keys)[i - 1])
  BY <1>1, UnderAtDef
<1> QED
  BY <1>1, <1>2 DEF UnderStep, Entries

\* What is under the beginning of a path is a level of the whole path.
LEMMA UnderPrefix ==
    ASSUME NEW heap, NEW C, NEW S, NEW keys \in Seq(S), NEW m \in 0 .. Len(keys)
    PROVE  Under(heap, C, SubSeq(keys, 1, m)) = UnderAt(heap, C, keys)[m]
<1> DEFINE short == SubSeq(keys, 1, m)
           Q == {i \in 0 .. m : UnderAt(heap, C, short)[i] = UnderAt(heap, C, keys)[i]}
<1>1. Len(keys) \in Nat /\ m \in Nat
  OBVIOUS
<1>2. Len(short) = m /\ \A i \in 1 .. m : short[i] = keys[i]
  <2>1. m >= 1 => /\ Len(short) = m
                  /\ \A i \in 1 .. m : short[i] = keys[i]
    BY <1>1, SubSeqProperties
  <2>2. m = 0 => short = << >>
    BY <1>1, SubSeqProperties
  <2>3. m = 0 => 1 .. m = {}
    OBVIOUS
  <2> QED BY <1>1, <2>1, <2>2, <2>3
<1> HIDE DEF short
<1>3. 0 \in Q
  BY <1>1, <1>2, UnderStarts
<1>4. ASSUME NEW i \in 1 .. m, i - 1 \in Q PROVE i \in Q
  <2>1. i \in 1 .. Len(keys) /\ i \in 1 .. Len(short) /\ short[i] = keys[i] /\ i \in 0 .. m
    BY <1>1, <1>2
  <2>2. UnderAt(heap, C, short)[i - 1] = UnderAt(heap, C, keys)[i - 1]
    BY <1>4
  <2>3. UnderAt(heap, C, short)[i] =
          UNION {h.to : h \in Entries(heap, UnderAt(heap, C, short)[i - 1], short[i])}
    BY <1>1, <1>2, <2>1, UnderNext
  <2>4. UnderAt(heap, C, keys)[i] =
          UNION {h.to : h \in Entries(heap, UnderAt(heap, C, keys)[i - 1], keys[i])}
    BY <1>1, <2>1, UnderNext
  <2>5. UnderAt(heap, C, short)[i] = UnderAt(heap, C, keys)[i]
    BY <2>1, <2>2, <2>3, <2>4, Zenon
  <2> QED BY <2>1, <2>5
<1> HIDE DEF Q
<1>5. 0 .. m \subseteq Q
  BY <1>1, <1>3, <1>4, InductionOn
<1>6. m \in Q
  BY <1>1, <1>5
<1> QED
  BY <1>2, <1>6, UnderIs DEF Q, short

\* What one copy has under one key.
LEMMA UnderOne ==
    ASSUME NEW heap, NEW c, NEW key
    PROVE  Under(heap, {c}, <<key>>) = UNION {h.to : h \in Entries(heap, {c}, key)}
<1> DEFINE keys == <<key>>
           C == {c}
<1>1. Len(keys) = 1 /\ keys[1] = key
  OBVIOUS
<1> HIDE DEF keys, C
<1>2. Len(keys) \in Nat /\ 1 \in 1 .. Len(keys) /\ 1 - 1 = 0
  BY <1>1
<1>3. \A i \in 1 .. Len(keys) : UnderAt(heap, C, keys)[i] =
        UNION {h.to : h \in Entries(heap, UnderAt(heap, C, keys)[i - 1], keys[i])}
  BY <1>2, UnderNext
<1>4. UnderAt(heap, C, keys)[0] = C
  BY <1>2, UnderStarts
<1>5. Under(heap, C, keys) = UnderAt(heap, C, keys)[1]
  BY <1>1, UnderIs
<1> QED
  BY <1>1, <1>2, <1>3, <1>4, <1>5 DEF keys, C

\* Nothing is below nothing.
LEMMA UnderNothing ==
    ASSUME NEW heap, NEW C, NEW keys, Len(keys) \in Nat, NEW m \in 0 .. Len(keys),
           UnderAt(heap, C, keys)[m] = {}
    PROVE  \A j \in m .. Len(keys) : UnderAt(heap, C, keys)[j] = {}
<1> DEFINE Q == {d \in 0 .. (Len(keys) - m) : UnderAt(heap, C, keys)[m + d] = {}}
<1>1. Len(keys) - m \in Nat /\ m \in Nat
  OBVIOUS
<1>2. 0 \in Q
  BY <1>1
<1>3. ASSUME NEW d \in 1 .. (Len(keys) - m), d - 1 \in Q PROVE d \in Q
  <2>1. /\ d \in 0 .. (Len(keys) - m) /\ m + d \in 1 .. Len(keys)
        /\ (m + d) - 1 = m + (d - 1)
    BY <1>1
  <2>2. UnderAt(heap, C, keys)[(m + d) - 1] = {}
    BY <1>3, <2>1
  <2>3. UnderAt(heap, C, keys)[m + d] =
          UNION {h.to : h \in Entries(heap, UnderAt(heap, C, keys)[(m + d) - 1], keys[m + d])}
    BY <2>1, UnderNext
  <2>4. Entries(heap, {}, keys[m + d]) = {}
    BY DEF Entries
  <2> QED BY <2>1, <2>2, <2>3, <2>4
<1> HIDE DEF Q
<1>4. 0 .. (Len(keys) - m) \subseteq Q
  BY <1>1, <1>2, <1>3, InductionOn
<1>5. ASSUME NEW j \in m .. Len(keys) PROVE UnderAt(heap, C, keys)[j] = {}
  <2>1. j - m \in 0 .. (Len(keys) - m) /\ m + (j - m) = j
    BY <1>1
  <2> QED BY <1>4, <2>1 DEF Q
<1> QED
  BY <1>5

\* Storing a segment leaves the other entries alone, and every key that had
\* an entry keeps one.
LEMMA AttachElsewhere ==
    ASSUME NEW heap, NEW batch, NEW pairs, NEW loaded, NEW load, NEW seg, NEW single,
           NEW X, NEW key, X \cap batch = {} \/ key # seg
    PROVE  Entries(Attach(heap, batch, pairs, loaded, load, seg, single), X, key) = Entries(heap, X, key)
<1> DEFINE H == Attach(heap, batch, pairs, loaded, load, seg, single)
           set == {c \in batch : ~ single \/ ValuesOf(pairs, c.id, loaded, load) # {}}
<1>1. H = {h \in heap : ~ (h.of \in set /\ h.key = seg)}
            \cup {[of |-> c, key |-> seg, to |-> ValuesOf(pairs, c.id, loaded, load)] : c \in set}
  BY DEF Attach
<1>2. set \subseteq batch
  OBVIOUS
<1> HIDE DEF set, H
<1>3. \A h : h.of \in X /\ h.key = key => (h \in H <=> h \in heap)
  BY <1>1, <1>2
<1> QED
  BY <1>3 DEF Entries, H

\* Storing takes no entry away without putting one in its place.
LEMMA AttachCovers ==
    ASSUME NEW heap, NEW batch, NEW pairs, NEW loaded, NEW load, NEW seg, NEW single,
           NEW h \in heap
    PROVE  \E g \in Attach(heap, batch, pairs, loaded, load, seg, single) : g.of = h.of /\ g.key = h.key
<1> DEFINE set == {c \in batch : ~ single \/ ValuesOf(pairs, c.id, loaded, load) # {}}
           new == [of |-> h.of, key |-> seg, to |-> ValuesOf(pairs, h.of.id, loaded, load)]
<1>1. CASE h.of \in set /\ h.key = seg
  <2>1. new \in Attach(heap, batch, pairs, loaded, load, seg, single)
    BY <1>1 DEF Attach
  <2>2. new.of = h.of /\ new.key = h.key
    BY <1>1
  <2> QED BY <2>1, <2>2
<1>2. CASE ~ (h.of \in set /\ h.key = seg)
  BY <1>2 DEF Attach
<1> QED
  BY <1>1, <1>2

-----------------------------------------------------------------------------
(***************************************************************************)
(* Segments read references.                                               *)
(***************************************************************************)
\* The statement for the edges of a batch finds what the references say, when
\* the nodes of the batch have the type it goes by and its targets fit.
LEMMA SegmentReadsOut ==
    ASSUME TablesOK(nodes, edges), NEW type, NEW seg, SegmentResolves(type, seg), seg.kind = "out",
           NEW ids, NEW n \in ids, n \in NodeId, nodes[n].type = type, NEW m
    PROVE  (\E p \in Grouped(TypedEdges(DB, ids, type, seg), ids, type, seg) : p[1] = n /\ p[2] = m)
             <=> m \in Refers(n, seg)
<1> DEFINE f == SegmentField(type, seg)
           E == TypedEdges(DB, ids, type, seg)
           G == Grouped(E, ids, type, seg)
<1>1. f \in Field /\ f.name = seg.name /\ f.type = type
  BY ResolvedField
<1> HIDE DEF f
<1>2. m \in Refers(n, seg) <=> \E e \in edges : e.field = f.name /\ n \in Owners(e) /\ m = OtherEnd(e, n)
  BY <1>1 DEF Refers, RefValue, RefEdges
<1>3. \A e \in edges : e.field = f.name /\ n \in Owners(e) => e.symmetric = Undirected(f)
  <2> TAKE e \in edges
  <2> HAVE e.field = f.name /\ n \in Owners(e)
  <2>1. nodes[e.from].type = f.type \/ (e.symmetric /\ nodes[e.to].type = f.type)
    BY <1>1 DEF Owners
  <2> QED BY <1>1, <2>1, OwnField
<1>4. CASE Undirected(f)
  <2>1. \A e : e \in E <=> e \in edges /\ e.field = f.name /\ e.symmetric /\ ids \cap {e.from, e.to} # {}
    BY <1>1, <1>4 DEF TypedEdges, DB, f
  <2> HIDE DEF E
  <2>2. \A p : p \in G <=> p \in ids \X NodeId /\ \E e \in E : p[1] \in {e.from, e.to} /\ p[2] = OtherEnd(e, p[1])
    BY <1>1, <1>4, ResolvedField DEF Grouped, f
  <2>3. ASSUME NEW p \in G, p[1] = n, p[2] = m PROVE m \in Refers(n, seg)
    <3>1. PICK e \in E : p[1] \in {e.from, e.to} /\ p[2] = OtherEnd(e, p[1])
      BY <2>2
    <3>2. n \in Owners(e) /\ e \in edges /\ e.field = f.name
      BY <2>1, <2>3, <3>1 DEF Owners
    <3> QED BY <1>2, <2>3, <3>1, <3>2
  <2>4. ASSUME m \in Refers(n, seg) PROVE \E p \in G : p[1] = n /\ p[2] = m
    <3>1. PICK e \in edges : e.field = f.name /\ n \in Owners(e) /\ m = OtherEnd(e, n)
      BY <1>2, <2>4
    <3>2. e.symmetric /\ n \in {e.from, e.to}
      BY <1>3, <1>4, <3>1 DEF Owners
    <3>3. e \in E
      BY <2>1, <3>1, <3>2
    <3>4. m \in NodeId
      BY <3>1, EdgeEnds DEF OtherEnd
    <3>5. <<n, m>> \in G
      BY <2>2, <3>1, <3>2, <3>3, <3>4
    <3> QED BY <3>5
  <2> QED BY <2>3, <2>4 DEF E
<1>5. CASE ~ Undirected(f)
  <2>1. \A e : e \in E <=> e \in edges /\ e.field = f.name /\ e.from \in ids
    BY <1>1, <1>5 DEF TypedEdges, DB, f
  <2> HIDE DEF E
  <2>2. \A p : p \in G <=> p \in ids \X NodeId /\ \E e \in E : p[1] = e.from /\ p[2] = e.to
    BY <1>1, <1>5 DEF Grouped, f
  <2>3. ASSUME NEW p \in G, p[1] = n, p[2] = m PROVE m \in Refers(n, seg)
    <3>1. PICK e \in E : p[1] = e.from /\ p[2] = e.to
      BY <2>2
    <3>2. n \in Owners(e) /\ e \in edges /\ e.field = f.name /\ m = OtherEnd(e, n)
      BY <2>1, <2>3, <3>1 DEF Owners, OtherEnd
    <3> QED BY <1>2, <3>2
  <2>4. ASSUME m \in Refers(n, seg) PROVE \E p \in G : p[1] = n /\ p[2] = m
    <3>1. PICK e \in edges : e.field = f.name /\ n \in Owners(e) /\ m = OtherEnd(e, n)
      BY <1>2, <2>4
    <3>2. e.from = n /\ e.to = m
      BY <1>3, <1>5, <3>1 DEF Owners, OtherEnd
    <3>3. e \in E
      BY <2>1, <3>1, <3>2
    <3>4. m \in NodeId
      BY <3>1, EdgeEnds DEF OtherEnd
    <3>5. <<n, m>> \in G
      BY <2>2, <3>2, <3>3, <3>4
    <3> QED BY <3>5
  <2> QED BY <2>3, <2>4 DEF E
<1> QED
  BY <1>4, <1>5

\* For an incoming segment the pairs of a node are the nodes whose field refers to it,
\* once all targets have the expected type.
LEMMA SegmentReadsIn ==
    ASSUME TablesOK(nodes, edges), NEW type, NEW seg, SegmentResolves(type, seg), seg.kind = "in",
           NEW ids, NEW n \in ids, n \in NodeId, nodes[n].type = type, NEW m,
           \A p \in Grouped(TypedEdges(DB, ids, type, seg), ids, type, seg) :
              nodes[p[2]].type = TargetType(type, seg)
    PROVE  (\E p \in Grouped(TypedEdges(DB, ids, type, seg), ids, type, seg) : p[1] = n /\ p[2] = m)
             <=> m \in Refers(n, seg)
<1> DEFINE f == SegmentField(type, seg)
           E == TypedEdges(DB, ids, type, seg)
           G == Grouped(E, ids, type, seg)
<1>1. /\ f \in Field /\ f.name = seg.name /\ f.type = seg.source /\ f.to = type
      /\ TargetType(type, seg) = f.type
  BY ResolvedField
<1>0. \A p \in G : nodes[p[2]].type = f.type
  BY <1>1
<1> HIDE DEF f
<1>2. m \in Refers(n, seg) <=>
        /\ m \in NodeId /\ nodes[m] # NoRow /\ nodes[m].type = f.type
        /\ \E e \in edges : e.field = f.name /\ m \in Owners(e) /\ n = OtherEnd(e, m)
  BY <1>1 DEF Refers, RefValue, RefEdges, Rows, DB
<1>3. \A e \in edges : e.field = f.name /\ m \in Owners(e) /\ nodes[m].type = f.type =>
         e.symmetric = Undirected(f)
  <2> TAKE e \in edges
  <2> HAVE e.field = f.name /\ m \in Owners(e) /\ nodes[m].type = f.type
  <2>1. nodes[e.from].type = f.type \/ (e.symmetric /\ nodes[e.to].type = f.type)
    BY <1>1 DEF Owners
  <2> QED BY <1>1, <2>1, OwnField
<1>4. CASE Undirected(f)
  <2>1. \A e : e \in E <=> e \in edges /\ e.field = f.name /\ e.symmetric /\ ids \cap {e.from, e.to} # {}
    BY <1>1, <1>4 DEF TypedEdges, DB, f
  <2> HIDE DEF E
  <2>2. \A p : p \in G <=> p \in ids \X NodeId /\ \E e \in E : p[1] \in {e.from, e.to} /\ p[2] = OtherEnd(e, p[1])
    BY <1>1, <1>4 DEF Grouped, f
  <2>3. ASSUME NEW p \in G, p[1] = n, p[2] = m PROVE m \in Refers(n, seg)
    <3>1. PICK e \in E : p[1] \in {e.from, e.to} /\ p[2] = OtherEnd(e, p[1])
      BY <2>2
    <3>2. e \in edges /\ e.field = f.name /\ e.symmetric
      BY <2>1
    <3>3. Owners(e) = {e.from} \cup {e.to}
      BY <3>2 DEF Owners
    <3>4. m \in Owners(e) /\ n = OtherEnd(e, m)
      BY <2>3, <3>1, <3>3 DEF OtherEnd
    <3>5. m \in NodeId /\ nodes[m] # NoRow
      BY <2>3, <3>1, <3>2, EdgeEnds DEF OtherEnd
    <3>6. nodes[m].type = f.type
      BY <1>0, <2>3
    <3> QED BY <1>2, <3>2, <3>4, <3>5, <3>6
  <2>4. ASSUME m \in Refers(n, seg) PROVE \E p \in G : p[1] = n /\ p[2] = m
    <3>1. PICK e \in edges : e.field = f.name /\ m \in Owners(e) /\ n = OtherEnd(e, m)
      BY <1>2, <2>4
    <3>2. e.symmetric
      BY <1>2, <1>3, <1>4, <2>4, <3>1
    <3>3. n \in {e.from, e.to} /\ m = OtherEnd(e, n)
      BY <3>1, <3>2 DEF Owners, OtherEnd
    <3>4. e \in E
      BY <2>1, <3>1, <3>2, <3>3
    <3>5. <<n, m>> \in G
      BY <1>2, <2>2, <2>4, <3>3, <3>4
    <3> QED BY <3>5
  <2> QED BY <2>3, <2>4 DEF E
<1>5. CASE ~ Undirected(f)
  <2>1. \A e : e \in E <=> e \in edges /\ e.field = f.name /\ e.to \in ids
    BY <1>1, <1>5 DEF TypedEdges, DB, f
  <2> HIDE DEF E
  <2>2. \A p : p \in G <=> p \in ids \X NodeId /\ \E e \in E : p[1] = e.to /\ p[2] = e.from
    BY <1>1, <1>5 DEF Grouped, f
  <2>3. ASSUME NEW p \in G, p[1] = n, p[2] = m PROVE m \in Refers(n, seg)
    <3>1. PICK e \in E : p[1] = e.to /\ p[2] = e.from
      BY <2>2
    <3>2. m \in Owners(e) /\ e \in edges /\ e.field = f.name /\ n = OtherEnd(e, m)
      BY <2>1, <2>3, <3>1 DEF Owners, OtherEnd
    <3>3. m \in NodeId /\ nodes[m] # NoRow /\ nodes[m].type = f.type
      BY <1>0, <2>3, <3>1, <3>2, EdgeEnds
    <3> QED BY <1>2, <3>2, <3>3
  <2>4. ASSUME m \in Refers(n, seg) PROVE \E p \in G : p[1] = n /\ p[2] = m
    <3>1. PICK e \in edges : e.field = f.name /\ m \in Owners(e) /\ n = OtherEnd(e, m)
      BY <1>2, <2>4
    <3>2. ~ e.symmetric
      BY <1>2, <1>3, <1>5, <2>4, <3>1
    <3>3. e.from = m /\ e.to = n
      BY <3>1, <3>2 DEF Owners, OtherEnd
    <3>4. e \in E
      BY <2>1, <3>1, <3>3
    <3>5. <<n, m>> \in G
      BY <1>2, <2>2, <2>4, <3>3, <3>4
    <3> QED BY <3>5
  <2> QED BY <2>3, <2>4 DEF E
<1> QED
  BY <1>4, <1>5

-----------------------------------------------------------------------------
(***************************************************************************)
(* Exact expansion.                                                        *)
(***************************************************************************)
\* Refers, of tables that are not the variables.
RefersIn(N, E, n, path) ==
    IF path.kind = "out" THEN RefValue(E, n, path.name)
    ELSE {m \in NodeId : N[m] # NoRow /\ N[m].type = path.source /\ n \in RefValue(E, m, path.name)}

\* The copies an expansion starts from.
Start(r) == {Copy(n, 0) : n \in r.roots}
\* The levels of copies under the path i of a reader's request.
Level(r, i) == UnderAt(r.heap, Start(r), r.req.paths[i])

\* Every entry has what the references of its node say, in copies that some load has
\* made.
HeapExact(N, E, heap, load) ==
    \A h \in heap : /\ IdsOf(h.to) = RefersIn(N, E, h.of.id, h.key)
                    /\ \A c \in h.to : c.load \in 1 .. load

\* Under the key, c has an entry, or has nothing to show.
Covered(N, E, heap, c, key) ==
    (\E h \in heap : h.of = c /\ h.key = key) \/ RefersIn(N, E, c.id, key) = {}

\* Down to level m, every copy under path i is covered.
CoveredTo(N, E, r, i, m) ==
    \A k \in 1 .. m : \A c \in Level(r, i)[k - 1] : Covered(N, E, r.heap, c, r.req.paths[i][k])

\* Down to level m, all copies under path i are older than the last load.
LevelsBefore(r, i, m) == \A j \in 0 .. m : \A c \in Level(r, i)[j] : c.load < r.load

\* The batch is the roots, or what the last load made, and that is under no path that is
\* done.
BatchExact(r) ==
    /\ r.seg = 1 => r.batch = Start(r)
    /\ r.seg > 1 =>
         /\ \A c \in r.batch : c.load = r.load
         /\ \A i \in 1 .. (r.path - 1) : IsOwn(r.req.paths, i) => LevelsBefore(r, i, Len(r.req.paths[i]))
         /\ IsOwn(r.req.paths, r.path) => LevelsBefore(r, r.path, r.seg - 2)

\* The paths that are done are covered; the batch is the level that the present path has
\* come to.
PathExact(N, E, r) ==
    /\ \A i \in 1 .. (r.path - 1) : IsOwn(r.req.paths, i) => CoveredTo(N, E, r, i, Len(r.req.paths[i]))
    /\ IsOwn(r.req.paths, r.path) =>
         /\ Level(r, r.path)[r.seg - 1] = r.batch
         /\ CoveredTo(N, E, r, r.path, r.seg - 1)

\* The database of two tables.
Tables(N, E) == [nodes |-> N, edges |-> E]

\* What holds of a reader beside which nobody has written.
ExactOK(N, E, r) ==
    /\ HeapExact(N, E, r.heap, r.load)
    /\ r.pc = "hydrate" => r.heap = {} /\ r.batch = Start(r)
    /\ r.pc \in {"edges", "targets"} => BatchExact(r) /\ PathExact(N, E, r)
    /\ r.pc = "targets" =>
         r.pairs = Grouped(TypedEdges(Tables(N, E), IdsOf(r.batch), r.type, SegOf(r)),
                           IdsOf(r.batch), r.type, SegOf(r))
    /\ r.pc = "done" => \A i \in DOMAIN r.req.paths :
         IsOwn(r.req.paths, i) => CoveredTo(N, E, r, i, Len(r.req.paths[i]))

\* The inductive invariant of ExpansionIsExact. The rows that are there are all that has
\* been there, and the answer is exact as far as it has come. That a load makes new
\* copies is what keeps the done paths apart from the batch (BatchExact): a store goes to
\* copies of the batch only.
ExactInv ==
    reader # Idle /\ reader.torn = 0 => seen.rows = RowsOf(nodes) /\ ExactOK(nodes, edges, reader)

\* Refers reads the variables.
LEMMA RefersIs ==
    ASSUME NEW n, NEW path
    PROVE  Refers(n, path) = RefersIn(nodes, edges, n, path)
  BY DEF Refers, RefersIn, Rows, DB

\* References refer to rows.
LEMMA RefersToRows ==
    ASSUME TablesOK(nodes, edges), NEW n, NEW path, NEW m \in Refers(n, path)
    PROVE  m \in Rows(DB)
<1>1. CASE path.kind = "out"
  <2>1. PICK e \in edges : m = OtherEnd(e, n)
    BY <1>1 DEF Refers, RefValue, RefEdges
  <2> QED BY <2>1, EdgeEnds DEF OtherEnd, Rows, DB
<1>2. CASE path.kind # "out"
  BY <1>2 DEF Refers
<1> QED
  BY <1>1, <1>2

\* The statements for a segment load exactly what the references of each
\* node of the batch say.
LEMMA ValuesExact ==
    ASSUME TablesOK(nodes, edges), NEW r, r \in Reading, r.pc = "targets", PlaceOK(r),
           \A c \in r.batch : <<c.id, r.type>> \in RowsOf(nodes),
           r.pairs = Grouped(TypedEdges(DB, IdsOf(r.batch), r.type, SegOf(r)),
                             IdsOf(r.batch), r.type, SegOf(r)),
           NEW loaded, loaded = Loaded(DB, TargetsOf(r.pairs)),
           TargetsFit(DB, loaded, r.type, SegOf(r)), NEW load
    PROVE  /\ \A c \in r.batch :
                IdsOf(ValuesOf(r.pairs, c.id, loaded, load)) = Refers(c.id, SegOf(r))
           /\ \A n \in loaded : \E c \in r.batch : Copy(n, load) \in ValuesOf(r.pairs, c.id, loaded, load)
           /\ \A c \in r.batch : \A v \in ValuesOf(r.pairs, c.id, loaded, load) :
                v.load = load /\ v.id \in loaded /\ v = Copy(v.id, load)
<1> DEFINE seg == SegOf(r)
           ids == IdsOf(r.batch)
<1>1. SegmentResolves(r.type, seg) /\ seg.kind \in {"out", "in"}
  BY SegmentIsStep DEF PlaceOK
<1>2. \A c \in r.batch : c.id \in ids /\ c.id \in NodeId /\ nodes[c.id] # NoRow /\ nodes[c.id].type = r.type
  BY DEF RowsOf, IdsOf
<1>3. \A p \in r.pairs : p[1] \in ids /\ p[2] \in NodeId
  BY DEF Grouped
<1> HIDE DEF seg
<1>4. \A p \in r.pairs : p[2] \in Rows(DB)
  <2> TAKE p \in r.pairs
  <2> DEFINE f == SegmentField(r.type, seg)
  <2>1. PICK e \in TypedEdges(DB, ids, r.type, seg) :
         CASE Undirected(f) -> p[1] \in {e.from, e.to} /\ p[2] = OtherEnd(e, p[1])
           [] ~ Undirected(f) /\ seg.kind = "in" -> p[1] = e.to /\ p[2] = e.from
           [] OTHER -> p[1] = e.from /\ p[2] = e.to
    BY DEF Grouped, seg
  <2>2. e \in edges
    BY DEF TypedEdges, DB
  <2> HIDE DEF f
  <2>3. p[2] = e.from \/ p[2] = e.to
    <3>1. CASE Undirected(f)
      BY <2>1, <3>1 DEF OtherEnd
    <3>2. CASE ~ Undirected(f) /\ seg.kind = "in"
      BY <2>1, <3>2
    <3>3. CASE ~ Undirected(f) /\ seg.kind # "in"
      BY <2>1, <3>3
    <3> QED BY <3>1, <3>2, <3>3
  <2> QED BY <2>2, <2>3, EdgeEnds DEF Rows, DB
<1>5. \A p \in r.pairs : p[2] \in loaded
  BY <1>4 DEF Loaded, TargetsOf
<1>6. \A n \in loaded : n \in Rows(DB) /\ \E p \in r.pairs : p[2] = n
  BY DEF Loaded, TargetsOf
<1>7. \A p \in r.pairs : nodes[p[2]].type = TargetType(r.type, seg)
  BY <1>4, <1>5 DEF TargetsFit, Loaded, DB, seg
<1>8. ASSUME NEW c \in r.batch, NEW m
      PROVE  (\E p \in r.pairs : p[1] = c.id /\ p[2] = m) <=> m \in Refers(c.id, seg)
  <2>1. CASE seg.kind = "out"
    BY <1>1, <1>2, <2>1, SegmentReadsOut DEF seg
  <2>2. CASE seg.kind = "in"
    BY <1>1, <1>2, <1>7, <2>2, SegmentReadsIn DEF seg
  <2> QED BY <1>1, <2>1, <2>2
<1>9. \A c, v : v \in ValuesOf(r.pairs, c.id, loaded, load) <=>
        \E p \in r.pairs : p[1] = c.id /\ v = Copy(p[2], load)
  BY <1>5 DEF ValuesOf
<1>10. \A n : Copy(n, load).id = n /\ Copy(n, load).load = load
  BY DEF Copy
<1>11. ASSUME NEW c \in r.batch
       PROVE  IdsOf(ValuesOf(r.pairs, c.id, loaded, load)) = Refers(c.id, seg)
  <2> DEFINE V == ValuesOf(r.pairs, c.id, loaded, load)
  <2>1. \A v : v \in V <=> \E p \in r.pairs : p[1] = c.id /\ v = Copy(p[2], load)
    BY <1>9
  <2> HIDE DEF V
  <2>2. \A m : m \in IdsOf(V) <=> \E v \in V : v.id = m
    BY DEF IdsOf
  <2>3. \A m : m \in IdsOf(V) <=> \E p \in r.pairs : p[1] = c.id /\ p[2] = m
    BY <1>10, <2>1, <2>2
  <2> QED BY <1>8, <2>3 DEF V
<1>12. ASSUME NEW n \in loaded
       PROVE  \E c \in r.batch : Copy(n, load) \in ValuesOf(r.pairs, c.id, loaded, load)
  <2>1. PICK p \in r.pairs : p[2] = n
    BY <1>6
  <2>2. PICK c \in r.batch : p[1] = c.id
    BY <1>3 DEF IdsOf
  <2> QED BY <1>9, <2>1, <2>2
<1>13. ASSUME NEW c \in r.batch, NEW v \in ValuesOf(r.pairs, c.id, loaded, load)
       PROVE  v.load = load /\ v.id \in loaded /\ v = Copy(v.id, load)
  BY <1>5, <1>9, <1>10
<1> QED
  BY <1>11, <1>12, <1>13 DEF seg

\* The first m levels do not meet the batch, or go on by another key.
Apart(heap, C, keys, m, batch, seg) ==
    \A j \in 0 .. (m - 1) : UnderAt(heap, C, keys)[j] \cap batch = {} \/ keys[j + 1] # seg

\* H and heap have the same first m levels.
SameLevels(H, heap, C, keys, m) == \A j \in 0 .. m : UnderAt(H, C, keys)[j] = UnderAt(heap, C, keys)[j]

\* Such levels stay.
LEMMA LevelStays ==
    ASSUME NEW heap, NEW batch, NEW pairs, NEW loaded, NEW load, NEW seg, NEW single,
           NEW H, H = Attach(heap, batch, pairs, loaded, load, seg, single),
           NEW C, NEW keys, Len(keys) \in Nat, NEW m \in 0 .. Len(keys),
           Apart(heap, C, keys, m, batch, seg)
    PROVE  SameLevels(H, heap, C, keys, m)
<1> DEFINE Q == {j \in 0 .. m : UnderAt(H, C, keys)[j] = UnderAt(heap, C, keys)[j]}
<1>1. m \in Nat
  OBVIOUS
<1>2. \A X, key : X \cap batch = {} \/ key # seg => Entries(H, X, key) = Entries(heap, X, key)
  BY AttachElsewhere
<1>3. 0 \in Q
  BY <1>1, UnderStarts
<1>4. ASSUME NEW j \in 1 .. m, j - 1 \in Q PROVE j \in Q
  <2>1. j \in 1 .. Len(keys) /\ j \in 0 .. m /\ j - 1 \in 0 .. (m - 1) /\ (j - 1) + 1 = j
    BY <1>1
  <2>2. UnderAt(H, C, keys)[j - 1] = UnderAt(heap, C, keys)[j - 1]
    BY <1>4
  <2>3. UnderAt(H, C, keys)[j] = UNION {h.to : h \in Entries(H, UnderAt(H, C, keys)[j - 1], keys[j])}
    BY <2>1, UnderNext
  <2>4. UnderAt(heap, C, keys)[j] = UNION {h.to : h \in Entries(heap, UnderAt(heap, C, keys)[j - 1], keys[j])}
    BY <2>1, UnderNext
  <2>5. UnderAt(heap, C, keys)[j - 1] \cap batch = {} \/ keys[j] # seg
    BY <2>1 DEF Apart
  <2>6. Entries(H, UnderAt(H, C, keys)[j - 1], keys[j]) = Entries(heap, UnderAt(heap, C, keys)[j - 1], keys[j])
    BY <1>2, <2>2, <2>5, Zenon
  <2>7. UnderAt(H, C, keys)[j] = UnderAt(heap, C, keys)[j]
    BY <2>3, <2>4, <2>6, Zenon
  <2> QED BY <2>1, <2>7
<1> HIDE DEF Q
<1>5. 0 .. m \subseteq Q
  BY <1>1, <1>3, <1>4, InductionOn
<1> QED
  BY <1>5 DEF Q, SameLevels

\* What is below the first level was made by a load.
LEMMA LevelLoads ==
    ASSUME NEW N, NEW E, NEW heap, NEW load, HeapExact(N, E, heap, load),
           NEW C, NEW keys, Len(keys) \in Nat, NEW j \in 1 .. Len(keys),
           NEW c \in UnderAt(heap, C, keys)[j]
    PROVE  c.load \in 1 .. load
<1>1. UnderAt(heap, C, keys)[j] = UNION {h.to : h \in Entries(heap, UnderAt(heap, C, keys)[j - 1], keys[j])}
  BY UnderNext
<1>2. PICK h \in heap : c \in h.to
  BY <1>1 DEF Entries
<1> QED
  BY <1>2 DEF HeapExact

\* The values to be stored are what the references of the batch say, and every loaded
\* node is among them.
ValuesOK(N, E, r, loaded, load) ==
    /\ \A c \in r.batch :
         IdsOf(ValuesOf(r.pairs, c.id, loaded, load)) = RefersIn(N, E, c.id, SegOf(r))
    /\ \A n \in loaded : \E c \in r.batch : Copy(n, load) \in ValuesOf(r.pairs, c.id, loaded, load)
    /\ \A c \in r.batch : \A v \in ValuesOf(r.pairs, c.id, loaded, load) :
         v.load = load /\ v.id \in loaded /\ v = Copy(v.id, load)

\* Storing exact values keeps the answer exact.
LEMMA StoredHeapExact ==
    ASSUME NEW N, NEW E, NEW r, r \in Reading, HeapExact(N, E, r.heap, r.load), NEW loaded,
           ValuesOK(N, E, r, loaded, r.load + 1), NEW single
    PROVE  HeapExact(N, E, Attach(r.heap, r.batch, r.pairs, loaded, r.load + 1, SegOf(r), single), r.load + 1)
<1> DEFINE H == Attach(r.heap, r.batch, r.pairs, loaded, r.load + 1, SegOf(r), single)
<1>1. r.load \in Nat
  BY DEF Reading
<1>2. ASSUME NEW h \in H
      PROVE  /\ IdsOf(h.to) = RefersIn(N, E, h.of.id, h.key)
             /\ \A c \in h.to : c.load \in 1 .. (r.load + 1)
  <2>1. CASE h \in r.heap
    BY <1>1, <2>1 DEF HeapExact
  <2>2. CASE h \notin r.heap
    <3>1. PICK b \in r.batch : h = [of |-> b, key |-> SegOf(r), to |-> ValuesOf(r.pairs, b.id, loaded, r.load + 1)]
      BY <1>2, <2>2 DEF Attach
    <3>2. h.of = b /\ h.key = SegOf(r) /\ h.to = ValuesOf(r.pairs, b.id, loaded, r.load + 1)
      BY <3>1
    <3>3. \A c \in h.to : c.load = r.load + 1
      BY <3>2 DEF ValuesOK
    <3> QED BY <1>1, <3>2, <3>3 DEF ValuesOK
  <2> QED BY <2>1, <2>2
<1> QED
  BY <1>2 DEF HeapExact

\* It covers the batch under the segment, and uncovers nothing.
LEMMA StoredCovers ==
    ASSUME NEW N, NEW E, NEW r, NEW loaded, NEW load, ValuesOK(N, E, r, loaded, load), NEW single,
           NEW c, NEW key,
           Covered(N, E, r.heap, c, key) \/ (c \in r.batch /\ key = SegOf(r))
    PROVE  Covered(N, E, Attach(r.heap, r.batch, r.pairs, loaded, load, SegOf(r), single), c, key)
<1> DEFINE H == Attach(r.heap, r.batch, r.pairs, loaded, load, SegOf(r), single)
           V == ValuesOf(r.pairs, c.id, loaded, load)
<1>1. CASE Covered(N, E, r.heap, c, key)
  BY <1>1, AttachCovers DEF Covered
<1>2. CASE c \in r.batch /\ key = SegOf(r)
  <2>1. CASE ~ single \/ V # {}
    <3> DEFINE new == [of |-> c, key |-> SegOf(r), to |-> V]
    <3>1. new \in H
      BY <1>2, <2>1 DEF Attach
    <3>2. new.of = c /\ new.key = key
      BY <1>2
    <3> QED BY <3>1, <3>2 DEF Covered
  <2>2. CASE V = {}
    <3>1. IdsOf(V) = RefersIn(N, E, c.id, key)
      BY <1>2 DEF ValuesOK
    <3>2. IdsOf(V) = {}
      BY <2>2 DEF IdsOf
    <3> QED BY <3>1, <3>2 DEF Covered
  <2> QED BY <2>1, <2>2
<1> QED
  BY <1>1, <1>2

\* The copies that stand under key, from X.
Beneath(H, X, key) == UNION {h.to : h \in Entries(H, X, key)}
\* The copies of nodes that one load makes.
CopiesOf(ids, load) == {Copy(n, load) : n \in ids}

\* The reader stores exact values in an exact answer.
StoresExactly(N, E, r, loaded, load) ==
    HeapExact(N, E, r.heap, r.load) /\ ValuesOK(N, E, r, loaded, load)

\* The copies under the batch's segment are now those that were loaded.
LEMMA StoredNext ==
    ASSUME NEW N, NEW E, NEW r, NEW loaded, NEW load, StoresExactly(N, E, r, loaded, load),
           NEW single, NEW G, G = Attach(r.heap, r.batch, r.pairs, loaded, load, SegOf(r), single)
    PROVE  Beneath(G, r.batch, SegOf(r)) = CopiesOf(loaded, load)
<1> DEFINE H == Attach(r.heap, r.batch, r.pairs, loaded, load, SegOf(r), single)
           set == {c \in r.batch : ~ single \/ ValuesOf(r.pairs, c.id, loaded, load) # {}}
           Entry(c) == [of |-> c, key |-> SegOf(r), to |-> ValuesOf(r.pairs, c.id, loaded, load)]
<1>0. HeapExact(N, E, r.heap, r.load) /\ ValuesOK(N, E, r, loaded, load)
  BY DEF StoresExactly
<1>1. H = {h \in r.heap : ~ (h.of \in set /\ h.key = SegOf(r))} \cup {Entry(c) : c \in set}
  BY DEF Attach
<1> HIDE DEF H
<1>2. ASSUME NEW h \in Entries(H, r.batch, SegOf(r)), NEW v \in h.to
      PROVE  v \in {Copy(n, load) : n \in loaded}
  <2>1. h \in H /\ h.of \in r.batch /\ h.key = SegOf(r)
    BY <1>2 DEF Entries
  <2>2. CASE h \in {Entry(c) : c \in set}
    BY <1>0, <1>2, <2>2 DEF ValuesOK
  <2>3. CASE h \in r.heap /\ h.of \notin set
    <3>1. ValuesOf(r.pairs, h.of.id, loaded, load) = {}
      BY <2>1, <2>3
    <3>2. IdsOf(h.to) = RefersIn(N, E, h.of.id, SegOf(r))
      BY <1>0, <2>1, <2>3 DEF HeapExact
    <3>3. IdsOf(h.to) = IdsOf(ValuesOf(r.pairs, h.of.id, loaded, load))
      BY <1>0, <2>1, <3>2 DEF ValuesOK
    <3>4. v.id \in IdsOf(h.to)
      BY <1>2 DEF IdsOf
    <3>5. IdsOf({}) = {}
      BY DEF IdsOf
    <3> QED BY <3>1, <3>3, <3>4, <3>5
  <2> QED BY <1>1, <2>1, <2>2, <2>3
<1>3. ASSUME NEW n \in loaded
      PROVE  \E h \in Entries(H, r.batch, SegOf(r)) : Copy(n, load) \in h.to
  <2>1. PICK c \in r.batch : Copy(n, load) \in ValuesOf(r.pairs, c.id, loaded, load)
    BY <1>0 DEF ValuesOK
  <2>2. c \in set
    BY <2>1
  <2>3. Entry(c) \in H
    BY <1>1, <2>2
  <2>4. Entry(c).of = c /\ Entry(c).key = SegOf(r) /\ Copy(n, load) \in Entry(c).to
    BY <2>1
  <2> HIDE DEF Entry
  <2>5. Entry(c) \in Entries(H, r.batch, SegOf(r))
    BY <2>3, <2>4 DEF Entries
  <2> QED BY <2>4, <2>5
<1>4. UNION {h.to : h \in Entries(H, r.batch, SegOf(r))} = {Copy(n, load) : n \in loaded}
  BY <1>2, <1>3
<1> QED
  BY <1>4 DEF Beneath, CopiesOf, H

\* What holds of a reader that has stored its segment, before it moves on; next are the
\* copies it has loaded.
StoredOK(N, E, q, next) ==
    /\ HeapExact(N, E, q.heap, q.load)
    /\ \A i \in 1 .. (q.path - 1) : IsOwn(q.req.paths, i) =>
         LevelsBefore(q, i, Len(q.req.paths[i])) /\ CoveredTo(N, E, q, i, Len(q.req.paths[i]))
    /\ IsOwn(q.req.paths, q.path) =>
         /\ LevelsBefore(q, q.path, q.seg - 1)
         /\ Level(q, q.path)[q.seg] = next
         /\ CoveredTo(N, E, q, q.path, q.seg)

\* The lengths of the paths of a request.
LEMMA PathLens ==
    ASSUME NEW r \in Reading
    PROVE  /\ Len(r.req.paths) \in Nat /\ DOMAIN r.req.paths = 1 .. Len(r.req.paths)
           /\ \A i \in DOMAIN r.req.paths :
                /\ Len(r.req.paths[i]) \in Nat /\ DOMAIN r.req.paths[i] = 1 .. Len(r.req.paths[i])
                /\ r.req.paths[i] \in Seq(Steps)
<1>1. r.req.paths \in Seq(Seq(Steps))
  BY ReadsAssumption DEF Reading, ReadsAssumption
<1>2. \A i \in DOMAIN r.req.paths : r.req.paths[i] \in Seq(Steps)
  BY <1>1
<1> QED
  BY <1>1, <1>2

\* The levels of the path i that are complete when r has stored its segment.
Behind(r, i) == IF i < r.path THEN Len(r.req.paths[i]) ELSE r.seg - 1

\* Storing in the batch changes no level of a path that is done, nor of the present path
\* down to the batch.
LEMMA StoredPath ==
    ASSUME NEW N, NEW E, NEW r, r \in Reading, PlaceOK(r), r.pc = "targets",
           HeapExact(N, E, r.heap, r.load), BatchExact(r), NEW loaded,
           ValuesOK(N, E, r, loaded, r.load + 1), NEW q, Stored(r, q, loaded),
           NEW i \in 1 .. r.path, IsOwn(r.req.paths, i), NEW m, m = Behind(r, i),
           CoveredTo(N, E, r, i, m)
    PROVE  /\ \A j \in 0 .. m : Level(q, i)[j] = Level(r, i)[j]
           /\ LevelsBefore(q, i, m) /\ CoveredTo(N, E, q, i, m)
<1> DEFINE keys == r.req.paths[i]
           C == Start(r)
<1>1. /\ r.load \in Nat /\ r.path \in DOMAIN r.req.paths /\ r.seg \in DOMAIN r.req.paths[r.path]
  BY DEF PlaceOK, Reading
<1>2. /\ DOMAIN r.req.paths = 1 .. Len(r.req.paths) /\ Len(r.req.paths) \in Nat
      /\ i \in DOMAIN r.req.paths /\ Len(keys) \in Nat
      /\ DOMAIN r.req.paths[r.path] = 1 .. Len(r.req.paths[r.path]) /\ Len(r.req.paths[r.path]) \in Nat
  BY <1>1, PathLens, SMTT(30)
<1>0. m = IF i < r.path THEN Len(r.req.paths[i]) ELSE r.seg - 1
  BY DEF Behind
<1>3. m \in 0 .. Len(keys) /\ m \in Nat
  BY <1>0, <1>1, <1>2
<1>4. Start(q) = C /\ q.req = r.req /\ q.load = r.load + 1
  BY DEF Stored, Start
<1>5. q.heap = Attach(r.heap, r.batch, r.pairs, loaded, r.load + 1, SegOf(r), SegmentSingle(r.type, SegOf(r)))
  BY DEF Stored
<1>6. \A c \in C : c.load = 0
  BY DEF Start, Copy
<1> HIDE DEF C, keys
<1>7. \A j \in 1 .. Len(keys) : \A c \in UnderAt(r.heap, C, keys)[j] : c.load \in 1 .. r.load
  BY <1>2, LevelLoads
<1>8. UnderAt(r.heap, C, keys)[0] = C
  BY <1>2, UnderStarts
<1>9. \A j \in 0 .. m : \A c \in UnderAt(r.heap, C, keys)[j] : c.load \in 0 .. r.load
  <2> TAKE j \in 0 .. m
  <2>1. j = 0 \/ j \in 1 .. Len(keys)
    BY <1>2, <1>3
  <2> QED BY <1>1, <1>6, <1>7, <1>8, <2>1
<1>10. \A j \in 0 .. (m - 1) : UnderAt(r.heap, C, keys)[j] \cap r.batch = {} \/ keys[j + 1] # SegOf(r)
  <2> TAKE j \in 0 .. (m - 1)
  <2>1. CASE r.seg = 1
    <3>1. r.batch = C
      BY <2>1 DEF BatchExact, C
    <3>2. i < r.path
      BY <1>0, <1>1, <1>2, <1>3, <2>1
    <3>3. CASE j = 0
      <4>1. keys[1] # r.req.paths[r.path][1]
        BY <1>1, <3>2 DEF IsOwn, keys
      <4> QED BY <2>1, <3>3, <4>1 DEF SegOf
    <3>4. CASE j # 0
      <4>1. j \in 1 .. Len(keys)
        BY <1>2, <1>3, <3>4
      <4>2. \A c \in UnderAt(r.heap, C, keys)[j] : c \notin C
        BY <1>1, <1>6, <1>7, <4>1
      <4> QED BY <3>1, <4>2
    <3> QED BY <3>3, <3>4
  <2>2. CASE r.seg > 1
    <3>1. \A c \in r.batch : c.load = r.load
      BY <2>2 DEF BatchExact
    <3>2. \A c \in UnderAt(r.heap, C, keys)[j] : c.load < r.load
      <4>1. CASE i < r.path
        <5>1. LevelsBefore(r, i, Len(keys))
          BY <1>1, <1>2, <2>2, <4>1 DEF BatchExact, keys
        <5>2. j \in 0 .. Len(keys)
          BY <1>2, <1>3
        <5> QED BY <5>1, <5>2 DEF LevelsBefore, Level, keys, C
      <4>2. CASE i = r.path
        <5>1. LevelsBefore(r, i, r.seg - 2)
          BY <2>2, <4>2 DEF BatchExact
        <5>2. j \in 0 .. (r.seg - 2)
          BY <1>0, <1>1, <1>2, <1>3, <4>2
        <5> QED BY <5>1, <5>2 DEF LevelsBefore, Level, keys, C
      <4>3. i < r.path \/ i = r.path
        BY <1>1, <1>2
      <4> QED BY <4>1, <4>2, <4>3
    <3>3. \A c \in UnderAt(r.heap, C, keys)[j] : c \notin r.batch
      BY <1>1, <3>1, <3>2
    <3> QED BY <3>3
  <2> QED BY <1>1, <1>2, <2>1, <2>2
<1>11. \A j \in 0 .. m : UnderAt(q.heap, C, keys)[j] = UnderAt(r.heap, C, keys)[j]
  <2> DEFINE single == SegmentSingle(r.type, SegOf(r))
             seg == SegOf(r)
             load == r.load + 1
             H == Attach(r.heap, r.batch, r.pairs, loaded, load, seg, single)
  <2>1. q.heap = H
    BY <1>5
  <2>2. Apart(r.heap, C, keys, m, r.batch, seg)
    BY <1>10 DEF Apart
  <2>3. SameLevels(q.heap, r.heap, C, keys, m)
    BY <1>2, <1>3, <2>1, <2>2, LevelStays
  <2> QED BY <2>3 DEF SameLevels
<1>12. \A j \in 0 .. m : Level(q, i)[j] = Level(r, i)[j]
  BY <1>4, <1>11 DEF Level, C, keys
<1>13. LevelsBefore(q, i, m)
  BY <1>1, <1>4, <1>9, <1>12 DEF LevelsBefore, Level, C, keys
<1>14. CoveredTo(N, E, q, i, m)
  <2>1. \A k \in 1 .. m : k - 1 \in 0 .. m
    BY <1>3
  <2>2. \A k \in 1 .. m : \A c \in Level(q, i)[k - 1] : Covered(N, E, r.heap, c, r.req.paths[i][k])
    BY <1>12, <2>1 DEF CoveredTo
  <2>3. \A k \in 1 .. m : \A c \in Level(q, i)[k - 1] : Covered(N, E, q.heap, c, r.req.paths[i][k])
    BY <1>5, <2>2, StoredCovers
  <2> QED BY <1>4, <2>3 DEF CoveredTo
<1> QED
  BY <1>12, <1>13, <1>14

\* After the store of a segment the answer is exact one level further.
LEMMA StoredIsExact ==
    ASSUME NEW N, NEW E, NEW r, r \in Reading, PlaceOK(r), r.pc = "targets", ExactOK(N, E, r),
           NEW loaded, ValuesOK(N, E, r, loaded, r.load + 1), NEW q, Stored(r, q, loaded)
    PROVE  StoredOK(N, E, q, {Copy(n, r.load + 1) : n \in loaded})
<1> DEFINE next == {Copy(n, r.load + 1) : n \in loaded}
           single == SegmentSingle(r.type, SegOf(r))
<1>1. HeapExact(N, E, r.heap, r.load) /\ BatchExact(r) /\ PathExact(N, E, r)
  BY DEF ExactOK
<1>2. /\ q.req = r.req /\ q.load = r.load + 1 /\ q.path = r.path /\ q.seg = r.seg
      /\ q.heap = Attach(r.heap, r.batch, r.pairs, loaded, r.load + 1, SegOf(r), single)
  BY DEF Stored
<1>3. HeapExact(N, E, q.heap, q.load)
  BY <1>1, <1>2, StoredHeapExact
<1>4. /\ r.path \in DOMAIN r.req.paths /\ r.seg \in DOMAIN r.req.paths[r.path]
      /\ r.path \in Nat /\ r.seg \in Nat
  BY DEF PlaceOK, Reading
<1>5. /\ DOMAIN r.req.paths = 1 .. Len(r.req.paths) /\ Len(r.req.paths) \in Nat
      /\ Len(r.req.paths[r.path]) \in Nat
      /\ DOMAIN r.req.paths[r.path] = 1 .. Len(r.req.paths[r.path])
  BY <1>4, PathLens
<1>6. ASSUME NEW i \in 1 .. (r.path - 1), IsOwn(r.req.paths, i)
      PROVE  LevelsBefore(q, i, Len(r.req.paths[i])) /\ CoveredTo(N, E, q, i, Len(r.req.paths[i]))
  <2>1. CoveredTo(N, E, r, i, Len(r.req.paths[i]))
    BY <1>1, <1>6 DEF PathExact
  <2>2. i \in 1 .. r.path /\ i < r.path
    BY <1>4
  <2> DEFINE m == Len(r.req.paths[i])
  <2>3. m = Behind(r, i)
    BY <2>2 DEF Behind
  <2>4. CoveredTo(N, E, r, i, m)
    BY <2>1
  <2> HIDE DEF m
  <2>5. LevelsBefore(q, i, m) /\ CoveredTo(N, E, q, i, m)
    BY <1>1, <1>6, <2>2, <2>3, <2>4, StoredPath
  <2> QED BY <2>5 DEF m
<1>7. ASSUME IsOwn(r.req.paths, r.path)
      PROVE  /\ LevelsBefore(q, r.path, r.seg - 1)
             /\ Level(q, r.path)[r.seg] = next
             /\ CoveredTo(N, E, q, r.path, r.seg)
  <2>1. CoveredTo(N, E, r, r.path, r.seg - 1) /\ Level(r, r.path)[r.seg - 1] = r.batch
    BY <1>1, <1>7 DEF PathExact
  <2>2. r.path \in 1 .. r.path /\ ~ (r.path < r.path)
    BY <1>4, <1>5
  <2>3. /\ \A j \in 0 .. (r.seg - 1) : Level(q, r.path)[j] = Level(r, r.path)[j]
        /\ LevelsBefore(q, r.path, r.seg - 1) /\ CoveredTo(N, E, q, r.path, r.seg - 1)
    <3>1. r.seg - 1 = Behind(r, r.path)
      BY <2>2 DEF Behind
    <3> QED BY <1>1, <1>7, <2>1, <2>2, <3>1, StoredPath
  <2>4. Level(q, r.path)[r.seg - 1] = r.batch
    BY <1>4, <1>5, <2>1, <2>3
  <2>5. Level(q, r.path)[r.seg] =
          UNION {h.to : h \in Entries(q.heap, Level(q, r.path)[r.seg - 1], SegOf(r))}
    <3> DEFINE keys == r.req.paths[r.path]
               C == Start(q)
    <3>1. Len(keys) \in Nat /\ r.seg \in 1 .. Len(keys)
      BY <1>4, <1>5
    <3>2. keys[r.seg] = SegOf(r)
      BY DEF SegOf
    <3>3. Level(q, r.path) = UnderAt(q.heap, C, keys)
      BY <1>2 DEF Level
    <3> HIDE DEF keys, C
    <3>4. UnderAt(q.heap, C, keys)[r.seg] =
            UNION {h.to : h \in Entries(q.heap, UnderAt(q.heap, C, keys)[r.seg - 1], keys[r.seg])}
      BY <3>1, UnderNext
    <3> QED BY <3>2, <3>3, <3>4, Zenon
  <2>6. Level(q, r.path)[r.seg] = next
    <3>1. Beneath(q.heap, r.batch, SegOf(r)) = CopiesOf(loaded, r.load + 1)
      <4> DEFINE load == r.load + 1
      <4>1. StoresExactly(N, E, r, loaded, load)
        BY <1>1 DEF StoresExactly
      <4>2. q.heap = Attach(r.heap, r.batch, r.pairs, loaded, load, SegOf(r), single)
        BY <1>2
      <4> HIDE DEF load, single
      <4>3. Beneath(q.heap, r.batch, SegOf(r)) = CopiesOf(loaded, load)
        BY <4>1, <4>2, StoredNext
      <4> QED BY <4>3 DEF load
    <3> QED BY <2>4, <2>5, <3>1 DEF Beneath, CopiesOf
  <2>7. \A c \in r.batch : Covered(N, E, q.heap, c, SegOf(r))
    BY <1>2, StoredCovers
  <2>8. ASSUME NEW k \in 1 .. r.seg, NEW c \in Level(q, r.path)[k - 1]
        PROVE  Covered(N, E, q.heap, c, r.req.paths[r.path][k])
    <3>1. CASE k = r.seg
      BY <2>4, <2>7, <2>8, <3>1 DEF SegOf
    <3>2. CASE k # r.seg
      <4>1. k \in 1 .. (r.seg - 1)
        BY <1>4, <3>2
      <4> QED BY <1>2, <2>3, <2>8, <4>1 DEF CoveredTo
    <3> QED BY <3>1, <3>2
  <2>9. CoveredTo(N, E, q, r.path, r.seg)
    BY <1>2, <2>8 DEF CoveredTo
  <2> QED BY <2>3, <2>6, <2>9
<1> QED
  BY <1>2, <1>3, <1>6, <1>7 DEF StoredOK

\* A path is done at its last segment, or as soon as a segment has no targets.
LEMMA PathDone ==
    ASSUME NEW N, NEW E, NEW q \in Reading, NEW next, StoredOK(N, E, q, next),
           q.path \in DOMAIN q.req.paths, q.seg \in DOMAIN q.req.paths[q.path],
           ~ (q.seg < Len(q.req.paths[q.path]) /\ next # {}),
           IsOwn(q.req.paths, q.path)
    PROVE  CoveredTo(N, E, q, q.path, Len(q.req.paths[q.path]))
<1> DEFINE keys == q.req.paths[q.path]
           C == Start(q)
<1>1. /\ Len(keys) \in Nat /\ DOMAIN keys = 1 .. Len(keys) /\ q.seg \in 1 .. Len(keys)
  BY PathLens
<1>2. Level(q, q.path)[q.seg] = next /\ CoveredTo(N, E, q, q.path, q.seg)
  BY DEF StoredOK
<1>3. CASE q.seg = Len(keys)
  BY <1>2, <1>3
<1>4. CASE next = {}
  <2>1. Level(q, q.path) = UnderAt(q.heap, C, keys)
    BY DEF Level
  <2> HIDE DEF keys, C
  <2>2. \A j \in q.seg .. Len(keys) : UnderAt(q.heap, C, keys)[j] = {}
    BY <1>1, <1>2, <1>4, <2>1, UnderNothing
  <2>3. ASSUME NEW k \in 1 .. Len(keys), NEW c \in Level(q, q.path)[k - 1]
        PROVE  Covered(N, E, q.heap, c, keys[k])
    <3>1. CASE k \in 1 .. q.seg
      BY <1>2, <2>3, <3>1 DEF CoveredTo, keys
    <3>2. CASE k \notin 1 .. q.seg
      <4>1. k - 1 \in q.seg .. Len(keys)
        BY <1>1, <3>2
      <4> QED BY <2>1, <2>2, <2>3, <4>1
    <3> QED BY <3>1, <3>2
  <2> QED BY <2>3 DEF CoveredTo, keys
<1> QED
  BY <1>1, <1>3, <1>4

\* Two readers with the same answer have the same levels.
LEMMA SameAnswer ==
    ASSUME NEW q, NEW z, z.heap = q.heap, z.roots = q.roots, z.req = q.req, z.load = q.load,
           NEW N, NEW E, NEW i, NEW m
    PROVE  /\ Start(z) = Start(q) /\ Level(z, i) = Level(q, i)
           /\ CoveredTo(N, E, z, i, m) = CoveredTo(N, E, q, i, m)
           /\ LevelsBefore(z, i, m) = LevelsBefore(q, i, m)
<1>1. Start(z) = Start(q)
  BY DEF Start
<1>2. Level(z, i) = Level(q, i)
  BY <1>1 DEF Level
<1> QED
  BY <1>1, <1>2 DEF CoveredTo, LevelsBefore

\* Moving on keeps the answer exact.
LEMMA MovesExact ==
    ASSUME NEW N, NEW E, NEW q \in Reading, NEW next, StoredOK(N, E, q, next),
           q.path \in DOMAIN q.req.paths, q.seg \in DOMAIN q.req.paths[q.path],
           ExpandIsAccepted(q.req.paths), q.pc = "targets",
           \A c \in next : c.load = q.load, NEW to, NEW z, Moves(q, z, next, to)
    PROVE  ExactOK(N, E, z)
<1> DEFINE start == {Copy(n, 0) : n \in q.roots}
<1>1. /\ Len(q.req.paths) \in Nat /\ DOMAIN q.req.paths = 1 .. Len(q.req.paths)
      /\ Len(q.req.paths[q.path]) \in Nat
      /\ DOMAIN q.req.paths[q.path] = 1 .. Len(q.req.paths[q.path])
      /\ q.path \in Nat /\ q.seg \in Nat
  BY PathLens DEF Reading
<1>2. /\ HeapExact(N, E, q.heap, q.load)
      /\ \A i \in 1 .. (q.path - 1) : IsOwn(q.req.paths, i) =>
           LevelsBefore(q, i, Len(q.req.paths[i])) /\ CoveredTo(N, E, q, i, Len(q.req.paths[i]))
      /\ IsOwn(q.req.paths, q.path) =>
           /\ LevelsBefore(q, q.path, q.seg - 1) /\ Level(q, q.path)[q.seg] = next
           /\ CoveredTo(N, E, q, q.path, q.seg)
  BY DEF StoredOK
<1> HIDE DEF start
<1>3. CASE q.seg < Len(q.req.paths[q.path]) /\ next # {}
  <2>1. z = [q EXCEPT !.pc = "edges", !.seg = @ + 1, !.batch = next, !.type = to]
    BY <1>3 DEF Moves
  <2>2. /\ z.pc = "edges" /\ z.req = q.req /\ z.path = q.path /\ z.seg = q.seg + 1 /\ z.load = q.load
        /\ z.roots = q.roots /\ z.heap = q.heap /\ z.batch = next
    BY <2>1 DEF Reading
  <2>3. \A i, m : /\ Level(z, i) = Level(q, i)
                  /\ CoveredTo(N, E, z, i, m) = CoveredTo(N, E, q, i, m)
                  /\ LevelsBefore(z, i, m) = LevelsBefore(q, i, m)
    BY <2>2, SameAnswer
  <2>4. z.seg > 1 /\ z.seg - 1 = q.seg /\ z.seg - 2 = q.seg - 1
    BY <1>1, <2>2
  <2>5. BatchExact(z)
    BY <1>1, <1>2, <2>2, <2>3, <2>4 DEF BatchExact
  <2>6. PathExact(N, E, z)
    BY <1>1, <1>2, <2>2, <2>3, <2>4 DEF PathExact
  <2> QED BY <1>2, <2>2, <2>5, <2>6 DEF ExactOK
<1>4. CASE ~ (q.seg < Len(q.req.paths[q.path]) /\ next # {})
  <2>1. \A i \in 1 .. q.path : IsOwn(q.req.paths, i) => CoveredTo(N, E, q, i, Len(q.req.paths[i]))
    <3> TAKE i \in 1 .. q.path
    <3>1. CASE i = q.path
      BY <1>4, <3>1, PathDone
    <3>2. CASE i # q.path
      BY <1>1, <1>2, <3>2
    <3> QED BY <3>1, <3>2
  <2>2. CASE q.path < Len(q.req.paths)
    <3>1. z = [q EXCEPT !.pc = "edges", !.path = @ + 1, !.seg = 1, !.batch = start, !.type = q.req.type]
      BY <1>4, <2>2 DEF Moves, start
    <3>2. /\ z.pc = "edges" /\ z.req = q.req /\ z.path = q.path + 1 /\ z.seg = 1 /\ z.load = q.load
          /\ z.roots = q.roots /\ z.heap = q.heap /\ z.batch = start
      BY <3>1 DEF Reading
    <3>3. \A i, m : /\ Start(z) = Start(q) /\ Level(z, i) = Level(q, i)
                    /\ CoveredTo(N, E, z, i, m) = CoveredTo(N, E, q, i, m)
      BY <3>2, SameAnswer
    <3>4. start = Start(z)
      BY <3>2 DEF Start, start
    <3>5. BatchExact(z)
      BY <3>2, <3>4 DEF BatchExact
    <3>6. z.path - 1 = q.path /\ z.seg - 1 = 0
      BY <1>1, <3>2
    <3>7. Level(z, z.path)[0] = z.batch
      <4>1. Len(q.req.paths[q.path + 1]) \in Nat
        BY <1>1, <2>2, PathLens
      <4> QED BY <3>2, <3>4, <4>1, UnderStarts DEF Level
    <3>8. CoveredTo(N, E, z, z.path, 0)
      BY DEF CoveredTo
    <3>9. PathExact(N, E, z)
      BY <2>1, <3>2, <3>3, <3>6, <3>7, <3>8 DEF PathExact
    <3> QED BY <1>2, <3>2, <3>5, <3>9 DEF ExactOK
  <2>3. CASE ~ (q.path < Len(q.req.paths))
    <3>1. z = [q EXCEPT !.pc = "done"]
      BY <1>4, <2>3 DEF Moves
    <3>2. /\ z.pc = "done" /\ z.req = q.req /\ z.load = q.load
          /\ z.roots = q.roots /\ z.heap = q.heap
      BY <3>1 DEF Reading
    <3>3. \A i, m : CoveredTo(N, E, z, i, m) = CoveredTo(N, E, q, i, m)
      BY <3>2, SameAnswer
    <3>4. DOMAIN q.req.paths = 1 .. q.path
      BY <1>1, <2>3
    <3> QED BY <1>2, <2>1, <3>2, <3>3, <3>4 DEF ExactOK
  <2> QED BY <2>2, <2>3
<1> QED
  BY <1>3, <1>4

\* A reader that only moves to another statement.
LEMMA ExactStays ==
    ASSUME NEW N, NEW E, NEW r, ExactOK(N, E, r), NEW z, z.heap = r.heap, z.load = r.load
    PROVE  z.pc = "failed" => ExactOK(N, E, z)
  BY DEF ExactOK

\* A write ends the promise of exactness: the read is torn.
LEMMA WriteKeepsExact ==
    ASSUME ReadInv, ExactInv, Write
    PROVE  ExactInv'
<1>1. CASE reader = Idle /\ reader' = reader
  BY <1>1 DEF ExactInv
<1>2. CASE reader # Idle /\ reader' = [reader EXCEPT !.torn = @ + 1]
  <2>1. reader \in Reading
    BY <1>2 DEF ReadInv, ReaderOK
  <2>2. reader'.torn = reader.torn + 1 /\ reader.torn \in Nat
    BY <1>2, <2>1, ReadsAssumption DEF Reading, ReadsAssumption
  <2> QED BY <2>2 DEF ExactInv
<1> QED
  BY <1>1, <1>2, WritesNotice

\* The first statement begins it.
LEMMA GetNodesKeepsExact ==
    ASSUME NEW r \in Request, GetNodes(r)
    PROVE  ExactInv'
<1> DEFINE found == Matches(DB, r.type, r.scope, r.where)
<1>1. /\ reader' = [pc |-> "hydrate", req |-> r, torn |-> 0, path |-> 1, seg |-> 1,
                    load |-> 0, type |-> r.type, roots |-> found,
                    batch |-> {Copy(n, 0) : n \in found}, pairs |-> {}, heap |-> {}]
      /\ seen' = [edges |-> edges, rows |-> RowsOf(nodes)]
      /\ nodes' = nodes /\ edges' = edges
  BY DEF GetNodes
<1> HIDE DEF found
<1>2. /\ reader'.pc = "hydrate" /\ reader'.heap = {} /\ reader'.roots = found
      /\ reader'.batch = {Copy(n, 0) : n \in found}
  BY <1>1
<1>3. reader'.batch = Start(reader')
  BY <1>2 DEF Start
<1>4. ExactOK(nodes', edges', reader')
  BY <1>2, <1>3 DEF ExactOK, HeapExact
<1>5. seen'.rows = RowsOf(nodes')
  BY <1>1
<1> QED
  BY <1>4, <1>5 DEF ExactInv

\* The statement for references keeps it.
LEMMA HydrateKeepsExact ==
    ASSUME ReadInv, ReadInv', ExactInv, Hydrate
    PROVE  ExactInv'
<1>1. reader \in Reading /\ reader' \in Reading /\ PlaceOK(reader) /\ PlaceOK(reader')
  BY NotIdle DEF ReadInv, ReaderOK, Hydrate, Idle
<1>2. reader.pc = "hydrate" /\ nodes' = nodes /\ edges' = edges /\ seen' = seen
  BY DEF Hydrate
<1>3. PICK pc \in {"failed", "done", "edges"} :
        /\ reader' = [reader EXCEPT !.pc = pc]
        /\ pc = "done" => reader.req.paths = << >>
  BY DEF Hydrate
<1>4. /\ reader'.pc = pc /\ reader'.req = reader.req /\ reader'.path = reader.path /\ reader'.seg = reader.seg
      /\ reader'.roots = reader.roots /\ reader'.batch = reader.batch /\ reader'.torn = reader.torn
      /\ reader'.heap = reader.heap /\ reader'.load = reader.load
  BY <1>1, <1>3 DEF Reading
<1>5. reader.path = 1 /\ reader.seg = 1
  BY <1>1, <1>2 DEF PlaceOK
<1>6. ASSUME reader.torn = 0
      PROVE  seen'.rows = RowsOf(nodes') /\ ExactOK(nodes', edges', reader')
  <2>1. seen.rows = RowsOf(nodes) /\ ExactOK(nodes, edges, reader)
    BY <1>1, <1>6, NotIdle DEF ExactInv
  <2>2. HeapExact(nodes, edges, reader'.heap, reader'.load) /\ reader'.batch = Start(reader')
    BY <1>2, <1>4, <2>1 DEF ExactOK, Start
  <2>3. ASSUME pc = "edges"
        PROVE  BatchExact(reader') /\ PathExact(nodes, edges, reader')
    <3>1. BatchExact(reader')
      BY <1>4, <1>5, <2>2 DEF BatchExact
    <3>2. 1 \in DOMAIN reader'.req.paths
      BY <1>1, <1>4, <1>5, <2>3 DEF PlaceOK
    <3>3. Level(reader', 1)[0] = reader'.batch
      <4>1. Len(reader'.req.paths[1]) \in Nat
        BY <1>1, <3>2, PathLens
      <4> QED BY <2>2, <4>1, UnderStarts DEF Level
    <3>4. CoveredTo(nodes, edges, reader', 1, 0)
      BY DEF CoveredTo
    <3>5. reader'.path - 1 = 0 /\ reader'.seg - 1 = 0
      BY <1>4, <1>5
    <3> QED BY <1>4, <1>5, <3>1, <3>3, <3>4, <3>5 DEF PathExact
  <2>4. pc = "done" => DOMAIN reader'.req.paths = {}
    BY <1>3, <1>4
  <2>5. ExactOK(nodes, edges, reader')
    BY <1>3, <1>4, <2>2, <2>3, <2>4 DEF ExactOK
  <2> QED BY <1>2, <2>1, <2>5
<1> QED
  BY <1>4, <1>6 DEF ExactInv

\* The statement for edges finds the pairs of the tables.
LEMMA ReadEdgesKeepsExact ==
    ASSUME ReadInv, ExactInv, ReadEdges
    PROVE  ExactInv'
<1> DEFINE pairs == Grouped(TypedEdges(DB, IdsOf(reader.batch), reader.type, Segment),
                            IdsOf(reader.batch), reader.type, Segment)
<1>1. reader \in Reading /\ Segment = SegOf(reader) /\ DB = Tables(nodes, edges)
  BY NotIdle DEF ReadInv, ReaderOK, ReadEdges, Idle, Segment, SegOf, DB, Tables
<1>2. reader.pc = "edges" /\ nodes' = nodes /\ edges' = edges /\ seen' = seen
  BY DEF ReadEdges
<1>3. \/ reader' = [reader EXCEPT !.pc = "failed"]
      \/ reader' = [reader EXCEPT !.pc = "targets", !.pairs = pairs]
  BY DEF ReadEdges
<1>4. pairs = Grouped(TypedEdges(Tables(nodes, edges), IdsOf(reader.batch), reader.type, SegOf(reader)),
                      IdsOf(reader.batch), reader.type, SegOf(reader))
  BY <1>1
<1> HIDE DEF pairs
<1>5. /\ reader'.req = reader.req /\ reader'.path = reader.path /\ reader'.seg = reader.seg
      /\ reader'.roots = reader.roots /\ reader'.batch = reader.batch /\ reader'.torn = reader.torn
      /\ reader'.heap = reader.heap /\ reader'.load = reader.load /\ reader'.type = reader.type
      /\ reader'.pc = "failed" \/ (reader'.pc = "targets" /\ reader'.pairs = pairs)
  <2>1. reader \in Reading
    BY <1>1
  <2>2. CASE reader' = [reader EXCEPT !.pc = "failed"]
    BY <2>1, <2>2 DEF Reading
  <2>3. CASE reader' = [reader EXCEPT !.pc = "targets", !.pairs = pairs]
    BY <2>1, <2>3 DEF Reading
  <2> QED BY <1>3, <2>2, <2>3
<1>6. ASSUME reader.torn = 0
      PROVE  seen'.rows = RowsOf(nodes') /\ ExactOK(nodes', edges', reader')
  <2>1. seen.rows = RowsOf(nodes) /\ ExactOK(nodes, edges, reader)
    BY <1>1, <1>6, NotIdle DEF ExactInv
  <2>2. CASE reader'.pc = "failed"
    BY <1>2, <1>5, <2>1, <2>2 DEF ExactOK
  <2>3. CASE reader'.pc = "targets" /\ reader'.pairs = pairs
    <3>1. HeapExact(nodes, edges, reader.heap, reader.load) /\ BatchExact(reader) /\ PathExact(nodes, edges, reader)
      BY <1>2, <2>1 DEF ExactOK
    <3>2. \A i, m : /\ Start(reader') = Start(reader) /\ Level(reader', i) = Level(reader, i)
                    /\ CoveredTo(nodes, edges, reader', i, m) = CoveredTo(nodes, edges, reader, i, m)
                    /\ LevelsBefore(reader', i, m) = LevelsBefore(reader, i, m)
      BY <1>5, SameAnswer
    <3>3. BatchExact(reader')
      BY <1>5, <3>1, <3>2 DEF BatchExact
    <3>4. PathExact(nodes, edges, reader')
      BY <1>5, <3>1, <3>2 DEF PathExact
    <3>5. SegOf(reader') = SegOf(reader)
      BY <1>5 DEF SegOf
    <3>6. ExactOK(nodes, edges, reader')
      BY <1>4, <1>5, <2>3, <3>1, <3>3, <3>4, <3>5 DEF ExactOK
    <3> QED BY <1>2, <2>1, <3>6
  <2> QED BY <1>5, <2>2, <2>3
<1> QED
  BY <1>5, <1>6 DEF ExactInv

\* The statement for targets stores what the references of the batch say.
LEMMA ReadTargetsKeepsExact ==
    ASSUME ReadInv, ExactInv, ReadTargets
    PROVE  ExactInv'
<1> DEFINE loaded == Loaded(DB, TargetsOf(reader.pairs))
           single == SegmentSingle(reader.type, Segment)
           next == {Copy(n, reader.load + 1) : n \in loaded}
           q == [reader EXCEPT !.load = @ + 1, !.pairs = {},
                   !.heap = Attach(@, reader.batch, reader.pairs, loaded,
                                   reader.load + 1, Segment, single)]
           misfit == ~ TargetsFit(DB, loaded, reader.type, Segment)
           twice == single /\ \E c \in reader.batch : Cardinality(ValuesOf(reader.pairs, c.id, loaded, 0)) > 1
           to == TargetType(reader.type, SegOf(reader))
<1>1. ReaderOK(reader, seen) /\ TablesOK(nodes, edges) /\ reader # Idle
  BY DEF ReadInv, ReadTargets, Idle
<1>2. reader.pc = "targets" /\ nodes' = nodes /\ edges' = edges /\ seen' = seen
  BY DEF ReadTargets
<1>3. /\ reader \in Reading /\ PlaceOK(reader) /\ BatchOK(reader, seen)
      /\ SegmentResolves(reader.type, SegOf(reader)) /\ ExpandIsAccepted(reader.req.paths)
      /\ reader.path \in DOMAIN reader.req.paths /\ reader.seg \in DOMAIN reader.req.paths[reader.path]
  BY <1>1, <1>2 DEF ReaderOK, PlaceOK
<1>4. Segment = SegOf(reader) /\ DB = Tables(nodes, edges)
  BY DEF Segment, SegOf, DB, Tables
<1>5. SegOf(reader) \in Key
  BY <1>2, <1>3, SegmentIsStep, SegmentIsKey DEF Key
<1>6. Stored(reader, q, loaded)
  BY <1>3, <1>4, <1>5, StoredIsReading
<1>7. reader' = IF misfit \/ twice THEN [reader EXCEPT !.pc = "failed"] ELSE Advance(q, next)
  BY DEF ReadTargets
<1>8. CASE misfit \/ twice
  <2> HIDE DEF misfit, twice
  <2>1. reader' = [reader EXCEPT !.pc = "failed"]
    BY <1>7, <1>8
  <2>2. reader'.pc = "failed" /\ reader'.torn = reader.torn /\ reader'.heap = reader.heap /\ reader'.load = reader.load
    BY <1>3, <2>1 DEF Reading
  <2> QED BY <1>1, <1>2, <2>2, ExactStays DEF ExactInv
<1>9. CASE ~ misfit /\ ~ twice
  <2>1. TargetsFit(DB, loaded, reader.type, SegOf(reader))
    BY <1>4, <1>9
  <2>2. /\ q.req = reader.req /\ q.path = reader.path /\ q.seg = reader.seg /\ q.pc = reader.pc
        /\ q \in Reading /\ q.load = reader.load + 1 /\ q.torn = reader.torn
    BY <1>3, <1>6 DEF Stored, Reading
  <2> HIDE DEF misfit, twice, q
  <2>3. reader' = Advance(q, next)
    BY <1>7, <1>9
  <2>4. Moves(q, reader', next, to)
    <3>1. TargetType(q.type, Segment) = to
      BY <1>4, <1>6 DEF Stored
    <3> HIDE DEF next, to, single
    <3> QED BY <2>3, <3>1 DEF Advance, Moves
  <2>5. \A c \in next : c.load = q.load
    BY <2>2 DEF Copy
  <2> HIDE DEF to
  <2>6. reader'.torn = q.torn
    <3> HIDE DEF next
    <3> QED BY <2>2, <2>4 DEF Moves, Reading
  <2>7. ASSUME reader.torn = 0
        PROVE  seen.rows = RowsOf(nodes) /\ ExactOK(nodes, edges, reader')
    <3>1. seen.rows = RowsOf(nodes) /\ ExactOK(nodes, edges, reader)
      BY <1>1, <2>7 DEF ExactInv
    <3>2. \A c \in reader.batch : <<c.id, reader.type>> \in RowsOf(nodes)
      BY <1>3, <3>1 DEF BatchOK
    <3>3. reader.pairs = Grouped(TypedEdges(DB, IdsOf(reader.batch), reader.type, SegOf(reader)),
                                 IdsOf(reader.batch), reader.type, SegOf(reader))
      BY <1>2, <1>4, <3>1 DEF ExactOK
    <3> DEFINE load == reader.load + 1
    <3>4. loaded = Loaded(DB, TargetsOf(reader.pairs))
      OBVIOUS
    <3> HIDE DEF loaded, load
    <3>5. /\ \A c \in reader.batch :
               IdsOf(ValuesOf(reader.pairs, c.id, loaded, load)) = Refers(c.id, SegOf(reader))
          /\ \A n \in loaded : \E c \in reader.batch : Copy(n, load) \in ValuesOf(reader.pairs, c.id, loaded, load)
          /\ \A c \in reader.batch : \A v \in ValuesOf(reader.pairs, c.id, loaded, load) :
               v.load = load /\ v.id \in loaded /\ v = Copy(v.id, load)
      BY <1>1, <1>2, <1>3, <2>1, <3>2, <3>3, <3>4, ValuesExact
    <3>6. ValuesOK(nodes, edges, reader, loaded, load)
      BY <3>5, RefersIs DEF ValuesOK
    <3>7. StoredOK(nodes, edges, q, {Copy(n, reader.load + 1) : n \in loaded})
      BY <1>2, <1>3, <1>6, <3>1, <3>6, StoredIsExact DEF load
    <3>8. StoredOK(nodes, edges, q, next)
      BY <3>7
    <3> HIDE DEF next
    <3>9. ExactOK(nodes, edges, reader')
      BY <1>2, <1>3, <2>2, <2>4, <2>5, <3>8, MovesExact
    <3> QED BY <3>1, <3>9
  <2> QED BY <1>2, <2>2, <2>6, <2>7 DEF ExactInv
<1> QED
  BY <1>8, <1>9

\* ExactInv holds at the start.
LEMMA ExactInvInit == Init => ExactInv
  BY DEF Init, ExactInv

\* Every step keeps it.
LEMMA ExactInvStep == ReadInv /\ ReadInv' /\ ExactInv /\ [Next]_vars => ExactInv'
<1> SUFFICES ASSUME ReadInv, ReadInv', ExactInv, [Next]_vars PROVE ExactInv'
  OBVIOUS
<1>1. CASE Write
  BY <1>1, WriteKeepsExact
<1>2. CASE \E r \in Request : GetNodes(r)
  BY <1>2, GetNodesKeepsExact
<1>3. CASE Hydrate
  BY <1>3, HydrateKeepsExact
<1>4. CASE ReadEdges
  BY <1>4, ReadEdgesKeepsExact
<1>5. CASE ReadTargets
  BY <1>5, ReadTargetsKeepsExact
<1>6. CASE Answer
  BY <1>6 DEF Answer, ExactInv
<1>7. CASE UNCHANGED vars
  BY <1>7 DEF vars, ExactInv
<1> QED
  BY <1>1, <1>2, <1>3, <1>4, <1>5, <1>6, <1>7 DEF Next, Read

\* What is under one key of one copy.
LEMMA OneEntry ==
    ASSUME NEW N, NEW E, NEW heap, NEW load, HeapExact(N, E, heap, load), NEW c, NEW key,
           Covered(N, E, heap, c, key)
    PROVE  IdsOf(Under(heap, {c}, <<key>>)) = RefersIn(N, E, c.id, key)
<1> DEFINE U == UNION {h.to : h \in Entries(heap, {c}, key)}
<1>1. Under(heap, {c}, <<key>>) = U
  BY UnderOne
<1>2. \A h \in heap : h.of = c /\ h.key = key => IdsOf(h.to) = RefersIn(N, E, c.id, key)
  BY DEF HeapExact
<1>3. \A v : v \in U <=> \E h \in heap : h.of = c /\ h.key = key /\ v \in h.to
  BY DEF Entries
<1> HIDE DEF U
<1>4. \A m : m \in IdsOf(U) <=> \E v \in U : m = v.id
  BY DEF IdsOf
<1>5. \A h \in heap : \A m : m \in IdsOf(h.to) <=> \E v \in h.to : m = v.id
  BY DEF IdsOf
<1>6. ASSUME NEW m \in IdsOf(U) PROVE m \in RefersIn(N, E, c.id, key)
  <2>1. PICK v \in U : m = v.id
    BY <1>4
  <2>2. PICK h \in heap : h.of = c /\ h.key = key /\ v \in h.to
    BY <1>3
  <2> QED BY <1>2, <2>1, <2>2 DEF IdsOf
<1>7. ASSUME NEW m \in RefersIn(N, E, c.id, key) PROVE m \in IdsOf(U)
  <2>1. PICK h \in heap : h.of = c /\ h.key = key
    BY DEF Covered
  <2>2. m \in IdsOf(h.to)
    BY <1>2, <2>1
  <2>3. PICK v \in h.to : m = v.id
    BY <2>2 DEF IdsOf
  <2> QED BY <1>3, <1>4, <2>1, <2>3
<1>8. IdsOf(U) = RefersIn(N, E, c.id, key)
  BY <1>6, <1>7
<1> QED
  BY <1>1, <1>8

\* It implies that a finished expansion is exact.
LEMMA ExactInvIsExact == ReadInv /\ ExactInv => ExpansionIsExact
<1> DEFINE paths == reader.req.paths
           start == {Copy(n, 0) : n \in reader.roots}
<1> SUFFICES ASSUME ReadInv, ExactInv, reader.pc = "done", reader.torn = 0,
                    NEW i \in DOMAIN paths, IsOwn(paths, i), NEW k \in DOMAIN paths[i],
                    NEW c \in Under(reader.heap, start, SubSeq(paths[i], 1, k - 1))
             PROVE  IdsOf(Under(reader.heap, {c}, <<paths[i][k]>>)) = Refers(c.id, paths[i][k])
  BY DEF ExpansionIsExact
<1>1. reader \in Reading /\ reader # Idle
  BY DEF ReadInv, ReaderOK, Idle
<1>2. HeapExact(nodes, edges, reader.heap, reader.load) /\ CoveredTo(nodes, edges, reader, i, Len(paths[i]))
  BY <1>1 DEF ExactInv, ExactOK
<1>3. Len(paths[i]) \in Nat /\ DOMAIN paths[i] = 1 .. Len(paths[i]) /\ paths[i] \in Seq(Steps)
  BY <1>1, PathLens
<1>4. k - 1 \in 0 .. Len(paths[i]) /\ k \in 1 .. Len(paths[i])
  BY <1>3
<1>5. Under(reader.heap, start, SubSeq(paths[i], 1, k - 1)) = UnderAt(reader.heap, start, paths[i])[k - 1]
  <2> HIDE DEF start, paths
  <2> QED BY <1>3, <1>4, UnderPrefix
<1>6. c \in Level(reader, i)[k - 1]
  BY <1>5 DEF Level, Start
<1>7. Covered(nodes, edges, reader.heap, c, paths[i][k])
  BY <1>2, <1>4, <1>6 DEF CoveredTo
<1> DEFINE key == paths[i][k]
<1> HIDE DEF key
<1>8. IdsOf(Under(reader.heap, {c}, <<key>>)) = RefersIn(nodes, edges, c.id, key)
  BY <1>2, <1>7, OneEntry DEF key
<1> QED
  BY <1>8, RefersIs DEF key

\* ReadInv and ExactInv are invariants together.
THEOREM ExactInvariant == Spec => [](ReadInv /\ ExactInv)
<1>1. Init => ReadInv /\ ExactInv
  BY ReadInvInit, ExactInvInit
<1>2. (ReadInv /\ ExactInv) /\ [Next]_vars => (ReadInv /\ ExactInv)'
  BY ReadInvStep, ExactInvStep
<1> QED
  BY <1>1, <1>2, PTL DEF Spec

\* Without a write in between, Expand gives every node of the answer exactly the nodes
\* its references name, level by level, under each path that no later path begins like.
THEOREM ExpansionExact == Spec => []ExpansionIsExact
  BY ExactInvariant, ExactInvIsExact, PTL
==============================================================================
