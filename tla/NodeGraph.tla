----------------------------- MODULE NodeGraph ------------------------------
(***************************************************************************)
(* The write side of the core engine: nodes, the edges that hold their     *)
(* references, and the full-text projection that the write transactions    *)
(* keep in step (core/node_sql.go, node_delete.go, edge.go, search.go).    *)
(*                                                                         *)
(* SQLite runs one write transaction at a time, and a transaction that     *)
(* read before another one committed is refused when it tries to write, so *)
(* the body of every Transaction(...) is one step.  What does interleave   *)
(* is everything read outside of it: the revision a client read with       *)
(* GetNode, and the row PatchNode and AddEdge read on the pool before they *)
(* open their transaction.  Those reads are steps of their own, and        *)
(* pending keeps what each client still believes.                          *)
(*                                                                         *)
(* nodes.id is an INTEGER PRIMARY KEY without AUTOINCREMENT: SQLite hands  *)
(* out one more than the largest live id, so the id of a deleted node      *)
(* comes back.  generation is a history variable that tells the nodes that *)
(* had an id apart.                                                        *)
(*                                                                         *)
(* A definition that a comment calls a slip is not part of the model: it   *)
(* is a plausible mistake in the definition that follows it, kept to show  *)
(* that a property notices (PROJECT.json, mutants).                        *)
(***************************************************************************)
EXTENDS RelationSchema, Reachability, EdgeTable, Integers

CONSTANTS
    Client,          \* goroutines that call the engine
    Text,            \* values of what a node displays and what is indexed
    Blank,           \* the text of which nothing is left to index
    NoNode,          \* no row with this id
    NoText,          \* no entry in nodes_fts
    Idle,            \* the client is in no call and holds nothing
    MaxNode,         \* bound: ids
    MaxRevision,     \* bound: revisions of one node
    MaxGeneration    \* bound: nodes that get the same id one after another

NodeId == 1 .. MaxNode
NodeRow == [type : Type, revision : 1 .. MaxRevision, text : Text]
Edge == [from : NodeId, field : FieldName, to : NodeId,
         single : BOOLEAN, symmetric : BOOLEAN]

ASSUME BoundAssumption ==
    /\ MaxNode \in Nat
    /\ MaxRevision \in Nat \ {0}
    /\ MaxGeneration \in Nat

ASSUME ValueAssumption ==
    /\ NoNode \notin NodeRow
    /\ NoText \notin Text

VARIABLES
    nodes,       \* the nodes table: the row of every id, or NoNode
    edges,       \* the edges table
    fts,         \* nodes_fts: the text indexed for every id, or NoText
    pending,     \* what each client has read and not yet used
    generation,  \* history: how many nodes were created with each id
    crossed      \* history: live nodes that a write prepared for an
                 \* earlier node with the same id has touched

vars == <<nodes, edges, fts, pending, generation, crossed>>

(***************************************************************************)
(* A client between two of its steps: it holds the node that GetNode       *)
(* returned; or it is in PatchNode, which has read the row's type; or it   *)
(* is in AddEdge, which has read the source row.                           *)
(***************************************************************************)
Held == [op : {"held"}, id : NodeId, row : NodeRow, seen : 1 .. MaxGeneration]
Patch == [op : {"patch"}, id : NodeId, row : NodeRow, seen : 1 .. MaxGeneration,
          type : Type, read : 1 .. MaxGeneration]
Add == [op : {"addEdge"}, id : NodeId, type : Type, read : 1 .. MaxGeneration]

TypeOK ==
    /\ nodes \in [NodeId -> NodeRow \cup {NoNode}]
    /\ edges \in SUBSET Edge
    /\ fts \in [NodeId -> Text \cup {NoText}]
    /\ pending \in [Client -> Held \cup Patch \cup Add \cup {Idle}]
    /\ generation \in [NodeId -> 0 .. MaxGeneration]
    /\ crossed \in SUBSET NodeId

-----------------------------------------------------------------------------
(***************************************************************************)
(* Reading the tables.                                                     *)
(***************************************************************************)
Live(N) == {n \in NodeId : N[n] # NoNode}

\* The rowid SQLite picks for an INSERT without an id: one more than the
\* largest (a set of one id, or of none when the bound is reached).
NextIds(N) == {id \in NodeId : /\ \A n \in Live(N) : n < id
                               /\ id = 1 \/ id - 1 \in Live(N)}

\* searchSync: what the index holds for a row.  Sync drops a node that has
\* no text left, and a type that is not searchable is never indexed.
IndexText(row) ==
    IF row.type \in Searchable /\ row.text # Blank THEN row.text ELSE NoText

-----------------------------------------------------------------------------
(***************************************************************************)
(* Inserting and clearing edges inside a transaction.                      *)
(***************************************************************************)

\* Slip: an undirected edge is stored in the order it was given.
EdgeForUnordered(f, from, to) ==
    [from |-> from, field |-> f.name, to |-> to,
     single |-> f.single, symmetric |-> Undirected(f)]

\* insertEdge stores an undirected edge with the smaller id first.
EdgeFor(f, from, to) ==
    LET swap == Undirected(f) /\ from > to
    IN  [from |-> IF swap THEN to ELSE from, field |-> f.name,
         to |-> IF swap THEN from ELSE to,
         single |-> f.single, symmetric |-> Undirected(f)]

\* The directed edges of a field that leave nodes of one type.
FieldPairs(N, E, type, name) ==
    {<<e.from, e.to>> : e \in {d \in E : /\ d.field = name
                                         /\ d.from \in Live(N)
                                         /\ N[d.from].type = type}}

\* Slip: only an edge straight back counts as a cycle.
WouldCreateTwoCycle(N, E, f, from, to) ==
    from = to \/ <<to, from>> \in FieldPairs(N, E, f.type, f.name)

\* wouldCreateCycle: the source is reached from the target.
WouldCreateCycle(N, E, f, from, to) ==
    Reaches(FieldPairs(N, E, f.type, f.name), NodeId, to, from)

\* Slip: the target only has to exist.
TargetExists(N, f, to) == to \in Live(N)

\* checkTarget: the target exists and has the declared type.
TargetFits(N, f, to) == to \in Live(N) /\ N[to].type = f.to

\* Slip: an INSERT on a connection without foreign keys.
InsertableWithoutSource(N, E, f, from, to) ==
    /\ TargetFits(N, f, to)
    /\ (Undirected(f) \/ Ordered(f)) => from # to
    /\ Ordered(f) => ~ WouldCreateCycle(N, E, f, from, to)
    /\ EdgeIsUnique(E, EdgeFor(f, from, to))
    /\ SingleRefIsFree(E, EdgeFor(f, from, to))

\* insertEdge goes through.  The foreign key refuses a source that is gone.
Insertable(N, E, f, from, to) ==
    /\ from \in Live(N)
    /\ TargetFits(N, f, to)
    /\ (Undirected(f) \/ Ordered(f)) => from # to
    /\ Ordered(f) => ~ WouldCreateCycle(N, E, f, from, to)
    /\ EdgeIsUnique(E, EdgeFor(f, from, to))
    /\ SingleRefIsFree(E, EdgeFor(f, from, to))

\* deleteFieldEdges: the WHERE clause names the field, not the type.
FieldEdges(E, n, f) ==
    {e \in E : /\ e.field = f.name
               /\ e.from = n \/ (Undirected(f) /\ e.to = n)}

(***************************************************************************)
(* The reference part of a create or a patch: pairs of a field and a       *)
(* target.  A field of kind ref has one target at most, a required field   *)
(* has one at least (ValidateFields, ValidatePatchFields).  The edges are  *)
(* inserted one by one, but all leave the same node and each (field,       *)
(* target) occurs once, so no insertion changes what another one meets.    *)
(***************************************************************************)
LinksOf(F, N) == SUBSET (F \X Live(N))

LinksFit(F, L) ==
    /\ \A k, l \in L : k[1] = l[1] /\ k[1].single => k = l
    /\ \A f \in F : f.required => \E l \in L : l[1] = f

NewEdges(n, L) == {EdgeFor(l[1], n, l[2]) : l \in L}

AllInsertable(N, E, n, L) == \A l \in L : Insertable(N, E, l[1], n, l[2])

-----------------------------------------------------------------------------
Init ==
    /\ nodes = [n \in NodeId |-> NoNode]
    /\ edges = {}
    /\ fts = [n \in NodeId |-> NoText]
    /\ pending = [c \in Client |-> Idle]
    /\ generation = [n \in NodeId |-> 0]
    /\ crossed = {}

\* CreateNode: validate, insert the row, insert its edges, index it.
CreateNode(id, type, text, L) ==
    LET row == [type |-> type, revision |-> 1, text |-> text]
    IN  /\ id \in NextIds(nodes)
        /\ generation[id] < MaxGeneration
        /\ LinksFit(FieldsOf(type), L)
        /\ nodes' = [nodes EXCEPT ![id] = row]
        /\ AllInsertable(nodes', edges, id, L)
        /\ edges' = edges \cup NewEdges(id, L)
        /\ fts' = [fts EXCEPT ![id] = IndexText(row)]
        /\ generation' = [generation EXCEPT ![id] = @ + 1]
        /\ UNCHANGED <<pending, crossed>>

\* Slip: the missing row is not reported.
GetNodeUnchecked(c, n) ==
    /\ pending[c] = Idle
    /\ pending' = [pending EXCEPT ![c] =
         [op |-> "held", id |-> n, row |-> nodes[n], seen |-> generation[n]]]
    /\ UNCHANGED <<nodes, edges, fts, generation, crossed>>

\* GetNode: the client learns the row, with the revision it will send back.
GetNode(c, n) ==
    /\ pending[c] = Idle
    /\ n \in Live(nodes)
    /\ pending' = [pending EXCEPT ![c] =
         [op |-> "held", id |-> n, row |-> nodes[n], seen |-> generation[n]]]
    /\ UNCHANGED <<nodes, edges, fts, generation, crossed>>

\* PatchNode up to its transaction: nodeRow reads the row for its type.
PatchRead(c) ==
    LET p == pending[c]
    IN  /\ p # Idle /\ p.op = "held"
        /\ p.id \in Live(nodes)
        /\ pending' = [pending EXCEPT ![c] =
             [op |-> "patch", id |-> p.id, row |-> p.row, seen |-> p.seen,
              type |-> nodes[p.id].type, read |-> generation[p.id]]]
        /\ UNCHANGED <<nodes, edges, fts, generation, crossed>>

\* The reference fields that a patch may name, once its row is read: those of
\* the type that was read, without the immutable ones.
Patchable(c) ==
    LET p == pending[c]
    IN  {f \in Field : p # Idle /\ p.op = "patch" /\ f.type = p.type /\ ~ f.immutable}

\* Slip: the UPDATE finds the row by its id alone.
RowExists(n, revision) == n \in Live(nodes)

\* UPDATE nodes ... WHERE id = ? AND revision = ? affects a row.
RevisionMatches(n, revision) ==
    n \in Live(nodes) /\ nodes[n].revision = revision

\* The transaction of PatchNode.  F are the reference fields the patch
\* names, L their new targets; text is the row's own text when the patch
\* leaves the scalars alone.
PatchCommit(c, F, text, L) ==
    LET p == pending[c]
        n == p.id
        row == [type |-> nodes[n].type, revision |-> nodes[n].revision + 1,
                text |-> text]
        kept == edges \ UNION {FieldEdges(edges, n, f) : f \in F}
    IN  /\ p # Idle /\ p.op = "patch"
        /\ F \subseteq Patchable(c)
        /\ LinksFit(F, L)
        /\ RevisionMatches(n, p.row.revision)
        /\ nodes[n].revision < MaxRevision
        /\ nodes' = [nodes EXCEPT ![n] = row]
        /\ AllInsertable(nodes', kept, n, L)
        /\ edges' = kept \cup NewEdges(n, L)
        /\ fts' = [fts EXCEPT ![n] = IndexText(row)]
        /\ pending' = [pending EXCEPT ![c] = Idle]
        /\ crossed' = IF p.read = generation[n] THEN crossed
                                                ELSE crossed \cup {n}
        /\ UNCHANGED generation

\* AddEdge up to its transaction.
AddEdgeRead(c, n) ==
    /\ pending[c] = Idle
    /\ n \in Live(nodes)
    /\ pending' = [pending EXCEPT ![c] =
         [op |-> "addEdge", id |-> n, type |-> nodes[n].type,
          read |-> generation[n]]]
    /\ UNCHANGED <<nodes, edges, fts, generation, crossed>>

\* The transaction of AddEdge: insertEdge alone, the node row is not touched.
AddEdgeCommit(c, f, to) ==
    LET p == pending[c]
    IN  /\ p # Idle /\ p.op = "addEdge"
        /\ f.type = p.type
        /\ Insertable(nodes, edges, f, p.id, to)
        /\ edges' = edges \cup {EdgeFor(f, p.id, to)}
        /\ pending' = [pending EXCEPT ![c] = Idle]
        /\ crossed' = IF p.read = generation[p.id] THEN crossed
                                                   ELSE crossed \cup {p.id}
        /\ UNCHANGED <<nodes, fts, generation>>

\* The ends at which RemoveEdge counts the edges of a required field.
CountedEnds(f, e) == {e.from} \cup (IF Undirected(f) THEN {e.to} ELSE {})

\* Slip: the last edge may go as well (count < 1 for count <= 1).
EdgesAreCounted(f, e) ==
    \A n \in CountedEnds(f, e) : FieldEdges(edges, n, f) # {}

\* Every counted end keeps another edge.
AnotherEdgeIsLeft(f, e) ==
    \A n \in CountedEnds(f, e) : FieldEdges(edges, n, f) \ {e} # {}

\* RemoveEdge: the field is looked up on the type of the stored source.
RemoveEdge(e) ==
    /\ e \in edges
    /\ \E f \in FieldsOf(nodes[e.from].type) :
         /\ f.name = e.field
         /\ f.required => AnotherEdgeIsLeft(f, e)
    /\ edges' = edges \ {e}
    /\ UNCHANGED <<nodes, fts, pending, generation, crossed>>

\* Slip: the from end of an undirected edge is overlooked.
EdgesPointingHere(E, n) == {e \in E : e.to = n /\ e.from # n}

\* incomingReferences: the edges that make another node's field point here.
IncomingReferences(E, n) ==
    {e \in E : /\ e.to = n \/ (e.symmetric /\ e.from = n)
               /\ e.from # e.to}

\* Slip: the index is not told.
DeleteNodeKeepText(n) ==
    /\ n \in Live(nodes)
    /\ IncomingReferences(edges, n) = {}
    /\ edges' = {e \in edges : e.from # n /\ e.to # n}
    /\ nodes' = [nodes EXCEPT ![n] = NoNode]
    /\ crossed' = crossed \ {n}
    /\ UNCHANGED <<fts, pending, generation>>

\* DeleteNode: refused while another node refers to this one.
DeleteNode(n) ==
    /\ n \in Live(nodes)
    /\ IncomingReferences(edges, n) = {}
    /\ edges' = {e \in edges : e.from # n /\ e.to # n}
    /\ nodes' = [nodes EXCEPT ![n] = NoNode]
    /\ fts' = [fts EXCEPT ![n] = NoText]
    /\ crossed' = crossed \ {n}
    /\ UNCHANGED <<pending, generation>>

\* A call that fails, is refused or is cancelled: the transaction rolls back
\* and the client forgets what it had read.
Abort(c) ==
    /\ pending[c] # Idle
    /\ pending' = [pending EXCEPT ![c] = Idle]
    /\ UNCHANGED <<nodes, edges, fts, generation, crossed>>

Next ==
    \/ \E id \in NextIds(nodes), type \in Type, text \in Text :
         \E L \in LinksOf(FieldsOf(type), [nodes EXCEPT ![id] =
                    [type |-> type, revision |-> 1, text |-> text]]) :
           CreateNode(id, type, text, L)
    \/ \E c \in Client, n \in NodeId : GetNode(c, n)
    \/ \E c \in Client : PatchRead(c)
    \/ \E c \in Client, text \in Text :
         \E F \in SUBSET Patchable(c) :
           \E L \in LinksOf(F, nodes) : PatchCommit(c, F, text, L)
    \/ \E c \in Client, n \in NodeId : AddEdgeRead(c, n)
    \/ \E c \in Client, f \in Field, to \in NodeId : AddEdgeCommit(c, f, to)
    \/ \E e \in edges : RemoveEdge(e)
    \/ \E n \in NodeId : DeleteNode(n)
    \/ \E c \in Client : Abort(c)

Spec == Init /\ [][Next]_vars

-----------------------------------------------------------------------------
(***************************************************************************)
(* What the write path promises.  crossed exempts the nodes that a write   *)
(* prepared for an earlier node with the same id has reached: such a write *)
(* is validated against the wrong type, and nothing repairs it.            *)
(***************************************************************************)

\* An edge fits the field of the node that owns it: a field with that name is
\* declared on the owner's type, the flags the database constraints use are
\* the field's, and the other end has the declared type (insertEdge), or is
\* in X.
FitsOwner(N, X, e, n) ==
    \E f \in FieldsOf(N[n].type) :
        /\ f.name = e.field
        /\ f.single = e.single
        /\ Undirected(f) = e.symmetric
        /\ \/ N[OtherEnd(e, n)].type = f.to
           \/ e.symmetric /\ OtherEnd(e, n) \in X

\* Every edge joins two existing nodes, whatever was deleted around it.
NoDanglingEdge ==
    \A e \in edges : e.from \in Live(nodes) /\ e.to \in Live(nodes)

\* AddEdge inserts a schema-validated reference, and no later write of any
\* other node makes it misfit: at every end that owns it, the edge fits.
EdgeFitsSchema ==
    \A e \in edges : \A n \in Owners(e) \ crossed :
        FitsOwner(nodes, crossed, e, n)

\* The same without the exemption.
EdgeFitsSchemaAlways ==
    \A e \in edges : \A n \in Owners(e) : FitsOwner(nodes, {}, e, n)

\* A field of kind ref never reads more than one edge, at either end of an
\* undirected relation: hydrateFields fails on a second one.
SingleRefHeld ==
    \A n \in Live(nodes) \ crossed :
        \A f \in FieldsOf(nodes[n].type) :
            f.single => \A d, e \in RefEdges(edges, n, f.name) : d = e

\* An undirected relation between two nodes is stored once, in one order.
UndirectedStoredOnce ==
    \A d, e \in edges :
        /\ d.symmetric /\ e.symmetric /\ d.field = e.field
        /\ {d.from, d.to} = {e.from, e.to}
        => d = e

\* A transitive or tree.parent relation has no cycle, whoever adds its edges
\* and in whichever order.
OrderedPairs(f) ==
    {<<e.from, e.to>> :
        e \in {d \in edges : /\ d.field = f.name
                             /\ d.from \in Live(nodes) \ crossed
                             /\ nodes[d.from].type = f.type}}

NoRelationCycle ==
    \A f \in Field : Ordered(f) => IsAcyclic(OrderedPairs(f), NodeId)

\* A required reference field is never empty: not after a create, a patch, a
\* RemoveEdge or a delete, of this node or of any other.
RequiredFilled ==
    \A n \in Live(nodes) \ crossed :
        \A f \in FieldsOf(nodes[n].type) :
            f.required => RefEdges(edges, n, f.name) # {}

\* At every commit the full-text index holds exactly the searchable nodes,
\* each with its current text: a search never returns a deleted or stale node.
IndexExact ==
    \A n \in NodeId :
        fts[n] = IF n \in Live(nodes) THEN IndexText(nodes[n]) ELSE NoText

(***************************************************************************)
(* The edge table implements the reference store: a create, a patch, an    *)
(* AddEdge, a RemoveEdge or a delete, whatever its client had read before, *)
(* is for every reader of references one write of one node.  Nobody else's *)
(* field changes, other than the far end of an undirected relation, and a  *)
(* delete takes no reference away from anybody (core/edge.go,              *)
(* core/node_delete.go).  This holds of Schemas in which no field name is  *)
(* undirected in one type and directed in another.                         *)
(***************************************************************************)
MirroredName == {f.name : f \in {g \in Field : Undirected(g)}}

RS == INSTANCE ReferenceStore WITH
        Node <- NodeId,
        Name <- FieldName,
        Mirrored <- MirroredName,
        live <- Live(nodes),
        value <- [n \in NodeId |-> [f \in FieldName |-> RefValue(edges, n, f)]]

ImplementsReferenceStore == RS!Spec

\* A patch that goes through found the row its client had read, unless the id
\* has been given to another node since.
NoLostUpdate ==
    [][\A c \in Client :
         LET p == pending[c]
         IN  (p # Idle /\ p.op = "patch" /\ pending'[c] = Idle /\ nodes' # nodes)
             => nodes[p.id] = p.row \/ p.seen # generation[p.id]]_vars
=============================================================================
