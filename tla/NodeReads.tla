------------------------------ MODULE NodeReads ------------------------------
(***************************************************************************)
(* Readers beside writers.  The writers are those of NodeGraph with their  *)
(* transactions in one step, and a raw import that skips the check for     *)
(* cycles, so that a database may be anything the tables can hold.  The    *)
(* reader is one GetNodes followed by an Expand: a chain of SQL statements *)
(* outside any transaction, with writes in between.                        *)
(*                                                                         *)
(* The reads that are one statement, or that compute in memory, are the    *)
(* operators of NodeQuery, Traversal and Expansion; their properties are   *)
(* stated of every database, while the reader is idle.                     *)
(*                                                                         *)
(* Bounds: NodeId, MaxEdge, and MaxTorn writes during one read.            *)
(***************************************************************************)
EXTENDS Traversal, Expansion, Reachability

CONSTANTS
    Request,           \* what the reader may ask: [type, scope, where, paths]
    Scopes, Wheres,    \* scopes and conditions on the type Listed
    Listed, Tree, Peers,  \* a tree type; its parent and equivalence fields
    Sorts, Phrases, Targets,
    MaxEdge, MaxTorn

Edge == [from : NodeId, field : FieldName, to : NodeId,
         single : BOOLEAN, symmetric : BOOLEAN]
Idle == [pc |-> "idle"]

VARIABLES
    nodes, edges,
    reader,   \* the read in progress
    seen      \* every edge and every row that was there during the read

vars == <<nodes, edges, reader, seen>>

DB == [nodes |-> nodes, edges |-> edges]

CopyIds == [id : NodeId, load : Nat]
Pairs == NodeId \X NodeId
Steps == {Ref(name) : name \in FieldName}
            \cup {Incoming(type, name) : type \in Type, name \in FieldName}

ASSUME ReadsAssumption ==
    /\ IsFiniteSet(NodeId) /\ NodeId \subseteq Nat
    /\ NoRow \notin Row
    /\ MaxTorn \in Nat
    /\ \A r \in Request : r.paths \in Seq(Seq(Steps))
    /\ \A s \in Scopes, w \in Wheres \cup {NoExpr} : Effective(s, w) \in Clause
    /\ \A t \in Targets : \A i \in DOMAIN t : Effective(t[i].scope, t[i].where) \in Clause
    /\ Phrases \subseteq Seq(STRING)
    /\ \A v \in Value \cup {Null} : TextOf[v] \in Seq(STRING)
    /\ Value \subseteq Int /\ Null \notin Int
    /\ Sorts \subseteq Seq([path : [kind : STRING, source : STRING, name : STRING], desc : BOOLEAN])
    /\ \E f \in FieldsOf(Listed) : f.name = Tree
    /\ \A f \in FieldsOf(Listed) : f.parent <=> f.name = Tree

\* The reader has sent one statement after the other: for the rows, for
\* their references, then in turn for edges and for targets.
Reading ==
    [pc : {"hydrate", "edges", "targets", "done", "failed"},
     req : Request, torn : 0 .. MaxTorn, path : Nat, seg : Nat, load : Nat,
     type : Type, roots : SUBSET NodeId, batch : SUBSET CopyIds,
     pairs : SUBSET Pairs, heap : SUBSET [of : CopyIds, key : {Ref(f.name) : f \in Field}
        \cup {Incoming(f.type, f.name) : f \in Field}, to : SUBSET CopyIds]]

TypeOK ==
    /\ nodes \in [NodeId -> Row \cup {NoRow}]
    /\ edges \in SUBSET Edge
    /\ \A e \in edges : {e.from, e.to} \subseteq Rows(DB)
    /\ reader = Idle \/ reader \in Reading
    /\ seen \in [edges : SUBSET Edge, rows : SUBSET (NodeId \X Type)]

-----------------------------------------------------------------------------
(***************************************************************************)
(* The writers.                                                            *)
(***************************************************************************)
Init ==
    /\ nodes = [n \in NodeId |-> NoRow]
    /\ edges = {}
    /\ reader = Idle
    /\ seen = [edges |-> {}, rows |-> {}]

RowsOf(N) == {<<n, N[n].type>> : n \in {m \in NodeId : N[m] # NoRow}}

\* Bookkeeping of a write that a read is running beside.
Noticed ==
    IF reader = Idle THEN UNCHANGED <<reader, seen>>
    ELSE /\ reader' = [reader EXCEPT !.torn = @ + 1]
         /\ seen' = [edges |-> seen.edges \cup edges', rows |-> seen.rows \cup RowsOf(nodes')]

\* CreateNode without references; SQLite gives the next id.
CreateNode(type, v) ==
    /\ \E n \in NodeId :
         /\ \A m \in Rows(DB) : m < n
         /\ n - 1 \in Rows(DB) \cup {0}
         /\ nodes' = [nodes EXCEPT ![n] = [type |-> type, value |-> v]]
    /\ UNCHANGED edges
    /\ Noticed

\* PatchNode of the scalar.  A read looks at values in its first statement
\* only, so a value set while it runs might as well be set when it has ended.
SetValue(n, v) ==
    /\ reader = Idle
    /\ nodes[n] # NoRow
    /\ nodes[n].value # v
    /\ nodes' = [nodes EXCEPT ![n].value = v]
    /\ UNCHANGED <<edges, reader, seen>>

EdgeFor(f, x, y) ==
    LET swap == Undirected(f) /\ x > y
    IN  [from |-> IF swap THEN y ELSE x, field |-> f.name, to |-> IF swap THEN x ELSE y,
         single |-> f.single, symmetric |-> Undirected(f)]

\* insertEdge without its test for cycles: what the tables and the types
\* allow.
Fits(f, x, y) ==
    /\ nodes[x] # NoRow /\ nodes[x].type = f.type
    /\ nodes[y] # NoRow /\ nodes[y].type = f.to
    /\ (Undirected(f) \/ Ordered(f)) => x # y
    /\ EdgeIsUnique(edges, EdgeFor(f, x, y))
    /\ SingleRefIsFree(edges, EdgeFor(f, x, y))
    /\ Cardinality(edges) < MaxEdge

Insert(f, x, y) ==
    /\ edges' = edges \cup {EdgeFor(f, x, y)}
    /\ UNCHANGED nodes
    /\ Noticed

FieldPairs(f) == {<<e.from, e.to>> : e \in {d \in edges : d.field = f.name /\ nodes[d.from].type = f.type}}

\* AddEdge, and the references of a create or a patch.
AddEdge(f, x, y) ==
    /\ Fits(f, x, y)
    /\ Ordered(f) => ~ Reaches(FieldPairs(f), NodeId, y, x)
    /\ Insert(f, x, y)

\* A row that an import wrote past the engine closes a cycle.
ImportEdge(f, x, y) ==
    /\ Ordered(f)
    /\ Fits(f, x, y)
    /\ Reaches(FieldPairs(f), NodeId, y, x)
    /\ Insert(f, x, y)

RemoveEdge(e) ==
    /\ edges' = edges \ {e}
    /\ UNCHANGED nodes
    /\ Noticed

Referring(n) == {e \in edges : (e.to = n \/ (e.symmetric /\ e.from = n)) /\ e.from # e.to}

\* Slip: the node goes and its own references stay.
DeleteNodeRow(n) ==
    /\ nodes[n] # NoRow
    /\ Referring(n) = {}
    /\ nodes' = [nodes EXCEPT ![n] = NoRow]
    /\ UNCHANGED edges
    /\ Noticed

\* DeleteNode: refused while another node refers to this one.
DeleteNode(n) ==
    /\ nodes[n] # NoRow
    /\ Referring(n) = {}
    /\ nodes' = [nodes EXCEPT ![n] = NoRow]
    /\ edges' = {e \in edges : n \notin {e.from, e.to}}
    /\ Noticed

\* Up to MaxTorn writes before the last statement of a read.
Write ==
    /\ reader.pc \in {"idle", "hydrate", "edges", "targets"}
    /\ reader # Idle => reader.torn < MaxTorn
    /\ \/ \E type \in Type, v \in Value \cup {Null} : CreateNode(type, v)
       \/ \E n \in NodeId, v \in Value \cup {Null} : SetValue(n, v)
       \/ \E f \in Field, x, y \in NodeId : AddEdge(f, x, y) \/ ImportEdge(f, x, y)
       \/ \E e \in edges : RemoveEdge(e)
       \/ \E n \in NodeId : DeleteNode(n)

-----------------------------------------------------------------------------
(***************************************************************************)
(* The reader.                                                             *)
(***************************************************************************)

\* GetNodes: the statement for the rows.
GetNodes(r) ==
    /\ reader = Idle
    /\ QueryIsAccepted(r.type, r.scope, r.where)
    /\ ExpandIsAccepted(r.paths)
    /\ LET found == Matches(DB, r.type, r.scope, r.where)
       IN  /\ found # {}
           /\ reader' = [pc |-> "hydrate", req |-> r, torn |-> 0, path |-> 1, seg |-> 1,
                         load |-> 0, type |-> r.type, roots |-> found,
                         batch |-> {Copy(n, 0) : n \in found}, pairs |-> {}, heap |-> {}]
    /\ seen' = [edges |-> edges, rows |-> RowsOf(nodes)]
    /\ UNCHANGED <<nodes, edges>>

\* hydrateFields: one statement for the references of all rows.  A row that
\* is gone by now keeps the type it was read with, and has no edges.
Hydrate ==
    /\ reader.pc = "hydrate"
    /\ reader' = [reader EXCEPT !.pc =
         IF \E n \in reader.roots, f \in FieldsOf(reader.type) :
               f.single /\ Cardinality(RefValue(edges, n, f.name)) > 1
           THEN "failed" ELSE IF reader.req.paths = << >> THEN "done" ELSE "edges"]
    /\ UNCHANGED <<nodes, edges, seen>>

Segment == reader.req.paths[reader.path][reader.seg]

\* expandTyped: the statement for the edges of the batch.
ReadEdges ==
    /\ reader.pc = "edges"
    /\ LET ids == IdsOf(reader.batch)
           found == TypedEdges(DB, ids, reader.type, Segment)
       IN  reader' = IF ~ SegmentResolves(reader.type, Segment) \/ Cardinality(found) > ExpandLimit
                       THEN [reader EXCEPT !.pc = "failed"]
                       ELSE [reader EXCEPT !.pc = "targets",
                                           !.pairs = Grouped(found, ids, reader.type, Segment)]
    /\ UNCHANGED <<nodes, edges, seen>>

\* Slip: a segment without targets is asked for again.
AdvanceOnTargets(r, next) ==
    IF next = {} THEN [r EXCEPT !.pc = "edges", !.load = 0]
    ELSE IF r.seg < Len(r.req.paths[r.path])
      THEN [r EXCEPT !.pc = "edges", !.seg = @ + 1, !.batch = next,
                     !.type = TargetType(r.type, Segment)]
    ELSE [r EXCEPT !.pc = "done"]

\* On to the next segment; or to the next path, from the roots again.
Advance(r, next) ==
    IF r.seg < Len(r.req.paths[r.path]) /\ next # {}
      THEN [r EXCEPT !.pc = "edges", !.seg = @ + 1, !.batch = next,
                     !.type = TargetType(r.type, Segment)]
    ELSE IF r.path < Len(r.req.paths)
      THEN [r EXCEPT !.pc = "edges", !.path = @ + 1, !.seg = 1,
                     !.batch = {Copy(n, 0) : n \in r.roots}, !.type = r.req.type]
    ELSE [r EXCEPT !.pc = "done"]

\* The rest of expandTyped: the statement for the targets, and storing them.
ReadTargets ==
    /\ reader.pc = "targets"
    /\ LET loaded == Loaded(DB, TargetsOf(reader.pairs))
           single == SegmentSingle(reader.type, Segment)
           next == {Copy(n, reader.load + 1) : n \in loaded}
           stored == [reader EXCEPT !.load = @ + 1, !.pairs = {},
                         !.heap = Attach(@, reader.batch, reader.pairs, loaded,
                                         reader.load + 1, Segment, single)]
       IN  reader' =
             IF \/ ~ TargetsFit(DB, loaded, reader.type, Segment)
                \/ single /\ \E c \in reader.batch :
                      Cardinality(ValuesOf(reader.pairs, c.id, loaded, 0)) > 1
               THEN [reader EXCEPT !.pc = "failed"]
             ELSE Advance(stored, next)
    /\ UNCHANGED <<nodes, edges, seen>>

\* The caller has the answer.
Answer ==
    /\ reader.pc \in {"done", "failed"}
    /\ reader' = Idle
    /\ seen' = [edges |-> {}, rows |-> {}]
    /\ UNCHANGED <<nodes, edges>>

Read == Hydrate \/ ReadEdges \/ ReadTargets \/ Answer

Next == Write \/ (\E r \in Request : GetNodes(r)) \/ Read

\* A request runs to its end whatever the writers do.
Spec == Init /\ [][Next]_vars /\ WF_vars(Read)

-----------------------------------------------------------------------------
(***************************************************************************)
(* What every database must give a reader.  Reference definitions: the     *)
(* field as hydrateFields reads it, the bounded distance, and the rows a   *)
(* scope allows by itself.                                                 *)
(***************************************************************************)
Refers(n, path) ==
    IF path.kind = "out" THEN RefValue(edges, n, path.name)
    ELSE {m \in Rows(DB) : nodes[m].type = path.source /\ n \in RefValue(edges, m, path.name)}

Within(R, n, k) ==
    LET B[i \in 0 .. k] ==
          IF i = 0 THEN {n} ELSE B[i - 1] \cup {r[2] : r \in {q \in R : q[1] \in B[i - 1]}}
    IN  B[k]

Allowed(type, scope) ==
    IF scope.mode = "restricted" THEN Selected(DB, scope.where, type)
    ELSE {n \in Rows(DB) : nodes[n].type = type}

OfType(type) == {n \in Rows(DB) : nodes[n].type = type}
Bound == Cardinality(NodeId)

\* What the code accepts of the lists, trees and searches that are asked for.
Queries ==
    {[scope |-> q[1], where |-> q[2]] :
        q \in {p \in Scopes \X (Wheres \cup {NoExpr}) : QueryIsAccepted(Listed, p[1], p[2])}}
Lists == {q.scope : q \in {p \in Queries : p.where = NoExpr}}
Searches ==
    {[targets |-> q[1], text |-> q[2]] :
        q \in {p \in Targets \X Phrases : SearchIsAccepted(p[1])}}

\* A list, a count, a tree and a search never let a row through that its
\* scope does not select, whatever the caller's condition is: a negation, an
\* alternative, a comparison with null, no condition at all.  In a search
\* each type has its own scope.  Nor is a row that both select kept back.
ScopeIsNeverWidened ==
    reader = Idle =>
        /\ \A q \in Queries :
             LET s == q.scope
                 w == q.where
             IN  /\ Matches(DB, Listed, s, w) = Allowed(Listed, s) \cap Selected(DB, w, Listed)
                 /\ CountNodes(DB, Listed, s, w, 1) =< Cardinality(Allowed(Listed, s))
        /\ \A s \in Lists :
             \A n \in JsonNodes(LoadTree(DB, Listed, s)) : n \in Allowed(Listed, s)
        /\ \A q \in Searches : \A n \in Hits(DB, q.text, q.targets) :
             LET t == q.targets
             IN  \E i \in DOMAIN t :
                n \in Allowed(t[i].type, t[i].scope) \cap Selected(DB, t[i].where, t[i].type)

\* Everything that reads a relation reads what the node's own field says,
\* from both ends: a set test in a query, for undirected relations also
\* exists and related, and RefIDs, OutEdges and InEdges, of which some go by
\* the declared algebra and others by the stored flags.
RelationsReadTheirField ==
    reader = Idle => \A n \in Rows(DB) :
        /\ \A f \in Field : \A path \in {Ref(f.name), Incoming(f.type, f.name)} :
             LET type == nodes[n].type
             IN  Relation(type, path) = {f} =>
                   /\ InNodes(DB, n, path, type) \cap OfType(TargetType(type, path)) = Refers(n, path)
                   /\ Undirected(f) => JoinedNodes(DB, n, path, type) = Refers(n, path)
        /\ \A f \in FieldsOf(nodes[n].type) :
             LET value == RefValue(edges, n, f.name)
             IN  /\ RefIDs(DB, n, f) = value
                 /\ {OtherEnd(e, n) : e \in OutEdges(DB, n, f)} = value
                 /\ \A m \in value : \E e \in InEdges(DB, m, f.name) : OtherEnd(e, m) = n

\* Exists and related look at the relation they name (query/ast.go:73 and 81):
\* the nodes they open are those of the field.  The code restricts the edges
\* to the field only when the relation is undirected.
RelatedOpensItsRelation ==
    reader = Idle => \A n \in Rows(DB) : \A f \in FieldsOf(nodes[n].type) :
        JoinedNodes(DB, n, Ref(f.name), nodes[n].type) = Refers(n, Ref(f.name))

\* The pages of one list, read by separate statements of any page size, hold
\* every match exactly once, whatever order the engine gives to rows that tie;
\* the count of the list tells how long each page is.
PagesPartitionMatches ==
    reader = Idle => \A s \in Lists, sort \in Sorts : SortIsAccepted(Listed, sort) =>
        LET M == Matches(DB, Listed, s, NoExpr)
            O == Orders(DB, M, sort)
            total == CountNodes(DB, Listed, s, NoExpr, -1)
        IN  /\ O # {}
            /\ \A size \in 1 .. Bound, o \in [0 .. Bound -> O] :
                 LET Page == [i \in 0 .. Bound |-> PageOf(o[i], size, size * i)]
                 IN  /\ UNION {ToSet(Page[i]) : i \in 0 .. Bound} = M
                     /\ \A i \in 0 .. Bound :
                          /\ Len(Page[i]) = IF total < size * i THEN 0
                                            ELSE IF total < size * (i + 1) THEN total - size * i
                                            ELSE size
                          /\ \A j \in 0 .. Bound :
                               i # j => ToSet(Page[i]) \cap ToSet(Page[j]) = {}

\* A walk of at most k hops finds the nodes within that distance and no
\* others, on graphs with cycles too; Subtree is Traverse seen from the other
\* end, from any row: another type may use the field's name; and the members
\* of an equivalence class have the same class.
WalksMatchReachability ==
    reader = Idle => \A n \in OfType(Listed), k \in 1 .. Bound :
        /\ WalkIsAccepted(DB, Listed, n, Tree, k, FALSE) =>
             /\ Traverse(DB, n, Tree, k) = Within(Along(DB, Tree), n, k) \ {n}
             /\ Subtree(DB, n, Tree, k) = {m \in Rows(DB) : n \in Traverse(DB, m, Tree, k)}
             /\ {r.id : r \in AncestorRows(DB, n, Tree, k)} = Traverse(DB, n, Tree, k)
        /\ WalkIsAccepted(DB, Listed, n, Peers, k, TRUE) =>
             /\ EquivalenceClass(DB, n, Peers, k) = Within(Across(DB, Peers), n, k)
             /\ k = Bound => \A m \in EquivalenceClass(DB, n, Peers, k) :
                  EquivalenceClass(DB, m, Peers, k) = EquivalenceClass(DB, n, Peers, k)

\* n is an ancestor of its own.
OnCycle(T, n) == \E m \in Parent(T, n) : Reaches(T.parent, NodeId, m, n)

\* Whatever the scope hides and an import stored, nesting the whole tree ends;
\* collecting the subtree of a node ends too, except for a node that is an
\* ancestor of its own: nothing guards that walk.  Without a cycle a loaded
\* tree is a forest of all it shows: a node whose parent is hidden is a root,
\* and every shown node hangs below exactly one root.  When nothing is hidden,
\* and no other type uses the field's name, the tree in memory, the recursive
\* SQL, and the id set of a subtree condition agree.
TreesAgreeWithWalks ==
    reader = Idle => \A s \in Lists :
        LET T == LoadTree(DB, Listed, s)
        IN  /\ Returns(T, Roots(T))
            /\ \A n \in T.nodes : Returns(T, {n}) <=> ~ OnCycle(T, n)
            /\ IsAcyclic(T.parent, NodeId) => \A n \in T.nodes :
                 /\ Cardinality({r \in Roots(T) : n \in SubtreeIDs(T, r)}) = 1
                 /\ Last(Chain(T, n)) \in Roots(T)
                 /\ s = BypassPolicy /\ (\A f \in Field : f.name = Tree => f.type = Listed) =>
                      /\ SubtreeIDs(T, n) = {n} \cup Subtree(DB, n, Tree, Bound)
                      /\ SubtreeIDs(T, n) = SubtreeSet(DB, Listed, n, Bound)
                      /\ \A r \in AncestorRows(DB, n, Tree, Bound) : Chain(T, n)[r.depth + 1] = r.id
                      /\ Len(Chain(T, n)) = Cardinality(AncestorRows(DB, n, Tree, Bound)) + 1

\* A search finds a visible document that has the whole phrase, if there is
\* one; and it is never empty-handed because tokens that occur only in hidden
\* documents were required: several tokens, one of them in a visible
\* document, have a hit.
SearchFindsWhatIsVisible ==
    reader = Idle => \A search \in Searches :
        LET t == search.targets
            q == search.text
            shown == Indexed(DB) \cap Visible(DB, t)
        IN  /\ \A n \in shown : HasPhrase(Tokens(DB, n), q) => n \in Hits(DB, q, t)
            /\ (\E n \in shown, i \in DOMAIN q : HasToken(Tokens(DB, n), q[i])) => Hits(DB, q, t) # {}

\* When a merge preview asks for no decision, filling in what it suggests and
\* deleting the source loses no value and no reference; and a field that is
\* neither suggested nor a conflict has nothing that the target lacks.
MergePreviewLosesNothing ==
    reader = Idle => \A s, t \in OfType(Listed) : s # t =>
        /\ ~ RequiresResolution(DB, s, t) => \A e \in edges : s \notin {e.from, e.to}
        /\ \A k \in Keys(Listed) \ (Suggested(DB, s, t) \cup FieldConflicts(DB, s, t)) :
             IsAbsent(DB, s, k) \/ FieldOf(DB, s, k) = FieldOf(DB, t, k)

-----------------------------------------------------------------------------
(***************************************************************************)
(* What a read that takes several statements may return.                   *)
(***************************************************************************)

\* No later path begins like this one: Expand would load its targets again.
IsOwn(paths, i) == \A j \in DOMAIN paths : j > i => paths[j][1] # paths[i][1]

\* Without a write in between, every node of the answer carries under every
\* requested path exactly what its references say, level by level.  A path
\* that begins like a later one is not promised that: the later one replaces
\* what it loaded.
ExpansionIsExact ==
    (reader.pc = "done" /\ reader.torn = 0) =>
        LET paths == reader.req.paths
            start == {Copy(n, 0) : n \in reader.roots}
        IN  \A i \in DOMAIN paths : IsOwn(paths, i) =>
              \A k \in DOMAIN paths[i] :
                \A c \in Under(reader.heap, start, SubSeq(paths[i], 1, k - 1)) :
                   IdsOf(Under(reader.heap, {c}, <<paths[i][k]>>)) = Refers(c.id, paths[i][k])

\* Beside writers too, an expansion puts nothing together that was never
\* there: two nodes are joined only by an edge that existed while the read
\* ran, and each was then a row of a type the field joins.
NothingIsInvented ==
    reader.pc = "done" => \A h \in reader.heap : \A c \in h.to :
        \E e \in seen.edges, f \in Field :
            /\ e.field = h.key.name /\ f.name = e.field
            /\ \/ (e.symmetric \/ h.key.kind = "out") /\ e.from = h.of.id /\ e.to = c.id
               \/ (e.symmetric \/ h.key.kind = "in") /\ e.to = h.of.id /\ e.from = c.id
            /\ {<<e.from, f.type>>, <<e.to, f.to>>} \subseteq seen.rows

\* A read fails only for a reason: a segment that is no relation of the type
\* it is asked of, more edges than the limit, a field name that another type
\* uses for the same target, or an id that a deletion passed on to a node of
\* another type while the read ran.
ReadFailsForAReason ==
    reader.pc = "failed" =>
        \/ \E a, b \in seen.rows : a[1] = b[1] /\ a[2] # b[2]
        \/ /\ reader.req.paths # << >>
           /\ \/ ~ SegmentResolves(reader.type, Segment)
              \/ Cardinality({e \in seen.edges : e.field = Segment.name}) > ExpandLimit
              \/ \E f \in Field : /\ Segment.kind = "in" /\ f.name = Segment.name
                                  /\ f.to = reader.type /\ f.type # Segment.source

\* Every read is answered, however many segments it has.
ReadEnds == (reader # Idle) ~> (reader = Idle)
=============================================================================
