------------------------------ MODULE Expansion ------------------------------
(***************************************************************************)
(* Loading what references point to (core/expand.go), and the other reads  *)
(* of the edges table: the reference fields of a node (node_read.go), the  *)
(* pages of edges (edge_query.go) and the merge preview (merge.go).        *)
(*                                                                         *)
(* An expansion follows a path segment by segment.  Each segment is two    *)
(* SQL statements for the whole batch: one for the edges, one for the      *)
(* target rows.  Every load makes copies of nodes; a copy is a node id and *)
(* the load that made it.  The Expand maps of all copies are a set of      *)
(* entries, the heap: copy "of" has the copies "to" under "key".           *)
(*                                                                         *)
(* A definition that a comment calls a slip is not part of the model: it   *)
(* is a plausible mistake in the definition that follows it.               *)
(***************************************************************************)
EXTENDS NodeQuery

CONSTANTS ExpandLimit, MaxExpandPaths, MaxExpandDepth

ASSUME LimitAssumption ==
    ExpandLimit \in Nat /\ MaxExpandPaths \in Nat /\ MaxExpandDepth \in Nat

\* resolveExpandRelation finds the segment.
SegmentResolves(type, seg) == IsRelation(seg) /\ Relation(type, seg) # {}
SegmentField(type, seg) == CHOOSE f \in Relation(type, seg) : TRUE

\* Slip: a single field is single from its target's side too.
SegmentSingleBothWays(type, seg) == SegmentField(type, seg).single

SegmentSingle(type, seg) == seg.kind = "out" /\ SegmentField(type, seg).single

\* expandNodes: the limits on a request.
ExpandIsAccepted(paths) ==
    /\ Len(paths) =< MaxExpandPaths
    /\ \A i \in DOMAIN paths : Len(paths[i]) \in 1 .. MaxExpandDepth

\* Slip: the edges of an undirected relation are read from one end.
TypedEdgesOneWay(D, ids, type, seg) ==
    {e \in D.edges : /\ e.field = seg.name
                     /\ IF seg.kind = "in" THEN e.to \in ids ELSE e.from \in ids}

\* typedEdges: the edges are chosen by field name and by the batch.
TypedEdges(D, ids, type, seg) ==
    {e \in D.edges :
        /\ e.field = seg.name
        /\ IF Undirected(SegmentField(type, seg))
             THEN e.symmetric /\ ids \cap {e.from, e.to} # {}
             ELSE IF seg.kind = "in" THEN e.to \in ids ELSE e.from \in ids}

\* Slip: the target of an edge is its to_node, from whichever end it is read.
GroupedToEnd(E, ids, type, seg) ==
    {p \in ids \X NodeId :
        \E e \in E :
            CASE Undirected(SegmentField(type, seg)) -> p[1] \in {e.from, e.to} /\ p[2] = e.to
              [] ~ Undirected(SegmentField(type, seg)) /\ seg.kind = "in" ->
                   p[1] = e.to /\ p[2] = e.from
              [] OTHER -> p[1] = e.from /\ p[2] = e.to}

\* The edges grouped by the node of the batch, with relationTargetID: pairs
\* of a node and its target.
Grouped(E, ids, type, seg) ==
    {p \in ids \X NodeId :
        \E e \in E :
            CASE Undirected(SegmentField(type, seg)) -> p[1] \in {e.from, e.to} /\ p[2] = OtherEnd(e, p[1])
              [] ~ Undirected(SegmentField(type, seg)) /\ seg.kind = "in" ->
                   p[1] = e.to /\ p[2] = e.from
              [] OTHER -> p[1] = e.from /\ p[2] = e.to}

TargetsOf(pairs) == {p[2] : p \in pairs}

\* nodesByIDs and the check of the type of every row that came back.
Loaded(D, ids) == ids \cap Rows(D)
TargetsFit(D, ids, type, seg) ==
    \A n \in Loaded(D, ids) : D.nodes[n].type = TargetType(type, seg)

-----------------------------------------------------------------------------
Copy(id, load) == [id |-> id, load |-> load]
IdsOf(C) == {c.id : c \in C}

ValuesOf(pairs, n, loaded, load) ==
    {Copy(p[2], load) : p \in {q \in pairs : q[1] = n /\ q[2] \in loaded}}

\* expandTyped stores the targets in the copies of the batch.  The entry of
\* the same key is replaced; a single reference without a target leaves the
\* entry alone.
Attach(heap, batch, pairs, loaded, load, seg, single) ==
    LET set == {c \in batch : ~ single \/ ValuesOf(pairs, c.id, loaded, load) # {}}
    IN  {h \in heap : ~ (h.of \in set /\ h.key = seg)}
          \cup {[of |-> c, key |-> seg, to |-> ValuesOf(pairs, c.id, loaded, load)] : c \in set}

\* The copies a reader of the result finds under a path, from the copies C.
Under(heap, C, keys) ==
    LET G[i \in 0 .. Len(keys)] ==
          IF i = 0 THEN C
          ELSE UNION {h.to : h \in {g \in heap : g.of \in G[i - 1] /\ g.key = keys[i]}}
    IN  G[Len(keys)]

-----------------------------------------------------------------------------
(***************************************************************************)
(* The other readers of the edges table.                                   *)
(***************************************************************************)

\* RefIDs, refIDsForField: by the declared algebra, not by the stored flag.
RefIDs(D, n, f) ==
    IF Undirected(f)
      THEN {OtherEnd(e, n) : e \in {d \in D.edges :
               d.field = f.name /\ d.symmetric /\ n \in {d.from, d.to}}}
      ELSE {e.to : e \in {d \in D.edges : d.field = f.name /\ d.from = n}}

OutEdges(D, n, f) ==
    IF Undirected(f) THEN {e \in D.edges : e.field = f.name /\ e.symmetric /\ n \in {e.from, e.to}}
                     ELSE {e \in D.edges : e.from = n /\ e.field = f.name}

InEdges(D, n, name) ==
    {e \in D.edges : e.field = name /\ (e.to = n \/ (e.symmetric /\ e.from = n))}

(***************************************************************************)
(* PreviewMerge of two nodes of one type.  A missing value, and a single   *)
(* reference without target, are absent; a list of references never is.    *)
(***************************************************************************)
Keys(type) == {"value"} \cup {f.name : f \in FieldsOf(type)}
FieldOf(D, n, key) ==
    IF key = "value" THEN D.nodes[n].value ELSE RefValue(D.edges, n, key)
IsAbsent(D, n, key) ==
    \/ FieldOf(D, n, key) = Null
    \/ \E f \in FieldsOf(D.nodes[n].type) :
         f.name = key /\ f.single /\ RefValue(D.edges, n, key) = {}

\* The fields of the source that the preview would fill in at the target.
Suggested(D, source, target) ==
    {k \in Keys(D.nodes[source].type) : ~ IsAbsent(D, source, k) /\ IsAbsent(D, target, k)}

\* Slip: a reference list is only a conflict when the target has one too.
FieldConflictsOfBoth(D, source, target) ==
    {k \in Keys(D.nodes[source].type) :
        /\ ~ IsAbsent(D, source, k) /\ ~ IsAbsent(D, target, k)
        /\ k = "value" \/ FieldOf(D, target, k) # {}
        /\ FieldOf(D, source, k) # FieldOf(D, target, k)}

FieldConflicts(D, source, target) ==
    {k \in Keys(D.nodes[source].type) :
        /\ ~ IsAbsent(D, source, k) /\ ~ IsAbsent(D, target, k)
        /\ FieldOf(D, source, k) # FieldOf(D, target, k)}

\* incoming_edges and outgoing_edges of the source.
MergeEdges(D, source) ==
    {e \in D.edges : e.to = source \/ (e.symmetric /\ e.from = source)}
      \cup {e \in D.edges : e.from = source \/ (e.symmetric /\ e.to = source)}

RequiresResolution(D, source, target) ==
    FieldConflicts(D, source, target) # {} \/ MergeEdges(D, source) # {}
=============================================================================
