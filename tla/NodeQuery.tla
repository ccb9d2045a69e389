------------------------------ MODULE NodeQuery ------------------------------
(***************************************************************************)
(* Selecting nodes: the query expressions of package query, their          *)
(* validation and their SQL meaning (core/node_query_compile.go), the row  *)
(* scope that every list and search must carry (policy.go), sorting and    *)
(* paging (node_query.go) and the full-text plan (search.go).              *)
(*                                                                         *)
(* A database is a record of the nodes and edges tables.  A node has one   *)
(* scalar field, value, which may be absent (Null), and the tokens that    *)
(* the index holds for it are TextOf[value].  An expression is a record    *)
(* with a kind; truth is SQL's: TRUE, FALSE or Null.                       *)
(*                                                                         *)
(* A definition that a comment calls a slip is not part of the model: it   *)
(* is a plausible mistake in the definition that follows it.               *)
(***************************************************************************)
EXTENDS RelationSchema, EdgeTable, Integers, FiniteSets, SequencesExt

CONSTANTS
    NodeId, Value, Null, NoRow,
    TextOf,            \* the tokens indexed for each value
    FieldOps,          \* what the kind of the field value allows in a query
    Expr,              \* the expressions that callers build, and their parts
    MaxFilterNodes, MaxFilterDepth, MaxRelationDepth, MaxSetValues

Row == [type : Type, value : Value \cup {Null}]
Rows(D) == {n \in NodeId : D.nodes[n] # NoRow}

-----------------------------------------------------------------------------
(***************************************************************************)
(* Expressions.  A path is a system column (id), the scalar field (value), *)
(* an outgoing reference or an incoming one with its source type.          *)
(***************************************************************************)
System(name) == [kind |-> "system", source |-> "", name |-> name]
Scalar(name) == [kind |-> "field", source |-> "", name |-> name]
Ref(name) == [kind |-> "out", source |-> "", name |-> name]
Incoming(source, name) == [kind |-> "in", source |-> source, name |-> name]

Constant(b) == [k |-> "constant", b |-> b]
Compare(op, path, v) == [k |-> "compare", op |-> op, path |-> path, v |-> v]
Not(arg) == [k |-> "not", arg |-> arg]
OneOf(path, ids) == [k |-> "in", path |-> path, ids |-> ids]
Exists(path) == [k |-> "exists", path |-> path, missing |-> FALSE]
Missing(path) == [k |-> "exists", path |-> path, missing |-> TRUE]
Related(path, where) == [k |-> "related", path |-> path, where |-> where]

NoExpr == [k |-> "none"]

\* A clause may be missing: a nil expression.
Clause == Expr \cup {NoExpr}

\* And, Or: compact drops the absent arguments.
Compact(a, b) ==
    (IF a = NoExpr THEN << >> ELSE <<a>>) \o (IF b = NoExpr THEN << >> ELSE <<b>>)
And(a, b) == [k |-> "and", args |-> Compact(a, b)]
Or(a, b) == [k |-> "or", args |-> Compact(a, b)]

PartsClosed ==
    \A e \in Expr :
        /\ e.k = "not" => e.arg \in Clause
        /\ e.k \in {"and", "or"} => \A i \in DOMAIN e.args : e.args[i] \in Clause
        /\ e.k = "related" => e.where \in Clause

\* The comparisons of text are left out, and with them a field that has them.
ASSUME ExprAssumption ==
    /\ MaxFilterDepth \in Nat
    /\ PartsClosed
    /\ \A e \in Expr : e.k = "constant" => e.b \in BOOLEAN
    /\ FieldOps \subseteq {"equal", "ordered", "sortable"}
    /\ Null \notin BOOLEAN

IsRelation(path) == path.kind \in {"out", "in"}

\* resolvePath: the fields a relation path may mean, seen from a type.
Relation(type, path) ==
    {f \in Field :
        /\ f.name = path.name
        /\ IF path.kind = "out" THEN f.type = type
                                ELSE f.type = path.source /\ f.to = type}

TargetType(type, path) ==
    IF path.kind = "in" THEN path.source
                        ELSE (CHOOSE f \in Relation(type, path) : TRUE).to

PathResolves(type, path) ==
    CASE path.kind = "system" -> path.name = "id"
      [] path.kind = "field" -> path.name = "value"
      [] OTHER -> Relation(type, path) # {}

\* What a column or the field's kind declares (SystemField.Ops, QueryOps).
OpsOf(path) == IF path.kind = "system" THEN {"equal", "ordered", "sortable"} ELSE FieldOps

OpClass(op) == CASE op \in {"eq", "ne"} -> "equal"
                 [] op \in {"gt", "gte", "lt", "lte"} -> "ordered"
                 [] OTHER -> "text"

\* compileCompare, validateCompare.
CompareCompiles(type, e) ==
    /\ PathResolves(type, e.path) /\ ~ IsRelation(e.path)
    /\ IF e.v = Null THEN e.op \in {"eq", "ne"} ELSE OpClass(e.op) \in OpsOf(e.path)

\* compile refuses what is deeper than MaxFilterDepth, so a computation that
\* descends with it ends after Levels steps.  A function of the levels that
\* are left gives the answer for every expression and type.
Levels == MaxFilterDepth + 1

\* The number of expressions that compile counts.
Size(expr) ==
    LET S[k \in 0 .. Levels] ==
          [e \in Clause |->
             IF k = 0 THEN 1
             ELSE 1 + CASE e.k = "not" -> S[k - 1][e.arg]
                        [] e.k = "related" -> S[k - 1][e.where]
                        [] e.k \in {"and", "or"} ->
                             FoldSeq(LAMBDA a, n : n + S[k - 1][a], 0, e.args)
                        [] OTHER -> 0]
    IN  S[Levels][expr]

\* compile: the checks on the way down, without the count of expressions.
CompilesStep(k, below, e, type) ==
    CASE e.k = "constant" -> TRUE
      [] e.k = "compare" -> CompareCompiles(type, e)
      [] e.k = "not" -> below[e.arg][type]
      [] e.k \in {"and", "or"} ->
           e.args # << >> /\ \A i \in DOMAIN e.args : below[e.args[i]][type]
      [] e.k = "in" ->
           /\ PathResolves(type, e.path)
           /\ Cardinality(e.ids) =< MaxSetValues
           /\ e.path.kind = "field" => "equal" \in FieldOps
      [] e.k = "exists" -> PathResolves(type, e.path)
      [] e.k = "related" ->
           /\ Levels - k < MaxRelationDepth
           /\ IsRelation(e.path) /\ PathResolves(type, e.path)
           /\ below[e.where][TargetType(type, e.path)]
      [] OTHER -> FALSE

Compiles(expr, type) ==
    LET C[k \in 0 .. Levels] ==
          [e \in Clause |-> [t \in Type |-> k > 0 /\ CompilesStep(k, C[k - 1], e, t)]]
    IN  C[Levels][expr][type]

\* compileWhere accepts the expression.
IsAccepted(e, type) == e = NoExpr \/ (Compiles(e, type) /\ Size(e) =< MaxFilterNodes)

-----------------------------------------------------------------------------
(***************************************************************************)
(* The meaning of the SQL that compile writes.                             *)
(***************************************************************************)
Not3(x) == IF x = Null THEN Null ELSE ~ x
And3(S) == IF FALSE \in S THEN FALSE ELSE IF Null \in S THEN Null ELSE TRUE
Or3(S) == IF TRUE \in S THEN TRUE ELSE IF Null \in S THEN Null ELSE FALSE

Column(D, n, path) == IF path.kind = "system" THEN n ELSE D.nodes[n].value

Compare3(x, op, v) ==
    CASE op = "eq" -> x = v
      [] op = "ne" -> x # v
      [] op = "gt" -> x > v
      [] op = "gte" -> x >= v
      [] op = "lt" -> x < v
      [] op = "lte" -> x =< v

\* The edges a relation predicate looks at, seen from node n.  For a directed
\* field, exists and related do not restrict the edges to the field: every
\* edge that leaves (or reaches) the node counts.
JoinedEdges(D, n, path, f) ==
    CASE Undirected(f) ->
           {e \in D.edges : e.field = f.name /\ e.symmetric /\ n \in {e.from, e.to}}
      [] ~ Undirected(f) /\ path.kind = "out" -> {e \in D.edges : e.from = n}
      [] OTHER -> {e \in D.edges : e.to = n}

\* compileExists on a relation, and the nodes that related opens.
JoinedNodes(D, n, path, type) ==
    UNION {{OtherEnd(e, n) : e \in JoinedEdges(D, n, path, f)} : f \in Relation(type, path)}

\* Slip: the reverse half of an undirected In is forgotten.
InNodesOneWay(D, n, path, type) ==
    UNION {{OtherEnd(e, n) : e \in {d \in D.edges : /\ d.field = f.name
                                                  /\ IF path.kind = "out" THEN d.from = n
                                                                          ELSE d.to = n}}
             : f \in Relation(type, path)}

\* compileIn: the nodes whose ids a relation path is compared with.
InNodes(D, n, path, type) ==
    UNION {{OtherEnd(e, n) :
              e \in {d \in D.edges :
                       /\ d.field = f.name
                       /\ \/ d.from = n /\ (path.kind = "out" \/ Undirected(f))
                          \/ d.to = n /\ (path.kind = "in" \/ Undirected(f))
                       /\ path.kind = "in" /\ Undirected(f) =>
                            d.symmetric /\ D.nodes[OtherEnd(d, n)].type = path.source}}
             : f \in Relation(type, path)}

TruthStep(D, below, e, type, n) ==
    CASE e.k = "constant" -> e.b
      [] e.k = "compare" ->
           LET x == Column(D, n, e.path)
           IN  IF e.v = Null THEN (x = Null) = (e.op = "eq")
               ELSE IF x = Null THEN Null ELSE Compare3(x, e.op, e.v)
      [] e.k = "not" -> Not3(below[e.arg][type][n])
      [] e.k = "and" -> And3({below[e.args[i]][type][n] : i \in DOMAIN e.args})
      [] e.k = "or" -> Or3({below[e.args[i]][type][n] : i \in DOMAIN e.args})
      [] e.k = "in" ->
           IF e.ids = {} THEN FALSE
           ELSE IF IsRelation(e.path) THEN InNodes(D, n, e.path, type) \cap e.ids # {}
           ELSE LET x == Column(D, n, e.path) IN IF x = Null THEN Null ELSE x \in e.ids
      [] e.k = "exists" ->
           LET x == IF IsRelation(e.path) THEN JoinedNodes(D, n, e.path, type) # {}
                                          ELSE Column(D, n, e.path) # Null
           IN  x # e.missing
      [] e.k = "related" ->
           \E m \in JoinedNodes(D, n, e.path, type) :
              below[e.where][TargetType(type, e.path)][m] = TRUE

\* What a compiled expression says of a row.
Truth(D, expr, type, node) ==
    LET T[k \in 0 .. Levels] ==
          [e \in Clause |-> [t \in Type |-> [n \in NodeId |->
             IF k = 0 THEN Null ELSE TruthStep(D, T[k - 1], e, t, n)]]]
    IN  T[Levels][expr][type][node]

\* The ids of one type that a WHERE clause lets through.
Selected(D, e, type) ==
    {n \in Rows(D) : D.nodes[n].type = type /\ (e = NoExpr \/ Truth(D, e, type, n) = TRUE)}

-----------------------------------------------------------------------------
(***************************************************************************)
(* The scope of a query: never set, restricted to an expression, or a      *)
(* trusted bypass.                                                         *)
(***************************************************************************)
UnsetScope == [mode |-> "unset"]
BypassPolicy == [mode |-> "bypass"]

\* PolicyScope: a nil expression denies every row.
PolicyScope(where) ==
    [mode |-> "restricted", where |-> IF where = NoExpr THEN Constant(FALSE) ELSE where]

\* Slip: the user's condition stands in for the scope.
EffectiveUserFirst(scope, user) ==
    CASE scope.mode = "restricted" -> IF user = NoExpr THEN scope.where ELSE user
      [] OTHER -> user

\* QueryScope.apply, for a scope that is set.
Effective(scope, user) ==
    CASE scope.mode = "restricted" ->
           IF user = NoExpr THEN scope.where ELSE And(user, scope.where)
      [] OTHER -> user

\* buildWhere does not fail.
QueryIsAccepted(type, scope, user) ==
    /\ type \in Type
    /\ scope.mode # "unset"
    /\ IsAccepted(Effective(scope, user), type)

\* The rows of an accepted query, without order and page.
Matches(D, type, scope, user) == Selected(D, Effective(scope, user), type)

\* CountNodes: at most limit, -1 for no limit.
CountNodes(D, type, scope, user, limit) ==
    LET total == Cardinality(Matches(D, type, scope, user))
    IN  IF limit > 0 /\ total > limit THEN limit ELSE total

\* compileSort: sort fields that are accepted, with the id appended last.
SortIsAccepted(type, sort) ==
    /\ Len(sort) =< 8
    /\ \A i, j \in DOMAIN sort : sort[i].path = sort[j].path => i = j
    /\ \A i \in DOMAIN sort :
         /\ PathResolves(type, sort[i].path) /\ ~ IsRelation(sort[i].path)
         /\ "sortable" \in OpsOf(sort[i].path)

Asc(path) == [path |-> path, desc |-> FALSE]
Desc(path) == [path |-> path, desc |-> TRUE]

\* Slip: rows that tie keep the order the engine happens to find.
SortKeysAsGiven(sort) == sort

\* updated_at is not modelled: without sort fields the order is that of ids.
SortKeys(sort) ==
    IF \E i \in DOMAIN sort : sort[i].path = System("id") THEN sort
                                                          ELSE Append(sort, Desc(System("id")))

\* SQLite sorts NULL before every value.
Before(D, m, n, key) ==
    LET x == Column(D, m, key.path)
        y == Column(D, n, key.path)
        less == \/ x = Null /\ y # Null
                \/ x # Null /\ y # Null /\ x < y
        more == \/ y = Null /\ x # Null
                \/ x # Null /\ y # Null /\ y < x
    IN  IF key.desc THEN more ELSE less

Precedes(D, m, n, keys) ==
    \E i \in DOMAIN keys :
        /\ Before(D, m, n, keys[i])
        /\ \A j \in 1 .. (i - 1) : ~ Before(D, m, n, keys[j]) /\ ~ Before(D, n, m, keys[j])

\* The row sequences that ORDER BY allows.
Orders(D, S, sort) ==
    {s \in SetToSeqs(S) :
        \A i, j \in DOMAIN s : Precedes(D, s[i], s[j], SortKeys(sort)) => i < j}

\* LIMIT and OFFSET; a limit of 0 is no limit, and then no offset either.
PageOf(s, limit, offset) ==
    IF limit = 0 THEN s ELSE SubSeq(s, offset + 1, IF offset + limit < Len(s)
                                                   THEN offset + limit ELSE Len(s))

-----------------------------------------------------------------------------
(***************************************************************************)
(* Full-text search over several types, each with a filter and a scope.    *)
(***************************************************************************)
SearchTarget(type, scope, where) == [type |-> type, scope |-> scope, where |-> where]

\* Service.Search and compileTargets accept the targets; one compiler counts
\* the expressions of all of them.
SearchIsAccepted(targets) ==
    /\ targets # << >>
    /\ FoldSeq(LAMBDA t, n : n + Size(Effective(t.scope, t.where)), 0, targets) =< MaxFilterNodes
    /\ \A i, j \in DOMAIN targets : targets[i].type = targets[j].type => i = j
    /\ \A i \in DOMAIN targets :
         /\ targets[i].type \in Searchable
         /\ QueryIsAccepted(targets[i].type, targets[i].scope, targets[i].where)

Visible(D, targets) ==
    UNION {Matches(D, targets[i].type, targets[i].scope, targets[i].where) : i \in DOMAIN targets}

Tokens(D, n) == TextOf[D.nodes[n].value]
Indexed(D) == {n \in Rows(D) : D.nodes[n].type \in Searchable}

HasPhrase(s, q) == \E i \in 0 .. Len(s) - Len(q) : SubSeq(s, i + 1, i + Len(q)) = q
HasToken(s, x) == \E i \in DOMAIN s : s[i] = x

\* presentTokens: does any indexed node have the token, visible or not.
PresentTokens(D, q) ==
    {x \in {q[i] : i \in DOMAIN q} : \E n \in Indexed(D) : HasToken(Tokens(D, n), x)}

\* Slip: without the last resort.
HitsStrict(D, q, targets) ==
    LET among == Indexed(D) \cap Visible(D, targets)
        phrase == {n \in among : HasPhrase(Tokens(D, n), q)}
        all == {n \in among : \A x \in PresentTokens(D, q) : HasToken(Tokens(D, n), x)}
    IN  IF phrase # {} \/ PresentTokens(D, q) = {} THEN phrase ELSE all

\* resolveMatch: the whole phrase; else all the tokens that occur anywhere;
\* else any of several tokens.
Hits(D, q, targets) ==
    LET among == Indexed(D) \cap Visible(D, targets)
        present == PresentTokens(D, q)
        phrase == {n \in among : HasPhrase(Tokens(D, n), q)}
        all == {n \in among : \A x \in present : HasToken(Tokens(D, n), x)}
        any == {n \in among : \E i \in DOMAIN q : HasToken(Tokens(D, n), q[i])}
    IN  IF phrase # {} THEN phrase
        ELSE IF present # {} /\ all # {} THEN all
        ELSE IF Len(q) < 2 THEN {} ELSE any
=============================================================================
