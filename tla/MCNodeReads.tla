----------------------------- MODULE MCNodeReads -----------------------------
(***************************************************************************)
(* A small instance of NodeReads: pages form a tree and have peers, and    *)
(* both types use the field name item for references to items.             *)
(***************************************************************************)
EXTENDS NodeReads

Plain(type, name, to) ==
    [type |-> type, name |-> name, to |-> to, single |-> FALSE,
     required |-> FALSE, immutable |-> FALSE, symmetric |-> FALSE,
     transitive |-> FALSE, equivalence |-> FALSE, parent |-> FALSE]

Fields ==
    {[Plain("page", "up", "page") EXCEPT !.single = TRUE, !.parent = TRUE],
     [Plain("page", "peers", "page") EXCEPT !.equivalence = TRUE],
     Plain("page", "item", "item"),
     Plain("item", "item", "item")}

\* Every document has its title; a value adds a word to it.
MCTextOf == [v \in {1, Null} |-> IF v = 1 THEN <<"title", "word">> ELSE <<"title">>]

IsSet == Compare("eq", Scalar("value"), 1)

MCScopes == {UnsetScope, BypassPolicy, PolicyScope(IsSet), PolicyScope(NoExpr),
             PolicyScope(Not(IsSet))}

MCWheres ==
    {NoExpr, Not(IsSet), Or(IsSet, Constant(TRUE)), Missing(Scalar("value")),
     Compare("ne", Scalar("value"), Null), OneOf(Ref("peers"), {1, 2}),
     Related(Ref("peers"), IsSet), Not(Exists(Incoming("page", "up")))}

\* The conditions, the scopes, their parts, and each condition within a scope.
Limits == {IsSet, Not(IsSet), Constant(FALSE), Missing(Scalar("value"))}
MCExpr ==
    LET parts == {IsSet, Constant(TRUE), Exists(Incoming("page", "up"))}
        whole == (MCWheres \ {NoExpr}) \cup Limits \cup parts
    IN  whole \cup {And(w, l) : w \in MCWheres \ {NoExpr}, l \in Limits}

MCSorts == {<< >>, <<Asc(Scalar("value"))>>, <<Desc(Scalar("value")), Asc(System("id"))>>}

MCPhrases == {<<"word">>, <<"title", "word">>, <<"word", "title">>, <<"word", "other">>}

MCTargets ==
    {<<SearchTarget("page", BypassPolicy, NoExpr)>>,
     <<SearchTarget("page", PolicyScope(Missing(Scalar("value"))), NoExpr),
       SearchTarget("item", PolicyScope(IsSet), NoExpr)>>}

Get(type, where, paths) == [type |-> type, scope |-> BypassPolicy, where |-> where, paths |-> paths]

\* A single and an undirected field side by side; a nested path whose first
\* segment a later path loads again; the incoming directions.
Requests ==
    {Get("page", Missing(Scalar("value")), <<<<Ref("up")>>, <<Ref("peers")>>>>),
     Get("page", IsSet, <<<<Ref("up"), Ref("item")>>, <<Ref("up")>>>>),
     Get("page", IsSet, <<<<Incoming("page", "up"), Ref("peers")>>,
                          <<Ref("item"), Incoming("page", "item")>>>>)}

\* TLC keeps the value of a definition, but not that of one that the .cfg
\* substitutes for a constant.
MCField == Fields
MCRequest == Requests
=============================================================================
