---------------------------- MODULE MCNodeGraph -----------------------------
(***************************************************************************)
(* Small schemas for model checking NodeGraph.  Each is one a types.yaml   *)
(* can declare.                                                            *)
(***************************************************************************)
EXTENDS NodeGraph, TLC

\* A reference field with no option set.
Plain(type, name, to) ==
    [type |-> type, name |-> name, to |-> to, single |-> FALSE,
     required |-> FALSE, immutable |-> FALSE, symmetric |-> FALSE,
     transitive |-> FALSE, equivalence |-> FALSE, parent |-> FALSE]

MCType == {"article", "person"}
MCFieldName == {"author", "parent", "links", "partner", "peers"}

\* An article has one author and any number of links that must not loop;
\* persons form a tree.
ArticleSchema ==
    {[Plain("article", "author", "person") EXCEPT !.single = TRUE, !.required = TRUE],
     [Plain("article", "links", "article") EXCEPT !.transitive = TRUE],
     [Plain("person", "parent", "person") EXCEPT !.single = TRUE, !.parent = TRUE]}

\* The same without the links, for instances of two nodes: an article needs
\* the other one as its author, so there is no second article to link to.
AuthorSchema == {f \in ArticleSchema : f.name # "links"}

\* Both undirected algebras, one of them single.
SymmetricSchema ==
    {[Plain("person", "partner", "person") EXCEPT !.single = TRUE, !.symmetric = TRUE],
     [Plain("person", "peers", "person") EXCEPT !.equivalence = TRUE]}

\* Two types that use one field name for different things.
SharedNameSchema ==
    {[Plain("article", "peers", "person") EXCEPT !.single = TRUE, !.required = TRUE],
     [Plain("person", "peers", "person") EXCEPT !.symmetric = TRUE]}

MCSymmetry == Permutations(Client)
=============================================================================
