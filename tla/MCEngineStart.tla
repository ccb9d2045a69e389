--------------------------- MODULE MCEngineStart ----------------------------
(***************************************************************************)
(* Two node types that share the field name rel, and the Schemas an        *)
(* operator moves between: rel of A reads one B, then nothing, then a list *)
(* of B; rel of B is a list of A, then a single reference to B, then       *)
(* undirected; A becomes unique, and nodes of both types are no longer     *)
(* addressable then; B becomes searchable, and A ceases to be.             *)
(***************************************************************************)
EXTENDS EngineStart

CONSTANTS A, B, rel

Ref(type, to, single, undirected) ==
    [type |-> type, name |-> rel, to |-> to, single |-> single, undirected |-> undirected]

SchemaOf(fields, search, uniques, addresses) ==
    [fields |-> fields, searchable |-> search, unique |-> uniques, addressable |-> addresses]

Schemas ==
    {SchemaOf(<<Ref(A, B, TRUE, FALSE), Ref(B, A, FALSE, FALSE)>>, {A}, {}, {A, B}),
     SchemaOf(<<Ref(B, B, TRUE, FALSE)>>, {A, B}, {}, {A, B}),
     SchemaOf(<<Ref(A, B, FALSE, FALSE), Ref(B, B, TRUE, TRUE)>>, {B}, {A}, {})}

\* TLC keeps the value of a definition, but not that of one that the .cfg
\* substitutes for a constant.
MCSchema == Schemas
=============================================================================
