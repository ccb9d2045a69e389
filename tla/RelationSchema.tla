--------------------------- MODULE RelationSchema ---------------------------
(***************************************************************************)
(* The part of a loaded Schema (package types) that the graph engine       *)
(* depends on: which node types exist, which reference fields each         *)
(* declares, and with which cardinality and relation algebra.  A scalar    *)
(* field has no definition here: scalar values are the node's text.        *)
(***************************************************************************)

CONSTANTS
    Type,        \* names of the loaded node types
    FieldName,   \* names of reference fields
    Field,       \* the reference fields of all types (FieldDef plus its type)
    Searchable   \* the types that declare the searchable capability

(***************************************************************************)
(* A FieldDef of kind ref or refs.  single is Class() = ClassRef; parent   *)
(* says that the type's tree capability names this field as its parent.    *)
(***************************************************************************)
FieldDef ==
    [type : Type, name : FieldName, to : Type,
     single : BOOLEAN, required : BOOLEAN, immutable : BOOLEAN,
     symmetric : BOOLEAN, transitive : BOOLEAN, equivalence : BOOLEAN,
     parent : BOOLEAN]

\* The relation is read from both ends and stored once.
Undirected(f) == f.symmetric \/ f.equivalence

\* A write of this field is refused when it would close a cycle.
Ordered(f) == f.transitive \/ f.parent

FieldsOf(t) == {f \in Field : f.type = t}

\* validate: a type declares a field name once.
NamesUnique ==
    \A f, g \in Field : f.type = g.type /\ f.name = g.name => f = g

\* validateRefField: one algebra at most, and only on a self reference.
AlgebraIsSelfReference ==
    \A f \in Field :
        /\ ~ (f.symmetric /\ f.transitive)
        /\ ~ (f.symmetric /\ f.equivalence)
        /\ ~ (f.transitive /\ f.equivalence)
        /\ (Undirected(f) \/ f.transitive) => f.to = f.type

\* validateTypeConfig: tree.parent is a single self reference.
ParentIsSingleSelfReference ==
    \A f \in Field : f.parent => f.single /\ f.to = f.type

ASSUME SchemaAssumption ==
    /\ Field \subseteq FieldDef
    /\ Searchable \subseteq Type
    /\ NamesUnique
    /\ AlgebraIsSelfReference
    /\ ParentIsSingleSelfReference
=============================================================================
