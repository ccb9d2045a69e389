---------------------------- MODULE EngineStart -----------------------------
(***************************************************************************)
(* Opening the engine on a database that other starts have left behind     *)
(* (core/service.go, migrate.go, sqlite_profile.go, edge_schema.go,        *)
(* schema_indexes.go, search.go).                                          *)
(*                                                                         *)
(* Open runs its stages one after another, and every stage commits on its  *)
(* own: one transaction per migration, one for the edge metadata, one for  *)
(* the declared indexes, one for the index rebuild.  The process may die,  *)
(* or a stage may fail, between any two of them; the disk keeps what was   *)
(* committed and the next start begins at the first stage.  Between starts *)
(* the Schema may be edited and the program replaced by one that ships     *)
(* more migrations.                                                        *)
(*                                                                         *)
(* A definition that a comment calls a slip is not part of the model: it   *)
(* is a plausible mistake in the definition that follows it.               *)
(***************************************************************************)
EXTENDS EdgeTable, Integers, Sequences, FiniteSets

CONSTANTS
    Type,           \* names of node types
    FieldName,      \* names of reference fields
    Text,           \* values of what a node displays, indexes and keeps unique
    Schema,         \* the Schemas that the site is started with
    Migrations,     \* the number of migrations ever shipped
    Emptying,       \* the migrations that create nodes_fts anew, empty
    EmptyText,      \* the empty text, which is not an address
    NoNode, NoText, NoSchema,
    MaxNode,        \* bound: nodes
    MaxEdge         \* bound: edges

NodeId == 1 .. MaxNode
NodeRow == [type : Type, text : Text]
Edge == [from : NodeId, field : FieldName, to : NodeId,
         single : BOOLEAN, symmetric : BOOLEAN]

(***************************************************************************)
(* A Schema: its reference fields in the order in which Names() and the    *)
(* type definitions list them, the searchable types, the types with a      *)
(* unique constraint and the addressable types (the one value a node has   *)
(* here is what is searched, kept unique and used as its address).         *)
(***************************************************************************)
RefField == [type : Type, name : FieldName, to : Type,
             single : BOOLEAN, undirected : BOOLEAN]

ASSUME SchemaAssumption ==
    \A s \in Schema :
        /\ s.fields \in Seq(RefField)
        /\ \A i, j \in DOMAIN s.fields :
             s.fields[i].type = s.fields[j].type /\ s.fields[i].name = s.fields[j].name
             => i = j
        /\ \A i \in DOMAIN s.fields : s.fields[i].undirected => s.fields[i].to = s.fields[i].type
        /\ s.searchable \subseteq Type
        /\ s.unique \subseteq Type
        /\ s.addressable \subseteq Type

ASSUME StartAssumption ==
    /\ MaxNode \in Nat
    /\ MaxEdge \in Nat
    /\ Migrations \in Nat \ {0}
    /\ Emptying \subseteq 1 .. Migrations
    /\ NoNode \notin NodeRow
    /\ NoText \notin Text
    /\ NoSchema \notin Schema

VARIABLES
    nodes,      \* the nodes table
    edges,      \* the edges table, with the flags derived from a Schema
    fts,        \* nodes_fts: what is indexed for each id, or NoText
    unique,     \* the types whose unique index exists
    addressed,  \* the types that the global address index covers
    version,    \* the last migration applied
    shipped,    \* the migrations embedded in the installed program
    phase,      \* where the process is: the next stage of Open, or its end
    schema,     \* the Schema it was started with, NoSchema when stopped
    fit,        \* the connection has the SQLite profile the engine needs
    applied,    \* this start has applied a migration
    synced,     \* history: the Schema of the last edge sync, NoSchema after
                \* an import that went past the engine
    uncovered   \* history: types whose nodes the index need not cover

disk == <<nodes, edges, fts, unique, addressed, version>>
process == <<phase, schema, fit, applied>>
vars == <<disk, shipped, process, synced, uncovered>>

Opening == {"profile", "migrate", "edges", "indexes", "search"}
Phase == Opening \cup {"down", "up"}

TypeOK ==
    /\ nodes \in [NodeId -> NodeRow \cup {NoNode}]
    /\ edges \in SUBSET Edge
    /\ fts \in [NodeId -> Text \cup {NoText}]
    /\ unique \in SUBSET Type
    /\ addressed \in SUBSET Type
    /\ version \in 0 .. Migrations
    /\ shipped \in 1 .. Migrations
    /\ phase \in Phase
    /\ schema \in Schema \cup {NoSchema}
    /\ fit \in BOOLEAN
    /\ applied \in BOOLEAN
    /\ synced \in Schema \cup {NoSchema}
    /\ uncovered \in SUBSET Type

-----------------------------------------------------------------------------
(***************************************************************************)
(* The stages, as what they make of a table.                               *)
(***************************************************************************)
Live(N) == {n \in NodeId : N[n] # NoNode}
FieldsOf(s) == {s.fields[i] : i \in DOMAIN s.fields}

\* The rows that syncFieldEdgeMetadata selects.
StoredEdges(N, E, f) == {e \in E : e.field = f.name /\ N[e.from].type = f.type}

\* Slip: the flags are set and the ends stay as they are stored.
NormalisedInPlace(f, e) ==
    [from |-> e.from, field |-> e.field, to |-> e.to,
     single |-> f.single, symmetric |-> f.undirected]

\* One row brought in line with its field.
Normalised(f, e) ==
    LET swap == f.undirected /\ e.from > e.to
    IN  [from |-> IF swap THEN e.to ELSE e.from, field |-> e.field,
         to |-> IF swap THEN e.from ELSE e.to,
         single |-> f.single, symmetric |-> f.undirected]

FieldSynced(N, E, f) ==
    (E \ StoredEdges(N, E, f)) \cup {Normalised(f, e) : e \in StoredEdges(N, E, f)}

\* Two rows that become one: found by seen, or by the unique key.
Collides(N, E, f) ==
    \E e \in StoredEdges(N, E, f), d \in E :
        /\ d # e /\ d.field = e.field
        /\ LET n == Normalised(f, e)
           IN  \/ d.from = n.from /\ d.to = n.to
               \/ d \in StoredEdges(N, E, f)
                  /\ Normalised(f, d).from = n.from /\ Normalised(f, d).to = n.to

\* All flags reset, then field after field of the Schema.
SyncedUpTo(N, E, s) ==
    LET Upto[i \in 0 .. Len(s.fields)] ==
          IF i = 0 THEN {[e EXCEPT !.single = FALSE, !.symmetric = FALSE] : e \in E}
                   ELSE FieldSynced(N, Upto[i - 1], s.fields[i])
    IN  Upto

Synced(N, E, s) == SyncedUpTo(N, E, s)[Len(s.fields)]

\* Slip: only the from end is counted.
CardinalityHoldsAtSource(E) ==
    \A d, e \in E : d.single /\ e.single /\ d.field = e.field /\ d.from = e.from => d = e

\* validateStoredSingleRefs: no node is the end of two single edges of one
\* field, nor both ends of one that is undirected.
CardinalityHolds(E) ==
    /\ \A d, e \in E :
         /\ d.single /\ e.single /\ d.field = e.field
         /\ Owners(d) \cap Owners(e) # {}
         => d = e
    /\ \A e \in E : e.single /\ e.symmetric => e.from # e.to

\* syncEdgeMetadata commits.
Syncs(N, E, s) ==
    /\ \A i \in DOMAIN s.fields : ~ Collides(N, SyncedUpTo(N, E, s)[i - 1], s.fields[i])
    /\ CardinalityHolds(Synced(N, E, s))

\* CREATE UNIQUE INDEX finds no duplicate.
Distinct(N, t) ==
    \A m, n \in Live(N) : N[m].type = t /\ N[n].type = t /\ N[m].text = N[n].text => m = n

\* The global index finds no address twice, whatever types the nodes have.
AddressesDistinct(N, T) ==
    \A m, n \in Live(N) :
        /\ N[m].type \in T /\ N[n].type \in T
        /\ N[m].text = N[n].text /\ N[m].text # EmptyText
        => m = n

\* Every declared index can be created.
Indexable(N, s) == (\A t \in s.unique : Distinct(N, t)) /\ AddressesDistinct(N, s.addressable)

\* What the index holds for a row (shouldIndex, Sync).
IndexText(s, row) == IF row.type \in s.searchable THEN row.text ELSE NoText

Rebuilt(N, s) ==
    [n \in NodeId |-> IF n \in Live(N) THEN IndexText(s, N[n]) ELSE NoText]

-----------------------------------------------------------------------------
Init ==
    /\ nodes = [n \in NodeId |-> NoNode]
    /\ edges = {}
    /\ fts = [n \in NodeId |-> NoText]
    /\ unique = {}
    /\ addressed = {}
    /\ version = 0
    /\ shipped = 1
    /\ phase = "down"
    /\ schema = NoSchema
    /\ fit = TRUE
    /\ applied = FALSE
    /\ synced = NoSchema
    /\ uncovered = {}

\* A program with one more migration replaces the stopped one.
Deploy ==
    /\ phase = "down"
    /\ shipped < Migrations
    /\ shipped' = shipped + 1
    /\ UNCHANGED <<disk, process, synced, uncovered>>

\* The process starts: the Schema is loaded, Open defines the hooks.
Start(s, f) ==
    /\ phase = "down"
    /\ phase' = "profile"
    /\ schema' = s
    /\ fit' = f
    /\ applied' = FALSE
    /\ UNCHANGED <<disk, shipped, synced, uncovered>>

\* Slip: the profile is read and not acted upon.
VerifyProfileLax ==
    /\ phase = "profile"
    /\ phase' = "migrate"
    /\ UNCHANGED <<disk, shipped, schema, fit, applied, synced, uncovered>>

\* verifySQLiteProfile.
VerifyProfile ==
    /\ phase = "profile"
    /\ fit
    /\ phase' = "migrate"
    /\ UNCHANGED <<disk, shipped, schema, fit, applied, synced, uncovered>>

\* Slip: the version table is not consulted.
MigrateAgain ==
    /\ phase = "migrate"
    /\ version' = version + 1
    /\ fts' = IF version' \in Emptying THEN [n \in NodeId |-> NoText] ELSE fts
    /\ applied' = TRUE
    /\ UNCHANGED <<nodes, edges, unique, addressed, shipped, phase, schema, fit, synced, uncovered>>

\* One pending migration; goose commits it with its version row.
Migrate ==
    /\ phase = "migrate"
    /\ version < shipped
    /\ version' = version + 1
    /\ fts' = IF version' \in Emptying THEN [n \in NodeId |-> NoText] ELSE fts
    /\ applied' = TRUE
    /\ UNCHANGED <<nodes, edges, unique, addressed, shipped, phase, schema, fit, synced, uncovered>>

\* None is pending: MigrateUp returns how many this call has applied.
Migrated ==
    /\ phase = "migrate"
    /\ version = shipped
    /\ phase' = "edges"
    /\ UNCHANGED <<disk, shipped, schema, fit, applied, synced, uncovered>>

SyncEdges ==
    /\ phase = "edges"
    /\ Syncs(nodes, edges, schema)
    /\ edges' = Synced(nodes, edges, schema)
    /\ synced' = schema
    /\ phase' = "indexes"
    /\ UNCHANGED <<nodes, fts, unique, addressed, version, shipped, schema, fit, applied, uncovered>>

\* syncSchemaIndexes: every declared index is dropped and created again.
SyncIndexes ==
    /\ phase = "indexes"
    /\ Indexable(nodes, schema)
    /\ unique' = schema.unique
    /\ addressed' = schema.addressable
    /\ phase' = "search"
    /\ UNCHANGED <<nodes, edges, fts, version, shipped, schema, fit, applied, synced, uncovered>>

\* Slip: the count of applied migrations is not looked at.
SkipRebuild == FALSE

\* The index is rebuilt when this start has applied a migration.
NeedsRebuild == applied

\* initSearch, and the rebuild when it is due: the engine is open.
Serve ==
    /\ phase = "search"
    /\ phase' = "up"
    /\ fts' = IF NeedsRebuild THEN Rebuilt(nodes, schema) ELSE fts
    /\ uncovered' = (Type \ schema.searchable)
                        \cup (IF applied THEN {} ELSE uncovered)
    /\ UNCHANGED <<nodes, edges, unique, addressed, version, shipped, schema, fit, applied, synced>>

\* The process dies, or Open returns an error and nothing runs.  What a
\* migration of this start has emptied is never rebuilt.
Stops ==
    /\ phase' = "down"
    /\ schema' = NoSchema
    /\ fit' = TRUE
    /\ applied' = FALSE
    /\ uncovered' = IF phase \in Opening /\ applied THEN Type ELSE uncovered
    /\ UNCHANGED <<disk, shipped, synced>>

Crash == phase # "down" /\ Stops

\* Slip: an error of the edge sync is swallowed, and Open does not go on.
RefuseButEdges ==
    /\ \/ phase = "profile" /\ ~ fit
       \/ phase = "indexes" /\ ~ Indexable(nodes, schema)
    /\ Stops

\* A stage that cannot succeed on this database ends the start with an error.
Refuse ==
    /\ \/ phase = "profile" /\ ~ fit
       \/ phase = "edges" /\ ~ Syncs(nodes, edges, schema)
       \/ phase = "indexes" /\ ~ Indexable(nodes, schema)
    /\ Stops

-----------------------------------------------------------------------------
(***************************************************************************)
(* The open engine, as far as it changes what the next start finds: the    *)
(* writes of NodeGraph on one value, one edge at a time.                   *)
(***************************************************************************)

\* The declared unique indexes that exist let the row in.
RowIsUnique(n, row) ==
    \A m \in Live(nodes) \ {n} : nodes[m].text = row.text =>
        /\ row.type \in unique => nodes[m].type # row.type
        /\ row.type \in addressed /\ row.text # EmptyText => nodes[m].type \notin addressed

NextNode == {n \in NodeId : Live(nodes) = 1 .. (n - 1)}

\* Slip: the entry of a type that is no longer searchable is left alone.
WriteKeepText(n, row) ==
    /\ phase = "up"
    /\ RowIsUnique(n, row)
    /\ nodes' = [nodes EXCEPT ![n] = row]
    /\ fts' = IF row.type \in schema.searchable THEN [fts EXCEPT ![n] = row.text] ELSE fts
    /\ UNCHANGED <<edges, unique, addressed, version, shipped, process, synced, uncovered>>

\* A row is written and searchSync brings the index in line.
Write(n, row) ==
    /\ phase = "up"
    /\ RowIsUnique(n, row)
    /\ nodes' = [nodes EXCEPT ![n] = row]
    /\ fts' = [fts EXCEPT ![n] = IndexText(schema, row)]
    /\ UNCHANGED <<edges, unique, addressed, version, shipped, process, synced, uncovered>>

CreateNode(t, x) == \E n \in NextNode : Write(n, [type |-> t, text |-> x])

PatchNode(n, x) ==
    /\ n \in Live(nodes)
    /\ Write(n, [nodes[n] EXCEPT !.text = x])

\* Slip: an insert that sets neither flag.
AddEdgePlain(f, from, to) ==
    LET e == [from |-> from, field |-> f.name, to |-> to, single |-> FALSE, symmetric |-> FALSE]
    IN  /\ phase = "up"
        /\ {from, to} \subseteq Live(nodes)
        /\ nodes[from].type = f.type /\ nodes[to].type = f.to
        /\ EdgeIsUnique(edges, e)
        /\ edges' = edges \cup {e}
        /\ UNCHANGED <<nodes, fts, unique, addressed, version, shipped, process, synced, uncovered>>

\* AddEdge of a field of the Schema that the engine was started with.
AddEdge(f, from, to) ==
    LET e == Normalised(f, [from |-> from, field |-> f.name, to |-> to])
    IN  /\ phase = "up"
        /\ e \notin edges
        /\ {from, to} \subseteq Live(nodes)
        /\ nodes[from].type = f.type /\ nodes[to].type = f.to
        /\ f.undirected => from # to
        /\ EdgeIsUnique(edges, e) /\ SingleRefIsFree(edges, e)
        /\ edges' = edges \cup {e}
        /\ UNCHANGED <<nodes, fts, unique, addressed, version, shipped, process, synced, uncovered>>

\* A site migration or an import writes rows with SQL of its own: a node that
\* no hook has seen, an edge whose flags are the column defaults.
ImportNode(t, x) ==
    /\ phase = "up"
    /\ \E n \in NextNode :
         /\ RowIsUnique(n, [type |-> t, text |-> x])
         /\ nodes' = [nodes EXCEPT ![n] = [type |-> t, text |-> x]]
    /\ uncovered' = uncovered \cup {t}
    /\ UNCHANGED <<edges, fts, unique, addressed, version, shipped, process, synced>>

ImportEdge(name, from, to) ==
    LET e == [from |-> from, field |-> name, to |-> to, single |-> FALSE, symmetric |-> FALSE]
    IN  /\ phase = "up"
        /\ {from, to} \subseteq Live(nodes)
        /\ EdgeIsUnique(edges, e)
        /\ edges' = edges \cup {e}
        /\ synced' = NoSchema
        /\ UNCHANGED <<nodes, fts, unique, addressed, version, shipped, process, uncovered>>

\* What the site calls after an import.
SyncRelationSchema ==
    /\ phase = "up"
    /\ Syncs(nodes, edges, schema)
    /\ edges' = Synced(nodes, edges, schema)
    /\ synced' = schema
    /\ UNCHANGED <<nodes, fts, unique, addressed, version, shipped, process, uncovered>>

RebuildSearch ==
    /\ phase = "up"
    /\ fts' = Rebuilt(nodes, schema)
    /\ uncovered' = Type \ schema.searchable
    /\ UNCHANGED <<nodes, edges, unique, addressed, version, shipped, process, synced>>

-----------------------------------------------------------------------------
Open == VerifyProfile \/ Migrate \/ Migrated \/ SyncEdges \/ SyncIndexes \/ Serve \/ Refuse

Next ==
    \/ Deploy
    \/ \E s \in Schema, f \in BOOLEAN : Start(s, f)
    \/ Open
    \/ Crash
    \/ \E t \in Type, x \in Text : CreateNode(t, x) \/ ImportNode(t, x)
    \/ \E n \in NodeId, x \in Text : PatchNode(n, x)
    \/ Cardinality(edges) < MaxEdge
       /\ phase = "up"
       /\ \E from, to \in NodeId :
            \/ \E f \in FieldsOf(schema) : AddEdge(f, from, to)
            \/ \E name \in FieldName : ImportEdge(name, from, to)
    \/ SyncRelationSchema
    \/ RebuildSearch

\* Open is a plain sequence of calls: it goes on as long as the process lives.
Spec == Init /\ [][Next]_vars /\ WF_vars(Open)

-----------------------------------------------------------------------------
(***************************************************************************)
(* What a start promises.                                                  *)
(***************************************************************************)

\* The sync finds row e for field f: it has the field's name, and its from end
\* the field's type.
BelongsTo(e, f) == f.name = e.field /\ f.type = nodes[e.from].type

\* The places in the Schema of the fields that may have set the flags of row e
\* last: the one it belongs to, and a later undirected one of the other end's
\* type, which has turned the row round if it was stored the other way.
Governors(e) ==
    {i \in DOMAIN schema.fields :
       LET f == schema.fields[i]
       IN  \/ BelongsTo(e, f)
           \/ /\ f.undirected /\ f.name = e.field /\ f.type = nodes[e.to].type
              /\ \A k \in DOMAIN schema.fields : BelongsTo(e, schema.fields[k]) => k < i}

FlagsAreOf(f, e) ==
    /\ e.single = f.single
    /\ e.symmetric = f.undirected
    /\ e.symmetric => e.from =< e.to

\* The flags of every row, on which the unique indexes and triggers rely, are
\* those of a served field it is a row of, whatever Schema it was stored under
\* and whatever types it joins, and an undirected row has one order; a row of
\* no served field has no flags.  A row may be of two fields when it joins two
\* types, see Governors.  An import that goes past the engine suspends this
\* until the next sync.
MetadataMatchesSchema ==
    phase = "up" /\ synced # NoSchema =>
        \A e \in edges :
            \/ \E i \in Governors(e) : FlagsAreOf(schema.fields[i], e)
            \/ /\ \A i \in DOMAIN schema.fields : ~ BelongsTo(e, schema.fields[i])
               /\ ~ e.single /\ ~ e.symmetric

\* Whatever Schema was in force when the rows were written, the constraints
\* of the served one hold for them: a field of kind ref reads one node at
\* most, from both ends of the edge and whatever the types of the nodes; the
\* fields of a unique constraint are distinct, and so are the addresses of
\* all addressable types together.  No dropped constraint survives.  A row
\* that may have the flags of another field too is left out.
ServedConstraints ==
    phase = "up" =>
        /\ unique = schema.unique /\ addressed = schema.addressable
        /\ Indexable(nodes, schema)
        /\ synced # NoSchema =>
             \A i \in DOMAIN schema.fields :
                LET f == schema.fields[i]
                    rows == {e \in edges : Governors(e) = {i}}
                IN  f.single =>
                      \A n \in Live(nodes) : nodes[n].type = f.type =>
                        \A d, e \in RefEdges(rows, n, f.name) : d = e

\* The index never says something that the node does not: through crashes,
\* migrations, and a type losing and regaining its searchable capability.
IndexNeverStale ==
    \A n \in NodeId : fts[n] # NoText => n \in Live(nodes) /\ fts[n] = nodes[n].text

\* A served searchable type is indexed completely, except when its nodes were
\* written while it was not searchable or past the engine, or when a start
\* that had migrated ended before it rebuilt the index.
IndexComplete ==
    phase = "up" =>
        \A n \in Live(nodes) :
            nodes[n].type \in schema.searchable \ uncovered => fts[n] = nodes[n].text

\* A database without the SQLite profile is not touched.
UnfitDatabaseUntouched == [][~ fit => UNCHANGED disk \/ phase = "down"]_vars

\* An edge that joins two types although an undirected field of that name
\* belongs to one of them.  The sync does not look at the other end's type:
\* it may turn such an edge round, and then no longer finds it as an edge of
\* the field's type.
CrossesTypes(e) ==
    /\ nodes[e.from].type # nodes[e.to].type
    /\ \E f \in FieldsOf(schema) :
         f.undirected /\ f.name = e.field /\ f.type \in {nodes[e.from].type, nodes[e.to].type}

\* Starting again with the Schema that the edges were last normalised for
\* changes no edge and is not refused on their account.
ReopenIsIdempotent ==
    phase # "down" /\ synced = schema /\ (\A e \in edges : ~ CrossesTypes(e)) =>
        Syncs(nodes, edges, schema) /\ Synced(nodes, edges, schema) = edges

\* A start ends: with an open engine, or with none.
StartEnds == (phase \in Opening) ~> (phase \in {"up", "down"})
=============================================================================
