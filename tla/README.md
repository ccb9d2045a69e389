# gcm in TLA+

This directory holds a TLA+ model of the gcm content engine: a Go library that
stores typed nodes and the references between them in SQLite, keeps a
full-text index and frontend accounts beside them, and serves them over HTTP.
`src/` below is the root of that repository.

    tlc -workers 2 -config GraphRelations.cfg MCNodeGraph.tla     # model-check
    tlapm NodeGraphProofs.tla                                     # prove

Every `.cfg` belongs to one MC module (section 3), every `*Proofs` module to
the module it is named after; `ListsAndTreesProofs` goes on where
`NodeReadsProofs` ends.

## 1. The system

| component | where | state | operations |
|---|---|---|---|
| node writes | `core/node_sql.go`, `node_delete.go`, `node_patch.go` | table `nodes` (type, display, revision, fields) | CreateNode, GetNode, PatchNode, DeleteNode |
| edges | `core/edge.go` | table `edges` | AddEdge, RemoveEdge, and the edges of a create or a patch |
| relation schema | `types/` | TypeDefs loaded from types.yaml, fixed for the life of an engine | Load, validate, ValidateFields, ValidatePatchFields |
| edge metadata, schema indexes | `core/edge_schema.go`, `schema_indexes.go` | flags of `edges`, partial unique indexes, triggers | SyncRelationSchema, syncSchemaIndexes |
| full-text index | `core/search.go` | table `nodes_fts` | Sync, Delete (hooks of the writes), Rebuild, Search |
| accounts | `core/auth.go`, `plugin/password` | tables `auth_methods`, `sessions` | RegisterAuth, AddAuthMethod, RemoveAuthMethod, CreateSession, ValidSession, DeleteSession |
| start | `core/service.go`, `migrate.go` | schema version | Open: migrate, sync metadata, sync indexes, rebuild |
| hook bus | `core/hook_bus.go` | ordered handlers by event | Define, AddHook, Fire |
| reads | `core/node_read.go`, `node_query*.go`, `policy.go`, `query/` | none | GetNodes, CountNodes, scopes merged with a query |
| graph reads | `core/tree.go`, `traverse.go`, `expand.go` | none | LoadTree, Traverse, Subtree, Ancestors, Expand |
| actors and masking | `web/actor.go`, `auth_realm.go`, `policy.go`, `mask.go` | per request: actor, principal, read rules | Actor, SetActor, Principal, MaskNode |
| admin | `web/admin.go` | table `accounts` with one session key each | login, logout, SetPassword |
| site, HTTP, rendering | `web/` | routes, templates | Open, Setup, Close |
| other plugins, tools | `plugin/`, `tools/` | files | backup, image derivatives, uploads |

How they interact. The web layer and the plugins call the `Engine` interface;
the engine calls SQLite. The node writes run in a transaction and fire hooks
inside it; the index is synchronised by such hooks. The foreign keys of edges,
credentials and sessions point at nodes and cascade. Request goroutines share
nothing but the database.

What is hard here:

- *Reads outside the transaction.* GetNode and the revision a client sends
  back; the row PatchNode and AddEdge read on the pool before they begin;
  every statement of `core/auth.go`. Between such a read and the write that
  relies on it anything may be committed.
- *Reused ids.* `nodes.id` is an `INTEGER PRIMARY KEY` without AUTOINCREMENT:
  the id of the last node comes back after its deletion.
- *Two ends of an edge.* An undirected edge is stored once and read from both
  ends, so cardinality, required fields and deletion have to look at both.
- *Second copies.* The index, and the flags on edges that the unique indexes
  and the triggers are built on.
- *Crashes*, between two statements of a registration and between the steps
  of a start.

What makes each part correct: no lost update and edges that exist, fit the
schema, hold their cardinality and order (node writes, edges); an index that
says what the nodes say (search); credentials and sessions that belong to the
node they were made for and end with it (accounts); after any crash a start
that leaves flags and index in agreement with schema and nodes (start); a walk
that finds exactly what is reachable within its bound (graph reads); a scope
that no query widens (policies); a password change that ends every session
(admin). `PROJECT.json` lists the hazards with their lines.

## 2. The modules

| module | models | used by |
|---|---|---|
| `RelationSchema` | the reference fields of a loaded Schema, with what its validation guarantees as assumptions | NodeGraph, NodeQuery |
| `EdgeTable` | the edges table: who reads a row, the unique indexes and the triggers | NodeGraph, EngineStart, NodeQuery |
| `Reachability` | the recursive query of wouldCreateCycle, as a least closed set | NodeGraph, NodeReads |
| `NodeGraph` | node writes, edges and the index projection | |
| `ReferenceStore` | the abstract store of references that NodeGraph implements | NodeGraph (INSTANCE) |
| `NodeAuth` | credentials and sessions | |
| `EngineStart` | Open, stage by stage, with crashes and changing Schemas | |
| `NodeQuery` | conditions, scopes, lists, counts, pages, search | NodeReads |
| `Traversal` | bounded walks, equivalence classes, trees | NodeReads |
| `Expansion` | Expand, and merge previews | NodeReads |
| `NodeReads` | the reads beside the writers | |
| `FieldValues` | defaults and validation of field values | ReadPolicy, WebSite |
| `HookBus` | AddHook and Fire | ReadPolicy, WebSite |
| `ReadPolicy` | read and write rules, masks | WebSite |
| `AdminAccounts` | the account of the back end and its sessions | WebSite |
| `WebSite` | requests of visitors and editors on one nodes table | |

`MCNodeGraph`, `MCNodeAuth`, `MCEngineStart`, `MCNodeReads` and `MCWebSite`
hold the constants for TLC. Proofs are in `NodeGraphProofs` (with the edges,
the cycles and the refinement of `ReferenceStore`), `NodeAuthProofs`,
`EngineStartProofs`, `HookBusProofs` (Fire and registration, for any
handlers), `WebSiteProofs` (which includes the account of `AdminAccounts`),
`NodeReadsProofs` (a read beside writers, scopes, relations, search, merge
preview, expansion) and `ListsAndTreesProofs` (pages, walks, trees);
`InductionLemmas` is the induction they use.

### NodeGraph

`nodes`, `edges` and `fts` are the three tables. A row keeps its type, its
revision and one abstract `text` that stands for display and scalar fields
(`Blank` is a text of which nothing is left to index). An edge keeps both
ends, its field name and the two flags of the database constraints; the sort
position is left out.

SQLite runs one write transaction at a time. A transaction that has read
before another one commits gets an error when it then tries to write, and the
code does not retry. So a transaction is one step: `CreateNode`,
`PatchCommit`, `AddEdgeCommit`, `RemoveEdge`, `DeleteNode`. The reads before
it are steps of their own: `GetNode`, `PatchRead`, `AddEdgeRead`; `pending`
holds what each client believes. `Abort` is a call that fails or is dropped at
any of these points, a crash of the process included: everything else is in
the database. Every guard comes from a check in the code or from a constraint
of the database, and each is an operator of its own (`TargetFits`,
`WouldCreateCycle`, `EdgeIsUnique`, `SingleRefIsFree`, `RevisionMatches`,
`AnotherEdgeIsLeft`, `IncomingReferences`).

The edges of one create or patch are inserted in one step although the code
inserts them one by one: they leave one node, each (field, target) occurs
once, and `deleteFieldEdges` has run for every patched field before the first
of them, so no insertion changes what another one meets.

Two history variables: `generation` counts the nodes an id has had, `crossed`
is the set of live nodes that a write prepared for an earlier node with the
same id has reached. Such a write is validated against the wrong type, and the
invariants exempt its node; `EdgeFitsSchemaAlways` is the invariant without
that exemption, and it fails (section 4).

### ReferenceStore

The promise of the write path without rows, flags, order of ends and
transactions: every live node has one set of nodes per field name. A write
changes the values of one node; a mirrored name follows at the other end; a
delete is possible only when nobody refers to the node, and changes nothing
else. `NodeGraph!RS` instantiates it: `live` is the set of ids with a row,
`value` is what `hydrateFields` would read for each field, and `Mirrored` the
names of undirected fields. Create, patch and delete map to Create, Write and
Delete, AddEdge and RemoveEdge to a Write, the reads to stuttering.

### NodeAuth

Each statement of `core/auth.go` is a step: RegisterAuth is
`RegisterFind`, `RegisterNode`, `BindMethod`; AddAuthMethod is `AddRead`,
`AddFind`, `BindMethod`; RemoveAuthMethod is `RemoveCount`, `RemoveDelete`; a
login is `LoginFind`, `SessionCheck`, `CreateRead`, `SessionInsert`;
ValidSession is `SessionRead`, `SessionSettle`. `RegisterNode` is a step
although it stands inside the callback of a transaction, because CreateNode
commits a transaction of its own on the pool. What the database guarantees is
in the guards of the inserts (`Bindable`) and in the cascades of `DeleteNode`.
`CreateNode` and `DeleteNode` are those of the node API without the fields and
edges, which this module does not need. `Tick` lets half a session lifetime
pass. A realm is identified with its node type.

### EngineStart

`phase` is the next stage of Open (`profile`, `migrate`, `edges`, `indexes`,
`search`) or its end (`up`, `down`). Each stage commits on its own and is one
action: `VerifyProfile`, `Migrate` (one migration each) and `Migrated`,
`SyncEdges`, `SyncIndexes`, `Serve` (with the rebuild when a migration was
applied). `Refuse` is a stage that reports an error, `Crash` the end of the
process between any two steps; both lose `process` and keep `disk`. `Deploy`
ships one more migration, `Start` begins with any Schema, on a connection
that may lack the SQLite profile. Between two starts the open engine writes
(`CreateNode`, `PatchNode`, `AddEdge`), imports go past the engine
(`ImportNode`, `ImportEdge`), and an operator may call `SyncRelationSchema`
or `RebuildSearch`. `SyncEdges` computes what `syncFieldEdgeMetadata` leaves
field after field in the order of the Schema, since two types may use one
name; where two rows become one it fails, as the code does. `CardinalityHolds`
counts ends, as the query after the sync does: a self-loop of a single
undirected field is two and refuses the start. `SyncIndexes` creates the
declared unique indexes and the one over the addresses of all addressable
types together (`AddressesDistinct`); `RowIsUnique` is what a later write
meets in both. The one `text` of a node stands for the unique fields and for
the address; `EmptyText` is the address that the index does not hold.

A stored row can be a row of two fields of one name when it joins two types
and one of the fields is undirected: the sync looks at the type of the from
end, and restoring the order may turn the row round, so that it is no longer
found as a row of the first. `Governors` gives the fields that may have set
the flags of a row last. `MetadataMatchesSchema` is about every row: its flags
are those of one of its governors, or none are set when no field is its own.
`ServedConstraints` says that a single field, to whatever type it leads, reads
one node at most in the rows which it governs alone.

Two history variables say what the properties may not ask: `synced` is the
Schema of the last edge sync (none after an import), `uncovered` the types
whose nodes nobody has indexed by design: they were written while the type
was not searchable, or imported, or a start that had migrated ended before its
rebuild. The last is a fact about the code: the next start finds no migration
to apply and does not rebuild.

### NodeQuery, Traversal, Expansion, NodeReads

`NodeQuery` has a condition as a record and two functions of it: whether it
compiles against a type (`Compiles`, with the limits of the compiler) and what
it selects (`Truth`, in SQL's three-valued logic). The conditions come from
the constant `Expr`, a set that holds the parts of each of its members. The
compiler refuses a condition that is nested deeper than `MaxFilterDepth`, so
both functions are computed level by level, as many `Levels` as the compiler
descends. `Effective` merges a policy scope with the caller's condition as
`core/policy.go` does. Lists and pages are every order that the sort keys
allow, as SQLite promises no more. `Hits` is the search with its three levels:
the whole phrase, all tokens that some document has, any token. `Traversal`
computes the recursive queries as sets of paths with the bound on hops and the
check for revisited nodes, and the trees of `tree.go` in memory. The walks
down such a tree are recursions: `Returns` says when one ends, `Below` what it
has collected then. `Expansion`
has one Expand segment (edges, limit, targets, grouping, attaching) and the
merge preview.

`NodeReads` puts them beside writers. `GetNodes`, `Hydrate`, `ReadEdges` and
`ReadTargets` are the statements of one read with an expansion; `reader` keeps
its progress and the heap of loaded copies (an expansion attaches values to
copies, and two paths that begin alike load twice). The writers are those of
NodeGraph in one step each, and `ImportEdge`, which skips the check for
cycles. Reads of one statement are checked as state predicates.

What the properties of the reads leave out, and why. The recursive queries
follow a field by its name, whatever the type of the row. So `Subtree` is
compared with `Traverse` from every row, rows of other types too, and a tree in
memory (which holds one type) agrees with the queries only where no other type
uses the name. `SubtreeIDs` and `Subtree` notice no cycle: for a node that an
import has made an ancestor of its own they do not return, for every other
node they do, and so does `JsonNodes`, which starts at the roots;
`TreesAgreeWithWalks` says exactly that, and the rest of it is about trees
without a cycle. `ReadFailsForAReason` lists the reasons for which a read may
fail on data that a write has been let through: the limit, a segment that does
not resolve, a field name that two types use for the same target, an id that
passed to another type while the read ran. `ExpansionIsExact` says nothing of
a path that begins like a later one: Expand loads the common segment again and
replaces what the earlier path hung below it.

### HookBus, ReadPolicy, FieldValues, WebSite, AdminAccounts

`HookBus!Fire` runs all handlers in order; it goes on after an error, keeps
the first one, and a panic ends it. `ReadPolicy` has a handler as a
record (by kind of actor: to what it narrows, what it hides or allows, what it
sets, how it ends) and models how rules of one event are combined and used to
filter, mask and check. `FieldValues` has defaults, the
validation of whole and of patched values, and the merge of a patch.

`WebSite` runs a request of the node API or of a site's handler call by call:
`GetNode`, `CheckVisible`, `ExpandAndMask` for a view, `CountNodes`,
`GetNodes` for a list, `Search`, `FindByPath` or `FindById`, `FireCreate` or
`FireChange`, the commit and `ReadBack` for a write. `EarlyRule` and
`SetActor` are middlewares. A request's record holds what it has read and
cached: node, actor, principal and rules. A visitor's patch carries any
revision of the constant `Revision`: none (0), one the row has, one it had, or
one it has yet to reach; the engine refuses 0 and any other than the row's.
The references of a node are read when it is expanded (`References`), which
may show another target than the row that was read before, and fails when the
target is not of the field's type. Editors write with the revision they
have, without rules. The account is that of `AdminAccounts`: a login verifies
and then stores its key in two steps, and so does a change of password. `past`
is history: the tables there have been since the request began. The nodes of
visitors' sessions come from NodeAuth, here as `sessions` with the cascade of
a deletion.

### Slips

A definition whose comment begins with "Slip" is no part of the model. It is a
plausible mistake in the definition below it (a missing check, a swapped end,
`count < 1` for `count <= 1`). For each checked property `PROJECT.json` names
one slip that breaks it: the property is shown to depend on that line of the
code.

## 3. The runs

| run | MC module, cfg | instance | shows |
|---|---|---|---|
| `graph_relations` | MCNodeGraph, GraphRelations | 3 ids, 2 revisions, 2 generations, 1 client; article(author single required, links transitive), person(parent of a tree) | types, no dangling edge, edges fit the schema, no cycle, required fields filled |
| `graph_clients` | MCNodeGraph, GraphClients | 2 ids, 3 revisions, 2 generations, 2 clients, 2 texts (one blank); the same schema without links | no lost update, exact index |
| `graph_undirected` | MCNodeGraph, GraphUndirected | 3 ids; person(partner single symmetric, peers equivalence) | a relation is stored once, one partner at either end, NodeGraph implements ReferenceStore |
| `auth` | MCNodeAuth, Auth | 2 ids, 2 generations, 2 requests, 2 credentials, 1 token, one auth type of two | credentials fit their node and never move, no inherited login, ended sessions stay ended |
| `engine_start` | MCEngineStart, EngineStart | 2 nodes, 2 edges, 2 texts (one empty), 2 migrations (the second empties the index), 3 Schemas | an opened engine has the flags, unique indexes, addresses and search index of its Schema, whatever earlier starts left; a start ends |
| `reads` | MCNodeReads, NodeReads | 3 nodes, 3 edges, 1 write during a read, limit of 2 edges, pages of 1 to 3 rows | every read against a reference definition, expansion beside writers; a read ends |
| `site` | MCWebSite, WebSite | 3 ids, 3 revisions (`MaxEdited`: 2 when a request begins or an editor writes), patches with revision 0, 1 or 2, 2 writes during a request; three sites; a visitor next to an editor, or two browsers of the back end | answers and writes obey the rules, stored fields stay valid, a password change ends sessions |
| `graph_shared_name`, `graph_id_reuse`, `auth_register`, `auth_last_method`, `reads_related` | GraphSharedName, GraphIdReuse, AuthRegister, AuthLastMethod, NodeReadsRelated | see section 4 | counterexamples |

Why the bounds are enough.

*Graph.* Three nodes are the fewest with a cycle that is not a two-cycle, with
a trigger conflict that neither unique index sees (a-b, b-c), and with a
reference beside the deleted one. Two generations are the fewest in which an
id is reused. A patch needs two revisions. A lost update needs three (two
patches that both start from the first, the second of which still has to fit
under the bound) and two clients.

*Accounts.* One token is enough since sessions do not interact; two
credentials are needed to unbind one; two types are needed for a credential on
the wrong one. Clients (and credentials) are symmetric.

*Start.* Two migrations, so that a crash may fall between them; two types that
share a field name, since the sync goes by name and then by type; Schemas
between which a field changes its target, its cardinality and its symmetry and
a type gains and loses its unique index, its addresses and its place in the
index. In them a field is single, directed and leads to the other type, then to
its own, then is undirected; a self-loop stored under one is met by the next.
Two edges are the fewest that become one, or that share a single end.

*Reads.* Three nodes have all trees, cycles and classes that differ in more
than their length. Conditions and scopes are a sample: one of each kind of the
query language, nested at most once. The three requests have a single and an
undirected field side by side, a nested path whose first segment a later path
loads again, and the incoming directions. One write falls anywhere in a read;
longer sequences are out of the bound.

*Site.* Two persons whom nobody can delete (they refer to each other) and a
page. So a principal never vanishes during a request; NodeAuth covers the end
of sessions. A request meets at most two other writes, enough for its id to be
deleted and given to a node of either type, and at most one call of SetActor.
`MaxRevision` is 3 and `MaxEdited` 2: a row at revision 1 can be brought to 2 by
an editor during a request and the visitor's own patch still fits under the
bound, also when its client had sent a 2 from the beginning.
The three sites are: no rules; rules for members; handlers that narrow in
turn, fail or panic. Visitors and the account do not interact, so they are
never active together.

Deadlock is checked in `auth`, `engine_start` and `reads`. The graph and site
runs set `CHECK_DEADLOCK FALSE`: once ids, generations and revisions are used
up nothing is left to do, and only the bounds are responsible.

What the properties leave out, because the code does not give it.
`NoLostUpdate` exempts a patch whose id has been given to
another node since the read: a new node starts at revision 1 again, and the
client's revision may fit by chance. `WritesObeyRules` asks of every write that
the rule agreed about the row as it was at some moment of the request. Of an
update it asks more, that the rule agrees about the row as it is written,
unless the id was given away meanwhile, or the patch carries a revision that
the row had not reached when it was looked up (`Reached`): `web/api.go:146`
fires the rule on the row it finds, `core/node_sql.go:277` compares the row it
writes with what the client sent, so with an editor's write in between a client
that sends revision 2 for a row at 1 changes a row that its rule has not seen.
`docs/migration-v0.9.md:20` wants the revision that was read with the node, and
nothing checks that it was. `RepliesObeyRules` exempts a request in
which SetActor has replaced an actor whose principal was already loaded
(`Impersonated`): `web/actor.go:96` keeps the principal, and the rules go on
with the old one. `PasswordChangeEndsSessions` exempts a login that verified
the old password before the change and stored its key after it (`raced`).
`CredentialFitsNode` exempts a key whose insert found its id at another node.
`IndexComplete` exempts the types in `uncovered`. `ServedConstraints` leaves out
the rows with more than one governor, and `ReopenIsIdempotent` is said of tables
without edges that join two types under the name of an undirected field of one
of them (`CrossesTypes`): the sync may turn such a row round, so a second sync
may see it as another field's. `ExpansionIsExact` leaves out what `IsOwn` names.
In `PROJECT.json` the hazards behind these exemptions carry a note.

*Fairness.* The graph, account and site modules have none: they have no
background work, a call either returns or fails, and the code waits for
nothing but the database. `EngineStart` has `WF_vars(Open)` and `NodeReads`
`WF_vars(Read)`: Open and Expand are plain sequences of calls on one
goroutine, so as long as the process lives the next call is made. Nothing else is
fair: no writer, no deployment, no restart has to happen. `StartEnds` says that
a start reaches an open engine or none, `ReadEnds` that a read is answered.

## 4. Where code and documentation disagree

- `graph_shared_name`: `deleteFieldEdges` selects by node and field *name*.
  If person.peers is symmetric and article.peers is a required reference to
  person, patching a person's peers deletes the article's edge. ADR 004 (line
  126) says a required ref is not empty after Create and Patch.
- `graph_id_reuse`: AddEdge and PatchNode look up the type before their
  transaction. If the id changes hands in between, the write is validated
  against the wrong type. The comment on AddEdge calls the reference
  schema-validated.
- `auth_register`: the node of RegisterAuth is committed before the credential
  is inserted. The comment says it happens atomically.
- `auth_last_method`: count and delete are two statements without a
  transaction. The comment says one method is retained.
- `reads_related`: for a directed reference, `compileExists` and
  `compileRelated` bind the field name but compare it with nothing
  (`node_query_compile.go:329` and `:376`): any edge that leaves the node
  counts. The comments in `query/ast.go` speak of the named relation. The
  undirected branches and `compileIn` do restrict the field;
  `RelationsReadTheirField` holds of those.

## 5. The proofs

`tlapm` proves, for every schema that satisfies `SchemaAssumption`, every set
of clients, texts, credentials, tokens, browsers, every set of conditions and
requests, and every bound:

| theorem | property | argument |
|---|---|---|
| `NodeGraphProofs!Typing` | TypeOK | with `LiveIsGenerated` (a live node has been created once): what a client notes of a node it has read then has a generation of at least 1 |
| `EdgesHaveEnds` | NoDanglingEdge | inductive given the types: inserts demand both ends, deletes take all edges of the node along |
| `IndexFollowsNodes` | IndexExact | inductive given the types |
| `NoUpdateIsLost` | NoLostUpdate | from `HeldArePast`: a held row of the current generation has at most the current revision, and with the same revision is the current row |
| `EdgesFitSchema` | EdgeFitsSchema | from `ReadsArePast`: a type read for the current generation is the type of the row; `OldEdgeFits` says that writes elsewhere do not disturb an edge, `NewEdgeFits` that an inserted one fits |
| `StoredOnce` | UndirectedStoredOnce | `ConstraintsHold`: any two rows are compatible (the key and the single reference), and a symmetric row has its ends in order |
| `SingleRefs` | SingleRefHeld | the same invariant with EdgesFitSchema, which says that flags and schema agree |
| `RequiredStaysFilled` | RequiredFilled | under `RequiredIsDirected`: no undirected field has the name of a required one, so nobody deletes a node's required edges from the other end |
| `RelationsAreAcyclic` | NoRelationCycle | a write adds a star of edges around one node, each checked against the old edges; `StarKeepsAcyclic` shows that together they close no cycle, by the sets reachable before; undirected equivalences are stored upwards |
| `EdgesImplementReferences` | ImplementsReferenceStore | under `NamesAgree`: a name is undirected in all types or in none. `FlagsFit`: a row's flag follows its name; `OthersFollow`: a change of rows at one node changes other nodes' values as `Mirror` says |
| `NodeAuthProofs!Typing` | TypeOK | as above |
| `NoInheritedLogin` | NewNodeStartsClean | from `RowsHaveNode`: every credential and session refers to a live node |
| `CredentialsFit` | CredentialFitsNode | from `BindingsArePast`: a pending binding of the current generation knows the type of its node |
| `EndedIsFinal` | EndedSessionStaysEnded | a token's insert demands it was never issued, a renewal that its row is there |
| `KeyStaysWithNode` | CredentialNeverMoves | the unique key is looked at by the insert, not by the lookup before it |
| `EngineStartProofs!Typing` | TypeOK | with the versions: a start applies the migrations above the stored one, each once |
| `UnfitIsUntouched` | UnfitDatabaseUntouched | the profile is asked for before anything is written |
| `IndexTellsNoLies` | IndexNeverStale | a row of the index is written in the transaction of its node, or by a rebuild |
| `IndexCovers` | IndexComplete | while the engine serves, a node that the index lacks was written past it, or its start ended before the rebuild |
| `MetadataFits` | MetadataMatchesSchema | induction over the fields: after k of them the flags of every row, whatever types it joins, are those of one of its governors among the first k, and a later field changes them only by becoming one |
| `ConstraintsAreServed` | ServedConstraints | the sync, the triggers and the unique indexes refuse rows that break them, and stay; a row with one governor has its flags |
| `ReopeningIsIdempotent` | ReopenIsIdempotent | by the same induction: on edges that fit, every reset finds what the restore puts back |
| `WebSiteProofs!SiteTyping` | TypeOK | `TypeInv`: the fields of each request, the calls its operation makes, the tables of its past |
| `StoredFieldsStayValid` | StoredFieldsValid | a create validates all fields; a patch validates its own, the rest were valid, and an id that is referred to is not deleted |
| `RepliesAreReadable` | RepliesObeyRules | `ReplyInv`, below |
| `WritesAreAllowed` | WritesObeyRules | `WriteInv`, below |
| `ChangeEndsSessions` | PasswordChangeEndsSessions | from `KeyIsOfPassword`: the key in the account was issued for the present password, or is in `raced`; the steps of visitors leave the account as it is |
| `NodeReadsProofs!TablesFit` | (`TablesOK`) | whatever is written or imported, an edge fits a field at both ends and any two edges keep the constraints |
| `ReadInvariant` | (`ReadInv`) | below |
| `TypeCorrect` | TypeOK | from `ReadInv` |
| `NothingInvented` | NothingIsInvented | from `ReadInv`: all pairs and all entries of the heap are joined by an edge that has been seen |
| `FailsForAReason` | ReadFailsForAReason | from `ReadInv`; of two values for a single field, or of a target of the wrong type, the constraints leave only a reused id or name as the cause |
| `RelationsAgree` | RelationsReadTheirField | of tables that fit: the declared algebra and the stored flag of an edge agree, and one name of one type is one field |
| `SearchFinds` | SearchFindsWhatIsVisible | of all databases: a token of a shown document is present, and a phrase of one token is that token |
| `MergePreview` | MergePreviewLosesNothing | of all databases |
| `ScopeNeverWidened` | ScopeIsNeverWidened | `TruthOfAnd`: a conjunction is true where both parts are, in three-valued logic and at any depth; a tree shows nodes it has loaded |
| `ExactInvariant` | (`ReadInv` and `ExactInv`) | below |
| `ExpansionExact` | ExpansionIsExact | from `ExactInv` |
| `ListsAndTreesProofs!PagesPartition` | PagesPartitionMatches | with the id among them the keys order rows strictly and totally, and a finite set has one sequence in such an order; so separate statements page through the same one |
| `WalksReach` | WalksMatchReachability | each node within the hops has a shortest path, and a shortest path visits no node twice, so the check for revisited nodes drops nothing; Subtree by reversing paths; classes since more hops than nodes find nothing new |
| `TreesAgree` | TreesAgreeWithWalks | a node has one parent at most, so on a finite set of nodes that each have a child in it the choice of one is a bijection: such a set has no root and is made of cycles (`EndlessIsCycle`), and the ancestors of a node on a cycle are such a set; the way up is one chain; without a cycle its nodes are distinct and it ends at a root, and root, subtree and ancestors are all said of that chain |

`HeldArePast`, `ReadsArePast`, `BindingsArePast` are needed because the
properties speak of a step that relies on an earlier read, and say nothing of
the states between the two. `EdgeFitsSchema` would not be inductive without
`ReadsArePast`, since the insert checks the field of the type it was told.
`SingleRefHeld` speaks of fields, the constraints of the database speak of
rows: it is not inductive without `ConstraintsHold`.

`RequiredIsDirected` and `NamesAgree` are what `graph_shared_name` shows to be
necessary.

**The hook bus.** `Fire` and the registration of handlers are recursive
functions over a sequence. `HookBusProofs` proves, for any `Call`, their
equations and that an event ends well only if every handler was called and
agreed. `WebSiteProofs` instantiates it twice, for read and for write events,
and derives what each makes of its arguments: a filter with a clause for each
handler that narrows, and fields in which each name has the value of the last
handler that sets it. `MayRead`, `Entitled` and `FieldsObey` state the same
without bus and order, so the theorems say that the two agree.

**`ReplyInv`.** A request that is served in several calls reads the rule once
and keeps it (`WithRule`), while the table changes under it, and the actor may
be loaded, or be exchanged by SetActor, after the first rule is in the cache. The
invariant says that every cached rule is sound for the request's present actor:
what it lets through, `MayRead` lets through. A rule asked for before there is
an actor is cached only where the type has no handlers. It also says that what a
view has read but not yet expanded was readable in some table of `past`, and
that a write without a rule of its type goes nowhere but to its refusal. From
there the mask, which comes last, removes what `HiddenBy` names.

**`WriteInv`.** Gate and commit are two calls. At the commit the rule
has agreed about *some* row that the request has seen; the property speaks of
the row that is written. `HistoryKept` connects them: of an id that was never
free since the request began, the type is fixed, revisions only grow, and equal
revisions mean equal rows. The commit demands the submitted revision. If the row
had reached it when it was looked up, the row that the rule saw has at least
that revision and at most that of the row written, so the two are one
(`ChangeAgreed`). If the client has made the revision up, nothing connects
them, and what is proved is that the rule agreed about the row the request saw.
A delete has no revision and gets that weaker promise. Where the id was free
meanwhile, it may have passed to a node of another type. Of a patch and a
delete the property then says that the rule of the type first read has agreed
about a row of that id, which need not be of that type any more: `web/api.go`
compares the type, then fires its rule, whose handlers read the row again, and
the engine patches by id and revision and deletes by id alone. A clause that
also compared the types was the first attempt, and is not inductive; what the
code does not promise has been left out of it. The run `site` allows two writes
by others during a request, so that an id can be freed and given to a node of
the other type between gate and commit.

**`ReadInv` and `ExactInv`.** A read is several statements, and what one has
loaded may be gone when the next runs. So `ReadInv` relates the reader not to
the tables but to `seen`, every edge and row there has been since it began:
the nodes of the batch were rows of the type that the path has come to, the
pairs are joined by a seen edge, an entry of the heap likewise, and a failed
read has its reason in `seen`. `NothingIsInvented` alone is not inductive,
since it is about answers, and the pairs between two statements are not part
of one yet. `ExactInv` speaks of a read beside which nobody has written. The
rows seen are then the rows of the table; each copy on a done path has exactly
the values of its reference; the current path is exact up to the segment, and
its batch is all that the path reaches so far. Every load makes new copies, so
storing the values of a batch cannot disturb a path that is done, except one
that begins alike, whose roots it shares.

**Levels.** `Compiles`, `Truth`, `Below`, `Under`, `Within` and the paths of
the recursive queries are functions of a level, not RECURSIVE operators.
`NodeReadsProofs` and `ListsAndTreesProofs` prove for each the equation that
gives level k from level k - 1, by induction on the number of levels, and then
what the operator is for: `TruthOfAnd`, `BelowStays`, `UnderPrefix`,
`WithinIsLeast`, `PathsIs`, `WithinSaturates`, `ChainReachesRoot`.

**Hypotheses and assumptions.** The theorems of `WebSiteProofs` have the
hypothesis `NoneAreRecords`: the values that stand for no row and no request
have no field. It is a hypothesis because TLC cannot evaluate the domain of a
model value. `RequestAssumption`, `SiteAssumption` and `StartAssumption` say
that the sentinels are different from ids, that handlers come in sequences and
read rules narrow by the conditions of the model, and that the site starts
from a table of valid rows; TLC evaluates them on the run `site`.

The theorems about reads rest on three assumptions, which TLC evaluates on the
run `reads`. `ExprAssumption`: conditions hold their parts, and no field of
the model offers the comparisons of text, which `Truth` leaves out.
`LimitAssumption`: the limits of an expansion are numbers. `ReadsAssumption`:
ids are a finite set of numbers, scalars are numbers, a sort is a sequence of
column and direction, each condition with its scope is in `Expr`, and `Tree`
is the field of `Listed` that the tree capability of the type names as its
parent (`types/capability.go:149`).

**Induction.** The library's induction theorems take an operator as a
parameter and cannot be used. `InductionLemmas!InductionOn` is induction over
a *set* of naturals instead, proved from the least element of a set; with it
what a recursive function computes can be proved for every length. No module
declares a RECURSIVE operator, on which the prover has no backend.

Only model-checked: `StartEnds` and `ReadEnds`, which are liveness under
fairness. The prover has no rules for that, nor for ENABLED. Every other
property of a passing run has its theorem. The properties of section 4 fail,
so there is nothing to prove of them.

## 6. What is not modelled

- *Formats*: the scalar kinds' own validation and conversion, composite
  fields, constraint groups, sort positions of edges, the text of SQL, the
  Lisp reader of `query/lisp.go`, the loading of types.yaml, ranking and
  bigrams of the search, JSON, cookies.
- *Rendering and routing*: `web/render.go`, templates, host selection, debug
  output, the pages, lists and uploads of the back end.
- *Settings*: upserts and deletes of one row by key; nothing relates two.
- *Plugins other than the password login* (backup, image derivatives, storage,
  sitemap, CORS, highlighting) and the *legacy time tool*: files and
  third-party services behind thin wrappers. The hazard of derived images
  written in place is listed, and is a matter of the file system.
- Nodes that an application's own hooks add to a transaction; rows
  written past the engine are modelled in EngineStart and NodeReads only.
- A login whose node id changes hands between `LoginFind` and the insert of
  the session is possible in NodeAuth; no property follows it.

## 7. What may come next

A property of NodeAuth about the origin of a session across a reused id.
Comparisons of text, and with them a second scalar field. What `exists` and
`related` of a directed relation do promise (some edge leaves the node), should
the comments be changed and not the code.
