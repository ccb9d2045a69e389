------------------------- MODULE EngineStartProofs --------------------------
(***************************************************************************)
(* Proofs about EngineStart, for any Schemas, numbers of nodes, edges and  *)
(* migrations.                                                             *)
(*                                                                         *)
(* The edge sync works through the fields of the Schema one after another, *)
(* so what it leaves behind is shown by induction over the fields, and the *)
(* first lemmas are about SyncedUpTo.  The invariants speak of the Schema  *)
(* of the last sync rather than of the served one: edges keep fitting it   *)
(* while the process is down and while another start is on its way.        *)
(***************************************************************************)
EXTENDS EngineStart, InductionLemmas, TLAPS

-----------------------------------------------------------------------------
(***************************************************************************)
(* The vocabulary of the invariants.                                       *)
(***************************************************************************)
\* A row as the reset at the start of the sync leaves it.
Bare(e) == [e EXCEPT !.single = FALSE, !.symmetric = FALSE]
Cleared(E) == {Bare(e) : e \in E}

\* The sync of field f selects row e.
Owns(N, e, f) == f.name = e.field /\ f.type = N[e.from].type

\* CrossesTypes, for the Schema of the last sync.
Crosses(N, s, e) ==
    /\ N[e.from].type # N[e.to].type
    /\ \E f \in FieldsOf(s) :
         f.undirected /\ f.name = e.field /\ f.type \in {N[e.from].type, N[e.to].type}

\* The flags and the order of a row are those of its field among the first i
\* of the Schema; without such a field both flags are reset.
FlagsFitUpTo(N, s, i, e) ==
    /\ \A j \in 1 .. i : Owns(N, e, s.fields[j]) => FlagsAreOf(s.fields[j], e)
    /\ (\A j \in 1 .. i : ~ Owns(N, e, s.fields[j])) => ~ e.single /\ ~ e.symmetric

\* One of the first i fields, undirected, belongs to the type of the to end and
\* has turned the row round; no later one among them finds it at its from end.
TurnedUpTo(N, s, i, e) ==
    \E j \in 1 .. i :
        /\ s.fields[j].undirected /\ s.fields[j].name = e.field /\ s.fields[j].type = N[e.to].type
        /\ FlagsAreOf(s.fields[j], e)
        /\ \A k \in 1 .. i : Owns(N, e, s.fields[k]) => k < j

FlagsFit(N, s, e) == FlagsFitUpTo(N, s, Len(s.fields), e)
Turned(N, s, e) == TurnedUpTo(N, s, Len(s.fields), e)

\* The unique constraint of the table.
KeysAreUnique(E) ==
    \A d, e \in E : d.from = e.from /\ d.field = e.field /\ d.to = e.to => d = e

\* CardinalityHolds, for rows that are both directed or both undirected.
CardinalityFits(E) ==
    /\ \A d, e \in E :
         /\ d.single /\ e.single /\ d.field = e.field /\ d.symmetric = e.symmetric
         /\ Owners(d) \cap Owners(e) # {}
         => d = e
    /\ \A e \in E : e.single /\ e.symmetric => e.from # e.to

-----------------------------------------------------------------------------
(***************************************************************************)
(* The inductive invariants.                                               *)
(***************************************************************************)
TypeInv ==
    /\ TypeOK
    /\ phase = "down" <=> schema = NoSchema

\* The index covers every type but the uncovered, except while a start that
\* has migrated has yet to rebuild it.
Covered ==
    /\ ~ (phase \in Opening /\ applied) =>
         \A n \in Live(nodes) : nodes[n].type \notin uncovered => fts[n] = nodes[n].text
    /\ phase = "up" => Type \ schema.searchable \subseteq uncovered

\* Without the profile a start does not pass its first stage.
UnfitIsAtProfile == ~ fit => phase = "profile"

\* A unique index that exists holds, of whatever Schema it is.
UniqueHolds ==
    /\ \A t \in unique : Distinct(nodes, t)
    /\ AddressesDistinct(nodes, addressed)
    /\ phase \in {"search", "up"} => unique = schema.unique /\ addressed = schema.addressable

\* Rows join live nodes under keys of their own and fit the Schema of the
\* last sync, which is the served one from the sync on.
EdgesFit ==
    /\ \A e \in edges : {e.from, e.to} \subseteq Live(nodes)
    /\ KeysAreUnique(edges)
    /\ phase \in {"indexes", "search", "up"} => synced \in {schema, NoSchema}
    /\ synced # NoSchema =>
         /\ \A e \in edges : FlagsFit(nodes, synced, e) \/ Turned(nodes, synced, e)
         /\ CardinalityFits(edges)

-----------------------------------------------------------------------------
(***************************************************************************)
(* The edge sync.                                                          *)
(***************************************************************************)

\* The recursive function satisfies its equation: a function that does exists
\* on every 0 .. n, one number after another.
LEMMA SyncedUpToDef ==
    ASSUME NEW N, NEW E, NEW s, s.fields \in Seq(RefField)
    PROVE  SyncedUpTo(N, E, s) =
             [i \in 0 .. Len(s.fields) |->
                IF i = 0 THEN Cleared(E)
                ELSE FieldSynced(N, SyncedUpTo(N, E, s)[i - 1], s.fields[i])]
<1> DEFINE L == Len(s.fields)
           Step(g, i) == IF i = 0 THEN Cleared(E) ELSE FieldSynced(N, g[i - 1], s.fields[i])
           Some(n) == \E g : g = [i \in 0 .. n |-> Step(g, i)]
           Good == {n \in 0 .. L : Some(n)}
<1>0. L \in Nat
  OBVIOUS
<1>1. 0 \in Good
  <2> DEFINE g == [i \in 0 .. 0 |-> Cleared(E)]
  <2>1. g = [i \in 0 .. 0 |-> Step(g, i)]
    OBVIOUS
  <2>2. Some(0)
    <3> HIDE DEF g
    <3> QED BY <2>1
  <2> HIDE DEF Some
  <2> QED BY <2>2, <1>0
<1>2. ASSUME NEW n \in 1 .. L, n - 1 \in Good
      PROVE  n \in Good
  <2>1. PICK g : g = [i \in 0 .. n - 1 |-> Step(g, i)]
    BY <1>2
  <2> DEFINE h == [i \in 0 .. n |-> IF i = n THEN FieldSynced(N, g[n - 1], s.fields[n]) ELSE g[i]]
  <2>2. \A i \in 0 .. n : h[i] = Step(h, i)
    <3> TAKE i \in 0 .. n
    <3>1. CASE i = n
      BY <3>1
    <3>2. CASE i # n
      <4>1. i \in 0 .. n - 1
        BY <3>2
      <4>2. h[i] = g[i] /\ g[i] = Step(g, i)
        BY <2>1, <3>2, <4>1
      <4>3. i # 0 => h[i - 1] = g[i - 1]
        BY <4>1
      <4> QED BY <4>2, <4>3
    <3> QED BY <3>1, <3>2
  <2>3. h = [i \in 0 .. n |-> Step(h, i)]
    BY <2>2
  <2>4. Some(n)
    <3> HIDE DEF h
    <3> QED BY <2>3
  <2> HIDE DEF Some
  <2> QED BY <2>4
<1>3. L \in Good
  <2> HIDE DEF Good
  <2>1. \A k \in 1 .. L : k - 1 \in Good => k \in Good
    BY <1>2
  <2> HIDE DEF L
  <2>2. 0 .. L \subseteq Good
    BY <1>0, <1>1, <2>1, InductionOn
  <2> QED BY <2>2, <1>0
<1>4. Some(L)
  BY <1>3
<1> QED
  BY <1>4 DEF SyncedUpTo, Cleared, Bare

\* The equation in its two cases.
LEMMA SyncedUpToSteps ==
    ASSUME NEW N, NEW E, NEW s \in Schema
    PROVE  /\ Len(s.fields) \in Nat
           /\ SyncedUpTo(N, E, s)[0] = Cleared(E)
           /\ \A i \in 1 .. Len(s.fields) :
                /\ i - 1 \in 0 .. Len(s.fields)
                /\ s.fields[i] \in RefField
                /\ SyncedUpTo(N, E, s)[i] = FieldSynced(N, SyncedUpTo(N, E, s)[i - 1], s.fields[i])
<1>1. s.fields \in Seq(RefField)
  BY SchemaAssumption DEF SchemaAssumption
<1>2. SyncedUpTo(N, E, s) =
        [i \in 0 .. Len(s.fields) |->
           IF i = 0 THEN Cleared(E)
           ELSE FieldSynced(N, SyncedUpTo(N, E, s)[i - 1], s.fields[i])]
  BY <1>1, SyncedUpToDef
<1>3. Len(s.fields) \in Nat /\ \A i \in 1 .. Len(s.fields) : s.fields[i] \in RefField
  BY <1>1
<1> QED
  BY <1>2, <1>3

\* The reset changes the flags and nothing else.
LEMMA ClearedFields ==
    ASSUME NEW E \in SUBSET Edge
    PROVE  \A e \in E :
             /\ Bare(e) \in Edge
             /\ Bare(e).from = e.from /\ Bare(e).field = e.field /\ Bare(e).to = e.to
             /\ ~ Bare(e).single /\ ~ Bare(e).symmetric
  BY DEF Edge, Bare

\* What a field makes of a row: its flags, and an order of the ends.
LEMMA NormalisedFields ==
    ASSUME NEW f \in RefField, NEW e, e.from \in NodeId, e.to \in NodeId, e.field \in FieldName
    PROVE  LET n == Normalised(f, e)
           IN  /\ n \in Edge
               /\ n.field = e.field
               /\ n.single = f.single /\ n.symmetric = f.undirected
               /\ n.symmetric => n.from =< n.to
               /\ \/ n.from = e.from /\ n.to = e.to
                  \/ f.undirected /\ n.from = e.to /\ n.to = e.from
<1>1. e.from \in Int /\ e.to \in Int
  BY StartAssumption DEF NodeId, StartAssumption
<1> QED
  BY <1>1 DEF Normalised, Edge, RefField

\* Every stage of the sync yields rows.
LEMMA SyncedIsEdges ==
    ASSUME NEW N, NEW E \in SUBSET Edge, NEW s \in Schema, NEW i \in 0 .. Len(s.fields)
    PROVE  SyncedUpTo(N, E, s)[i] \in SUBSET Edge
<1> DEFINE G == SyncedUpTo(N, E, s)
           L == Len(s.fields)
           S == {k \in 0 .. L : G[k] \in SUBSET Edge}
<1>1. L \in Nat
  BY SyncedUpToSteps
<1>2. 0 \in S
  <2>1. Cleared(E) \in SUBSET Edge
    BY ClearedFields DEF Cleared
  <2>2. G[0] = Cleared(E)
    BY SyncedUpToSteps
  <2> HIDE DEF G
  <2> QED BY <1>1, <2>1, <2>2
<1>3. ASSUME NEW k \in 1 .. L, k - 1 \in S PROVE k \in S
  <2>1. s.fields[k] \in RefField /\ G[k] = FieldSynced(N, G[k - 1], s.fields[k])
    BY SyncedUpToSteps
  <2>2. G[k - 1] \in SUBSET Edge
    BY <1>3
  <2> HIDE DEF G
  <2>3. \A e \in G[k - 1] : Normalised(s.fields[k], e) \in Edge
    BY <2>1, <2>2, NormalisedFields DEF Edge
  <2>4. G[k] \in SUBSET Edge
    BY <2>1, <2>2, <2>3 DEF FieldSynced, StoredEdges
  <2> QED BY <2>4
<1>4. 0 .. L \subseteq S
  <2> HIDE DEF S, L
  <2> QED BY <1>1, <1>2, <1>3, InductionOn
<1> QED
  BY <1>4

LEMMA SyncedIsEdge ==
    ASSUME NEW N, NEW E \in SUBSET Edge, NEW s \in Schema
    PROVE  Synced(N, E, s) \in SUBSET Edge
<1>1. Len(s.fields) \in 0 .. Len(s.fields)
  BY SyncedUpToSteps
<1> QED
  BY <1>1, SyncedIsEdges DEF Synced

-----------------------------------------------------------------------------
(***************************************************************************)
(* Types, index and unique constraints.                                    *)
(***************************************************************************)

\* A node is created where there is none.
LEMMA NewNode == \A n \in NextNode : n \in NodeId /\ n \notin Live(nodes)
  BY StartAssumption DEF NextNode, NodeId, StartAssumption

\* TypeInv is inductive.
LEMMA StepTyping == TypeInv /\ [Next]_vars => TypeInv'
<1> SUFFICES ASSUME TypeInv, [Next]_vars PROVE TypeInv'
  OBVIOUS
<1> USE SchemaAssumption, StartAssumption DEF TypeInv, TypeOK, SchemaAssumption, StartAssumption, Opening, Phase, disk, process
<1>1. CASE Deploy
  BY <1>1 DEF Deploy
<1>2. ASSUME NEW s \in Schema, NEW f \in BOOLEAN, Start(s, f)
      PROVE  TypeInv'
  BY <1>2 DEF Start
<1>3. CASE VerifyProfile
  BY <1>3 DEF VerifyProfile
<1>4. CASE Migrate
  BY <1>4 DEF Migrate
<1>5. CASE Migrated
  BY <1>5 DEF Migrated
<1>6. CASE SyncEdges
  BY <1>6, SyncedIsEdge DEF SyncEdges
<1>7. CASE SyncIndexes
  BY <1>7 DEF SyncIndexes
<1>8. CASE Serve
  <2>1. schema \in Schema
    BY <1>8 DEF Serve
  <2>2. Rebuilt(nodes, schema) \in [NodeId -> Text \cup {NoText}]
    BY DEF Rebuilt, IndexText, Live, NodeRow
  <2> QED BY <1>8, <2>1, <2>2 DEF Serve
<1>9. CASE Refuse \/ Crash
  BY <1>9 DEF Refuse, Crash, Stops
<1>10. ASSUME NEW n \in NodeId, NEW row \in NodeRow, Write(n, row)
       PROVE  TypeInv'
  <2>1. IndexText(schema, row) \in Text \cup {NoText}
    BY DEF IndexText, NodeRow
  <2> QED BY <1>10, <2>1 DEF Write
<1>11. ASSUME NEW t \in Type, NEW x \in Text, CreateNode(t, x)
       PROVE  TypeInv'
  BY <1>10, <1>11, NewNode DEF CreateNode, NodeRow
<1>12. ASSUME NEW t \in Type, NEW x \in Text, ImportNode(t, x)
       PROVE  TypeInv'
  BY <1>12, NewNode DEF ImportNode, NodeRow
<1>13. ASSUME NEW n \in NodeId, NEW x \in Text, PatchNode(n, x)
       PROVE  TypeInv'
  BY <1>10, <1>13 DEF PatchNode, NodeRow, Live
<1>14. ASSUME NEW from \in NodeId, NEW to \in NodeId, NEW f \in FieldsOf(schema), AddEdge(f, from, to)
       PROVE  TypeInv'
  <2>1. f \in RefField
    BY <1>14, SyncedUpToSteps DEF AddEdge, FieldsOf
  <2>2. Normalised(f, [from |-> from, field |-> f.name, to |-> to]) \in Edge
    BY <2>1, NormalisedFields DEF RefField
  <2> QED BY <1>14, <2>2 DEF AddEdge
<1>15. ASSUME NEW from \in NodeId, NEW to \in NodeId, NEW name \in FieldName, ImportEdge(name, from, to)
       PROVE  TypeInv'
  <2>1. [from |-> from, field |-> name, to |-> to, single |-> FALSE, symmetric |-> FALSE] \in Edge
    BY DEF Edge
  <2> QED BY <1>15, <2>1 DEF ImportEdge
<1>16. CASE SyncRelationSchema
  BY <1>16, SyncedIsEdge DEF SyncRelationSchema
<1>17. CASE RebuildSearch
  <2>1. Rebuilt(nodes, schema) \in [NodeId -> Text \cup {NoText}]
    BY DEF Rebuilt, IndexText, Live, NodeRow
  <2> QED BY <1>17, <2>1 DEF RebuildSearch
<1>18. CASE UNCHANGED vars
  BY <1>18 DEF vars
<1> HIDE SchemaAssumption, StartAssumption
<1> HIDE DEF TypeInv, Opening, Phase, disk, process
<1> QED
  BY <1>1, <1>2, <1>3, <1>4, <1>5, <1>6, <1>7, <1>8, <1>9, <1>11, <1>12, <1>13, <1>14, <1>15, <1>16, <1>17, <1>18
  DEF Next, Open

\* The steps that change a node, with what they write.
LEMMA NodeSteps ==
    ASSUME TypeInv
    PROVE  /\ \A t \in Type, x \in Text :
                CreateNode(t, x) =>
                   \E n \in NodeId : /\ n \notin Live(nodes)
                                     /\ Write(n, [type |-> t, text |-> x])
           /\ \A n \in NodeId, x \in Text :
                PatchNode(n, x) =>
                   \E row \in NodeRow : /\ n \in Live(nodes)
                                        /\ row.type = nodes[n].type
                                        /\ Write(n, row)
<1>1. ASSUME NEW n \in NodeId, NEW x \in Text, n \in Live(nodes)
      PROVE  LET row == [nodes[n] EXCEPT !.text = x] IN row \in NodeRow /\ row.type = nodes[n].type
  BY <1>1 DEF TypeInv, TypeOK, Live, NodeRow
<1> QED
  BY <1>1, NewNode DEF CreateNode, PatchNode

\* IndexNeverStale is inductive given the types.
LEMMA StepIndexNeverStale == TypeInv /\ IndexNeverStale /\ [Next]_vars => IndexNeverStale'
<1> SUFFICES ASSUME TypeInv, IndexNeverStale, [Next]_vars PROVE IndexNeverStale'
  OBVIOUS
<1> USE DEF IndexNeverStale
<1>1. ASSUME UNCHANGED <<nodes, fts>> PROVE IndexNeverStale'
  BY <1>1 DEF Live
<1>2. CASE Migrate
  BY <1>2 DEF Migrate, Live
<1>3. ASSUME nodes' = nodes, fts' = Rebuilt(nodes, schema) PROVE IndexNeverStale'
  BY <1>3 DEF Rebuilt, IndexText, Live
<1>4. CASE Serve
  BY <1>1, <1>3, <1>4 DEF Serve
<1>5. ASSUME NEW n \in NodeId, NEW row \in NodeRow, Write(n, row)
      PROVE  IndexNeverStale'
  <2>1. row # NoNode
    BY StartAssumption DEF StartAssumption
  <2>2. nodes' = [nodes EXCEPT ![n] = row] /\ fts' = [fts EXCEPT ![n] = IndexText(schema, row)]
    BY <1>5 DEF Write
  <2>3. nodes'[n] = row /\ \A k \in NodeId \ {n} : nodes'[k] = nodes[k]
    BY <2>2 DEF TypeInv, TypeOK
  <2>4. fts'[n] = IndexText(schema, row) /\ \A k \in NodeId \ {n} : fts'[k] = fts[k]
    BY <2>2 DEF TypeInv, TypeOK
  <2>5. IndexText(schema, row) # NoText => IndexText(schema, row) = row.text
    BY DEF IndexText
  <2> QED BY <2>1, <2>3, <2>4, <2>5 DEF Live
<1>6. ASSUME NEW t \in Type, NEW x \in Text, CreateNode(t, x)
      PROVE  IndexNeverStale'
  BY <1>5, <1>6, NodeSteps DEF NodeRow
<1>7. ASSUME NEW n \in NodeId, NEW x \in Text, PatchNode(n, x)
      PROVE  IndexNeverStale'
  BY <1>5, <1>7, NodeSteps
<1>8. ASSUME NEW t \in Type, NEW x \in Text, ImportNode(t, x)
      PROVE  IndexNeverStale'
  <2>1. PICK n \in NodeId : /\ n \notin Live(nodes)
                            /\ nodes' = [nodes EXCEPT ![n] = [type |-> t, text |-> x]]
    BY <1>8, NewNode DEF ImportNode
  <2>2. \A k \in NodeId \ {n} : nodes'[k] = nodes[k]
    BY <2>1 DEF TypeInv, TypeOK
  <2>3. fts' = fts
    BY <1>8 DEF ImportNode
  <2> QED BY <2>1, <2>2, <2>3 DEF Live
<1>9. CASE RebuildSearch
  BY <1>3, <1>9 DEF RebuildSearch
<1> HIDE DEF IndexNeverStale
<1>10. CASE Deploy \/ (\E s \in Schema, f \in BOOLEAN : Start(s, f)) \/ Crash \/ SyncRelationSchema
            \/ VerifyProfile \/ Migrated \/ SyncEdges \/ SyncIndexes \/ Refuse \/ UNCHANGED vars
  BY <1>1, <1>10 DEF Deploy, Start, Crash, Stops, SyncRelationSchema, VerifyProfile,
     Migrated, SyncEdges, SyncIndexes, Refuse, vars, disk
<1>11. CASE \E from, to \in NodeId :
              \/ \E f \in FieldsOf(schema) : AddEdge(f, from, to)
              \/ \E name \in FieldName : ImportEdge(name, from, to)
  BY <1>1, <1>11 DEF AddEdge, ImportEdge
<1> QED
  BY <1>2, <1>4, <1>6, <1>7, <1>8, <1>9, <1>10, <1>11 DEF Next, Open

\* The steps of an open engine.
Serving ==
    \/ \E t \in Type, x \in Text : CreateNode(t, x) \/ ImportNode(t, x)
    \/ \E n \in NodeId, x \in Text : PatchNode(n, x)
    \/ \E from, to \in NodeId :
         \/ \E f \in FieldsOf(schema) : AddEdge(f, from, to)
         \/ \E name \in FieldName : ImportEdge(name, from, to)
    \/ SyncRelationSchema
    \/ RebuildSearch

\* They leave the process and the versions alone.
LEMMA ServingKeepsProcess ==
    Serving => phase = "up" /\ UNCHANGED <<unique, addressed, version, shipped, process>>
  BY DEF Serving, CreateNode, ImportNode, PatchNode, Write, AddEdge, ImportEdge,
         SyncRelationSchema, RebuildSearch

\* Every step is one of a stopped, an opening, an ending or an open engine.
LEMMA StepKinds ==
    Next => Deploy \/ (\E s \in Schema, f \in BOOLEAN : Start(s, f)) \/ Open \/ Crash \/ Serving
  BY DEF Next, Serving

\* UnfitIsAtProfile is inductive.
LEMMA StepUnfit == TypeInv /\ UnfitIsAtProfile /\ [Next]_vars => UnfitIsAtProfile'
<1> SUFFICES ASSUME TypeInv, UnfitIsAtProfile, [Next]_vars PROVE UnfitIsAtProfile'
  OBVIOUS
<1> USE DEF UnfitIsAtProfile
<1>1. CASE Serving \/ Deploy \/ UNCHANGED vars
  BY <1>1, ServingKeepsProcess DEF Deploy, process, vars
<1>2. CASE \E s \in Schema, f \in BOOLEAN : Start(s, f)
  BY <1>2 DEF Start
<1>3. CASE Crash \/ Refuse
  BY <1>3 DEF Crash, Refuse, Stops
<1>4. CASE VerifyProfile
  BY <1>4 DEF VerifyProfile
<1>5. CASE Migrate \/ Migrated \/ SyncEdges \/ SyncIndexes \/ Serve
  BY <1>5 DEF Migrate, Migrated, SyncEdges, SyncIndexes, Serve
<1> QED
  BY <1>1, <1>2, <1>3, <1>4, <1>5, StepKinds DEF Open

\* At the first stage no step touches the disk.
LEMMA StepUntouched ==
    TypeInv /\ UnfitIsAtProfile /\ [Next]_vars => (~ fit => UNCHANGED disk \/ phase = "down")
<1> SUFFICES ASSUME TypeInv, UnfitIsAtProfile, [Next]_vars, phase = "profile"
             PROVE  UNCHANGED disk
  BY DEF UnfitIsAtProfile
<1>1. CASE VerifyProfile \/ Refuse \/ Crash
  BY <1>1 DEF VerifyProfile, Refuse, Crash, Stops
<1>2. ~ Serving /\ ~ Deploy /\ ~ (\E s \in Schema, f \in BOOLEAN : Start(s, f))
  BY ServingKeepsProcess DEF Deploy, Start
<1>3. ~ (Migrate \/ Migrated \/ SyncEdges \/ SyncIndexes \/ Serve)
  BY DEF Migrate, Migrated, SyncEdges, SyncIndexes, Serve
<1>4. CASE UNCHANGED vars
  BY <1>4 DEF vars
<1> QED
  BY <1>1, <1>2, <1>3, <1>4, StepKinds DEF Open

\* Covered is inductive given the types.
LEMMA StepCovered == TypeInv /\ Covered /\ [Next]_vars => Covered'
<1> SUFFICES ASSUME TypeInv, Covered, [Next]_vars PROVE Covered'
  OBVIOUS
<1> USE DEF Covered
<1>1. CASE Deploy \/ UNCHANGED vars
  BY <1>1 DEF Deploy, vars, disk, process, Live
<1>2. CASE \E s \in Schema, f \in BOOLEAN : Start(s, f)
  BY <1>2 DEF Start, Live, disk, Opening
<1>3. CASE VerifyProfile \/ Migrated \/ SyncEdges \/ SyncIndexes
  BY <1>3 DEF VerifyProfile, Migrated, SyncEdges, SyncIndexes, Live, disk, Opening
<1>4. CASE Migrate
  BY <1>4 DEF Migrate, Opening
<1>5. CASE Crash \/ Refuse
  <2>1. phase' = "down" /\ UNCHANGED <<nodes, fts>> /\ phase # "down"
        /\ uncovered' = IF phase \in Opening /\ applied THEN Type ELSE uncovered
    BY <1>5 DEF Crash, Refuse, Stops, disk
  <2>2. \A n \in Live(nodes) : nodes[n].type \in Type
    BY DEF Live, TypeInv, TypeOK, NodeRow
  <2> QED BY <2>1, <2>2 DEF Live
<1>6. ASSUME nodes' = nodes, fts' = Rebuilt(nodes, schema), uncovered' = Type \ schema.searchable,
             phase' = "up", schema' = schema
      PROVE  Covered'
  <2>1. \A n \in Live(nodes) : nodes[n].type \in Type
    BY DEF Live, TypeInv, TypeOK, NodeRow
  <2> QED BY <1>6, <2>1 DEF Live, Rebuilt, IndexText
<1>7. CASE Serve
  <2>1. CASE applied
    BY <1>6, <1>7, <2>1 DEF Serve, NeedsRebuild
  <2>2. CASE ~ applied
    BY <1>7, <2>2 DEF Serve, NeedsRebuild, Live
  <2> QED BY <2>1, <2>2
<1>8. CASE RebuildSearch
  BY <1>6, <1>8 DEF RebuildSearch, process
<1>9. ASSUME NEW n \in NodeId, NEW row \in NodeRow, Write(n, row)
      PROVE  Covered'
  <2>1. nodes' = [nodes EXCEPT ![n] = row] /\ fts' = [fts EXCEPT ![n] = IndexText(schema, row)]
        /\ phase = "up" /\ UNCHANGED <<phase, schema, uncovered>>
    BY <1>9 DEF Write, process
  <2>2. nodes'[n] = row /\ \A k \in NodeId \ {n} : nodes'[k] = nodes[k]
    BY <2>1 DEF TypeInv, TypeOK
  <2>3. fts'[n] = IndexText(schema, row) /\ \A k \in NodeId \ {n} : fts'[k] = fts[k]
    BY <2>1 DEF TypeInv, TypeOK
  <2>4. row.type \notin uncovered => IndexText(schema, row) = row.text
    BY <2>1 DEF IndexText, NodeRow
  <2> QED BY <2>1, <2>2, <2>3, <2>4 DEF Live, Opening
<1>10. ASSUME NEW t \in Type, NEW x \in Text, CreateNode(t, x)
      PROVE  Covered'
  BY <1>9, <1>10, NodeSteps DEF NodeRow
<1>11. ASSUME NEW n \in NodeId, NEW x \in Text, PatchNode(n, x)
      PROVE  Covered'
  BY <1>9, <1>11, NodeSteps
<1>12. ASSUME NEW t \in Type, NEW x \in Text, ImportNode(t, x)
      PROVE  Covered'
  <2>1. PICK n \in NodeId : /\ n \notin Live(nodes)
                            /\ nodes' = [nodes EXCEPT ![n] = [type |-> t, text |-> x]]
    BY <1>12, NewNode DEF ImportNode
  <2>2. nodes'[n].type = t /\ \A k \in NodeId \ {n} : nodes'[k] = nodes[k]
    BY <2>1 DEF TypeInv, TypeOK
  <2>3. UNCHANGED <<fts, phase, schema>> /\ uncovered' = uncovered \cup {t} /\ phase = "up"
    BY <1>12 DEF ImportNode, process
  <2> QED BY <2>1, <2>2, <2>3 DEF Live, Opening
<1>13. CASE SyncRelationSchema
  BY <1>13 DEF SyncRelationSchema, Live, process
<1>14. ASSUME NEW from \in NodeId, NEW to \in NodeId,
              \/ \E f \in FieldsOf(schema) : AddEdge(f, from, to)
              \/ \E name \in FieldName : ImportEdge(name, from, to)
       PROVE Covered'
  BY <1>14 DEF AddEdge, ImportEdge, Live, process
<1> HIDE DEF Covered
<1> QED
  BY <1>1, <1>2, <1>3, <1>4, <1>5, <1>7, <1>8, <1>10, <1>11, <1>12, <1>13, <1>14, StepKinds
  DEF Open, Serving

\* UniqueHolds is inductive given the types.
LEMMA StepUnique == TypeInv /\ UniqueHolds /\ [Next]_vars => UniqueHolds'
<1> SUFFICES ASSUME TypeInv, UniqueHolds, [Next]_vars PROVE UniqueHolds'
  OBVIOUS
<1> USE DEF UniqueHolds
<1>1. CASE Deploy \/ UNCHANGED vars
  BY <1>1 DEF Deploy, vars, disk, process, Live, Distinct, AddressesDistinct
<1>2. CASE \E s \in Schema, f \in BOOLEAN : Start(s, f)
  BY <1>2 DEF Start, Live, disk, Distinct, AddressesDistinct
<1>3. CASE VerifyProfile \/ Migrate \/ Migrated \/ SyncEdges \/ Crash \/ Refuse
  BY <1>3 DEF VerifyProfile, Migrate, Migrated, SyncEdges, Crash, Refuse, Stops, Live, disk, Distinct, AddressesDistinct
<1>4. CASE SyncIndexes \/ Serve
  BY <1>4 DEF SyncIndexes, Serve, Live, Distinct, AddressesDistinct, Indexable
<1>5. CASE SyncRelationSchema \/ RebuildSearch
  BY <1>5 DEF SyncRelationSchema, RebuildSearch, Live, Distinct, AddressesDistinct, process
<1>6. ASSUME NEW from \in NodeId, NEW to \in NodeId,
             \/ \E f \in FieldsOf(schema) : AddEdge(f, from, to)
             \/ \E name \in FieldName : ImportEdge(name, from, to)
      PROVE  UniqueHolds'
  <2>1. UNCHANGED <<nodes, unique, addressed, schema, phase>>
    BY <1>6 DEF AddEdge, ImportEdge, process
  <2> QED BY <2>1 DEF Live, Distinct, AddressesDistinct
<1>7. ASSUME NEW n \in NodeId, NEW row \in NodeRow, RowIsUnique(n, row),
             n \in Live(nodes) => row.type = nodes[n].type,
             nodes' = [nodes EXCEPT ![n] = row], UNCHANGED <<unique, addressed, schema, phase>>
      PROVE  UniqueHolds'
  <2>1. nodes'[n] = row /\ \A k \in NodeId \ {n} : nodes'[k] = nodes[k]
    BY <1>7 DEF TypeInv, TypeOK
  <2>2. ASSUME NEW t \in unique, NEW i \in NodeId, NEW j \in NodeId, nodes'[i] # NoNode, nodes'[j] # NoNode,
               nodes'[i].type = t, nodes'[j].type = t, nodes'[i].text = nodes'[j].text
        PROVE  i = j
    <3>1. CASE i # n /\ j # n
      BY <2>1, <2>2, <3>1 DEF Live, Distinct, AddressesDistinct
    <3>2. CASE i = n /\ j # n
      BY <1>7, <2>1, <2>2, <3>2 DEF Live, RowIsUnique
    <3>3. CASE i # n /\ j = n
      BY <1>7, <2>1, <2>2, <3>3 DEF Live, RowIsUnique
    <3> QED BY <3>1, <3>2, <3>3
  <2>3. \A t \in unique' : Distinct(nodes, t)'
    BY <1>7, <2>2 DEF Live, Distinct, AddressesDistinct
  <2>4. ASSUME NEW i \in NodeId, NEW j \in NodeId, nodes'[i] # NoNode, nodes'[j] # NoNode,
               nodes'[i].type \in addressed, nodes'[j].type \in addressed,
               nodes'[i].text = nodes'[j].text, nodes'[i].text # EmptyText
        PROVE  i = j
    <3>1. CASE i # n /\ j # n
      BY <2>1, <2>4, <3>1 DEF Live, AddressesDistinct
    <3>2. CASE i = n /\ j # n
      BY <1>7, <2>1, <2>4, <3>2 DEF Live, RowIsUnique
    <3>3. CASE i # n /\ j = n
      BY <1>7, <2>1, <2>4, <3>3 DEF Live, RowIsUnique
    <3> QED BY <3>1, <3>2, <3>3
  <2>5. AddressesDistinct(nodes, addressed)'
    BY <1>7, <2>4 DEF Live, AddressesDistinct
  <2> QED BY <1>7, <2>3, <2>5
<1>8. ASSUME NEW t \in Type, NEW x \in Text, CreateNode(t, x) \/ ImportNode(t, x)
      PROVE  UniqueHolds'
  <2>1. PICK n \in NodeId :
           /\ n \notin Live(nodes)
           /\ RowIsUnique(n, [type |-> t, text |-> x])
           /\ nodes' = [nodes EXCEPT ![n] = [type |-> t, text |-> x]]
           /\ UNCHANGED <<unique, addressed, schema, phase>>
    BY <1>8, NewNode DEF CreateNode, Write, ImportNode, process
  <2> QED BY <1>7, <2>1 DEF NodeRow
<1>9. ASSUME NEW n \in NodeId, NEW x \in Text, PatchNode(n, x)
      PROVE  UniqueHolds'
  <2>1. PICK row \in NodeRow : n \in Live(nodes) /\ row.type = nodes[n].type /\ Write(n, row)
    BY <1>9, NodeSteps
  <2> QED BY <1>7, <2>1 DEF Write, process
<1> HIDE DEF UniqueHolds
<1> QED
  BY <1>1, <1>2, <1>3, <1>4, <1>5, <1>6, <1>8, <1>9, StepKinds DEF Open, Serving

-----------------------------------------------------------------------------
(***************************************************************************)
(* What the sync makes of the edges.                                       *)
(***************************************************************************)

\* No two fields of a Schema own one edge.
LEMMA OneOwner ==
    ASSUME NEW N, NEW s \in Schema, NEW e,
           NEW i \in 1 .. Len(s.fields), NEW j \in 1 .. Len(s.fields),
           Owns(N, e, s.fields[i]), Owns(N, e, s.fields[j])
    PROVE  i = j
<1>1. i \in DOMAIN s.fields /\ j \in DOMAIN s.fields
  BY SchemaAssumption DEF SchemaAssumption
<1> QED
  BY <1>1, SchemaAssumption DEF SchemaAssumption, Owns

\* The fields of a Schema and their places.
LEMMA FieldsByIndex ==
    ASSUME NEW s \in Schema
    PROVE  /\ FieldsOf(s) = {s.fields[i] : i \in 1 .. Len(s.fields)}
           /\ FieldsOf(s) \subseteq RefField
           /\ \A f \in FieldsOf(s) : f.undirected => f.to = f.type
<1>1. s.fields \in Seq(RefField) /\ \A i \in DOMAIN s.fields : s.fields[i].undirected => s.fields[i].to = s.fields[i].type
  BY SchemaAssumption DEF SchemaAssumption
<1>2. DOMAIN s.fields = 1 .. Len(s.fields)
  BY <1>1
<1> QED
  BY <1>1, <1>2 DEF FieldsOf

\* What one field of the sync makes of the rows: those it finds get its flags,
\* and belong to it still, or were turned round by it.
LEMMA FieldStep ==
    ASSUME NEW N, NEW s \in Schema, NEW i \in 1 .. Len(s.fields), NEW G \in SUBSET Edge,
           \A e \in G : FlagsFitUpTo(N, s, i - 1, e) \/ TurnedUpTo(N, s, i - 1, e)
    PROVE  \A e \in FieldSynced(N, G, s.fields[i]) :
             FlagsFitUpTo(N, s, i, e) \/ TurnedUpTo(N, s, i, e)
<1> DEFINE f == s.fields[i]
<1>1. f \in RefField /\ f \in FieldsOf(s) /\ Len(s.fields) \in Nat
  BY SyncedUpToSteps, FieldsByIndex
<1>2. i \in Nat /\ i - 1 \in Nat /\ i \in 1 .. i /\ \A j \in 1 .. i : j = i \/ j \in 1 .. i - 1
  BY <1>1
<1>3. 1 .. i - 1 \subseteq 1 .. i
  BY <1>2
<1> SUFFICES ASSUME NEW e \in FieldSynced(N, G, f)
             PROVE  FlagsFitUpTo(N, s, i, e) \/ TurnedUpTo(N, s, i, e)
  OBVIOUS
<1>4. CASE e \in G /\ e \notin StoredEdges(N, G, f)
  <2>1. ~ Owns(N, e, f)
    BY <1>4 DEF StoredEdges, Owns
  <2>2. CASE FlagsFitUpTo(N, s, i - 1, e)
    BY <1>2, <1>3, <2>1, <2>2 DEF FlagsFitUpTo
  <2>3. CASE TurnedUpTo(N, s, i - 1, e)
    BY <1>2, <1>3, <2>1, <2>3 DEF TurnedUpTo
  <2> QED BY <1>4, <2>2, <2>3
<1>5. CASE \E d \in StoredEdges(N, G, f) : e = Normalised(f, d)
  <2>1. PICK d \in StoredEdges(N, G, f) : e = Normalised(f, d)
    BY <1>5
  <2>2. d \in Edge /\ d.field = f.name /\ N[d.from].type = f.type
    BY <2>1 DEF StoredEdges
  <2>3. /\ e.field = d.field
        /\ FlagsAreOf(f, e)
        /\ \/ e.from = d.from /\ e.to = d.to
           \/ f.undirected /\ e.from = d.to /\ e.to = d.from
    BY <1>1, <2>1, <2>2, NormalisedFields DEF Edge, FlagsAreOf
  <2>4. CASE Owns(N, e, f)
    <3>1. ASSUME NEW j \in 1 .. i, Owns(N, e, s.fields[j]) PROVE j = i
      <4>1. j \in 1 .. Len(s.fields)
        BY <1>1
      <4> QED BY <2>4, <3>1, <4>1, OneOwner
    <3> QED BY <1>2, <2>3, <2>4, <3>1 DEF FlagsFitUpTo
  <2>5. CASE ~ Owns(N, e, f)
    <3>1. f.undirected /\ f.name = e.field /\ f.type = N[e.to].type
      BY <2>2, <2>3, <2>5 DEF Owns
    <3>2. \A k \in 1 .. i : Owns(N, e, s.fields[k]) => k < i
      BY <1>2, <2>5
    <3> QED BY <1>2, <2>3, <3>1, <3>2 DEF TurnedUpTo
  <2> QED BY <2>4, <2>5
<1> QED
  BY <1>4, <1>5 DEF FieldSynced

\* After the sync every row fits the Schema, whatever flags it had before and
\* whatever Schema had set them.
LEMMA SyncFits ==
    ASSUME NEW N, NEW E \in SUBSET Edge, NEW s \in Schema
    PROVE  \A e \in Synced(N, E, s) : FlagsFit(N, s, e) \/ Turned(N, s, e)
<1> DEFINE G == SyncedUpTo(N, E, s)
           L == Len(s.fields)
           P(i) == \A e \in G[i] : FlagsFitUpTo(N, s, i, e) \/ TurnedUpTo(N, s, i, e)
           S == {i \in 0 .. L : P(i)}
<1>1. L \in Nat /\ L \in 0 .. L
  BY SyncedUpToSteps
<1>2. 0 \in S
  <2>1. G[0] = Cleared(E)
    BY SyncedUpToSteps
  <2>2. \A e \in Cleared(E) : ~ e.single /\ ~ e.symmetric
    BY ClearedFields DEF Cleared
  <2>3. P(0)
    BY <2>1, <2>2 DEF FlagsFitUpTo
  <2> HIDE DEF P
  <2> QED BY <1>1, <2>3
<1>3. ASSUME NEW i \in 1 .. L, i - 1 \in S PROVE i \in S
  <2>1. G[i] = FieldSynced(N, G[i - 1], s.fields[i]) /\ i - 1 \in 0 .. L
    BY SyncedUpToSteps
  <2>2. G[i - 1] \in SUBSET Edge
    BY <2>1, SyncedIsEdges
  <2>3. P(i)
    BY <1>3, <2>1, <2>2, FieldStep
  <2> HIDE DEF P
  <2> QED BY <1>1, <2>3
<1>4. 0 .. L \subseteq S
  <2> HIDE DEF S, L
  <2> QED BY <1>1, <1>2, <1>3, InductionOn
<1> QED
  BY <1>1, <1>4 DEF Synced, FlagsFit, Turned

\* The sync joins no nodes that were not joined before.
LEMMA SyncEnds ==
    ASSUME NEW N, NEW E \in SUBSET Edge, NEW s \in Schema,
           NEW T, \A e \in E : {e.from, e.to} \subseteq T
    PROVE  \A e \in Synced(N, E, s) : {e.from, e.to} \subseteq T
<1> DEFINE G == SyncedUpTo(N, E, s)
           L == Len(s.fields)
           P(i) == \A e \in G[i] : {e.from, e.to} \subseteq T
           S == {i \in 0 .. L : P(i)}
<1>1. L \in Nat /\ L \in 0 .. L
  BY SyncedUpToSteps
<1>2. 0 \in S
  <2>1. G[0] = Cleared(E)
    BY SyncedUpToSteps
  <2>2. P(0)
    BY <2>1, ClearedFields DEF Cleared
  <2> HIDE DEF P
  <2> QED BY <1>1, <2>2
<1>3. ASSUME NEW i \in 1 .. L, i - 1 \in S PROVE i \in S
  <2>1. /\ G[i] = FieldSynced(N, G[i - 1], s.fields[i])
        /\ i - 1 \in 0 .. L
        /\ s.fields[i] \in RefField
    BY SyncedUpToSteps
  <2>2. G[i - 1] \in SUBSET Edge /\ P(i - 1)
    BY <1>3, <2>1, SyncedIsEdges
  <2>3. ASSUME NEW d \in G[i - 1]
        PROVE  {Normalised(s.fields[i], d).from, Normalised(s.fields[i], d).to} \subseteq T
    BY <2>1, <2>2, NormalisedFields DEF Edge
  <2>4. P(i)
    <3> HIDE DEF G
    <3> QED BY <2>1, <2>2, <2>3 DEF FieldSynced, StoredEdges
  <2> HIDE DEF P
  <2> QED BY <1>1, <2>4
<1>4. 0 .. L \subseteq S
  <2> HIDE DEF S, L
  <2> QED BY <1>1, <1>2, <1>3, InductionOn
<1> QED
  BY <1>1, <1>4 DEF Synced

\* A sync that is not refused keeps the key of every edge its own.
LEMMA SyncKeys ==
    ASSUME NEW N, NEW E \in SUBSET Edge, NEW s \in Schema, KeysAreUnique(E), Syncs(N, E, s)
    PROVE  KeysAreUnique(Synced(N, E, s))
<1> DEFINE G == SyncedUpTo(N, E, s)
           L == Len(s.fields)
           S == {i \in 0 .. L : KeysAreUnique(G[i])}
<1>1. L \in Nat /\ L \in 0 .. L
  BY SyncedUpToSteps
<1>2. 0 \in S
  <2>1. G[0] = Cleared(E)
    BY SyncedUpToSteps
  <2>2. ASSUME NEW d \in Cleared(E), NEW e \in Cleared(E),
               d.from = e.from, d.field = e.field, d.to = e.to
        PROVE  d = e
    <3>1. PICK a \in E : d = Bare(a)
      BY DEF Cleared
    <3>2. PICK b \in E : e = Bare(b)
      BY DEF Cleared
    <3>3. a.from = b.from /\ a.field = b.field /\ a.to = b.to
      BY <2>2, <3>1, <3>2, ClearedFields
    <3> QED BY <3>1, <3>2, <3>3 DEF KeysAreUnique
  <2>3. KeysAreUnique(G[0])
    BY <2>1, <2>2 DEF KeysAreUnique
  <2> HIDE DEF G
  <2> QED BY <1>1, <2>3
<1>3. ASSUME NEW i \in 1 .. L, i - 1 \in S PROVE i \in S
  <2> DEFINE f == s.fields[i]
             H == G[i - 1]
  <2>1. /\ G[i] = FieldSynced(N, H, f)
        /\ i - 1 \in 0 .. L
        /\ f \in RefField
    BY SyncedUpToSteps
  <2>2. H \in SUBSET Edge
    BY <2>1, SyncedIsEdges
  <2>3. KeysAreUnique(H)
    BY <1>3
  <2>4. ~ Collides(N, H, f)
    <3>1. s.fields \in Seq(RefField)
      BY SchemaAssumption DEF SchemaAssumption
    <3>2. i \in DOMAIN s.fields
      BY <3>1
    <3> QED BY <3>2 DEF Syncs
  <2>5. \A e \in H : Normalised(f, e).field = e.field
    BY <2>1, <2>2, NormalisedFields DEF Edge
  <2> HIDE DEF H, f
  <2>6. ASSUME NEW d \in FieldSynced(N, H, f), NEW e \in FieldSynced(N, H, f),
               d.from = e.from, d.field = e.field, d.to = e.to
        PROVE  d = e
    <3>1. CASE d \in H \ StoredEdges(N, H, f) /\ e \in H \ StoredEdges(N, H, f)
      BY <2>3, <2>6, <3>1 DEF KeysAreUnique
    <3>2. ASSUME NEW a \in H \ StoredEdges(N, H, f), NEW b \in StoredEdges(N, H, f)
          PROVE  LET n == Normalised(f, b) IN ~ (a.from = n.from /\ a.field = n.field /\ a.to = n.to)
      BY <2>4, <2>5, <3>2 DEF Collides, StoredEdges
    <3>3. ASSUME NEW a \in StoredEdges(N, H, f), NEW b \in StoredEdges(N, H, f),
                 d = Normalised(f, a), e = Normalised(f, b)
          PROVE  d = e
      BY <2>4, <2>5, <2>6, <3>3 DEF Collides, StoredEdges
    <3> QED BY <2>6, <3>1, <3>2, <3>3 DEF FieldSynced
  <2>7. KeysAreUnique(G[i])
    BY <2>1, <2>6 DEF KeysAreUnique
  <2> HIDE DEF G
  <2> QED BY <1>1, <2>7
<1>4. 0 .. L \subseteq S
  <2> HIDE DEF S, L
  <2> QED BY <1>1, <1>2, <1>3, InductionOn
<1> QED
  BY <1>1, <1>4 DEF Synced

\* One of the first i fields selects the row; the row is then as it was before
\* the sync, if it was synced before, and reset otherwise.
Reached(N, s, i, e) == \E j \in 1 .. i : Owns(N, e, s.fields[j])

Restored(N, s, i, e) == IF Reached(N, s, i, e) THEN e ELSE Bare(e)

RestoredUpTo(N, E, s, i) == {Restored(N, s, i, e) : e \in E}

\* A field finds its edges as the reset left them and restores them.
LEMMA RestoreStep ==
    ASSUME NEW N, NEW E \in SUBSET Edge, NEW s \in Schema, NEW i \in 1 .. Len(s.fields),
           \A e \in E : FlagsFit(N, s, e), KeysAreUnique(E)
    PROVE  /\ FieldSynced(N, RestoredUpTo(N, E, s, i - 1), s.fields[i]) = RestoredUpTo(N, E, s, i)
           /\ ~ Collides(N, RestoredUpTo(N, E, s, i - 1), s.fields[i])
<1> DEFINE f == s.fields[i]
           H == {Restored(N, s, i - 1, e) : e \in E}
           K == {Restored(N, s, i, e) : e \in E}
<1>1. f \in RefField /\ Len(s.fields) \in Nat
  BY SyncedUpToSteps
<1>2. i \in Nat /\ i - 1 \in Nat /\ \A j \in 1 .. i : j = i \/ j \in 1 .. i - 1
  BY <1>1
<1>3. \A e \in E : /\ Restored(N, s, i - 1, e) \in Edge
                   /\ Restored(N, s, i - 1, e).from = e.from
                   /\ Restored(N, s, i - 1, e).field = e.field
                   /\ Restored(N, s, i - 1, e).to = e.to
  BY ClearedFields DEF Restored
<1>4. ASSUME NEW e \in E, Owns(N, e, f)
      PROVE  /\ Restored(N, s, i - 1, e) = Bare(e)
             /\ Restored(N, s, i, e) = e
             /\ Normalised(f, Bare(e)) = e
  <2>1. ~ Reached(N, s, i - 1, e)
    <3> SUFFICES ASSUME NEW j \in 1 .. i - 1, Owns(N, e, s.fields[j]) PROVE FALSE
      BY DEF Reached
    <3>1. j \in 1 .. Len(s.fields) /\ j # i
      BY <1>1
    <3> QED BY <1>4, <3>1, OneOwner
  <2>2. Reached(N, s, i, e)
    BY <1>2, <1>4 DEF Reached
  <2>3. e.single = f.single /\ e.symmetric = f.undirected /\ (e.symmetric => e.from =< e.to)
    BY <1>4 DEF FlagsFit, FlagsFitUpTo, FlagsAreOf
  <2>4. e \in Edge /\ e.from \in Int /\ e.to \in Int
    BY StartAssumption DEF Edge, NodeId, StartAssumption
  <2>5. Normalised(f, Bare(e)) =
          [from |-> e.from, field |-> e.field, to |-> e.to, single |-> e.single, symmetric |-> e.symmetric]
    BY <1>1, <2>3, <2>4, ClearedFields DEF Normalised, RefField
  <2>6. e = [from |-> e.from, field |-> e.field, to |-> e.to, single |-> e.single, symmetric |-> e.symmetric]
    BY <2>4 DEF Edge
  <2>7. Normalised(f, Bare(e)) = e
    BY <2>5, <2>6
  <2> QED BY <2>1, <2>2, <2>7 DEF Restored
<1>5. ASSUME NEW e \in E, ~ Owns(N, e, f)
      PROVE  Restored(N, s, i, e) = Restored(N, s, i - 1, e)
  <2>1. Reached(N, s, i, e) <=> Reached(N, s, i - 1, e)
    BY <1>2, <1>5 DEF Reached
  <2> QED BY <2>1 DEF Restored
<1>6. \A e \in E : Owns(N, e, f) <=> Restored(N, s, i - 1, e) \in StoredEdges(N, H, f)
  BY <1>3 DEF Owns, StoredEdges
<1> HIDE DEF f
<1>7. FieldSynced(N, H, f) \subseteq K
  BY <1>4, <1>5, <1>6 DEF FieldSynced, StoredEdges
<1>8. K \subseteq FieldSynced(N, H, f)
  <2> SUFFICES ASSUME NEW e \in E PROVE Restored(N, s, i, e) \in FieldSynced(N, H, f)
    OBVIOUS
  <2>1. CASE Owns(N, e, f)
    <3>1. Bare(e) \in StoredEdges(N, H, f) /\ Restored(N, s, i, e) = Normalised(f, Bare(e))
      BY <1>4, <1>6, <2>1
    <3> HIDE DEF H
    <3> QED BY <3>1 DEF FieldSynced
  <2>2. CASE ~ Owns(N, e, f)
    <3>1. Restored(N, s, i, e) \in H \ StoredEdges(N, H, f)
      BY <1>5, <1>6, <2>2
    <3> HIDE DEF H
    <3> QED BY <3>1 DEF FieldSynced
  <2> QED BY <2>1, <2>2
<1>9. ~ Collides(N, H, f)
  <2> SUFFICES ASSUME NEW x \in StoredEdges(N, H, f), NEW y \in H, y # x, y.field = x.field,
                      \/ y.from = Normalised(f, x).from /\ y.to = Normalised(f, x).to
                      \/ /\ y \in StoredEdges(N, H, f)
                         /\ Normalised(f, y).from = Normalised(f, x).from
                         /\ Normalised(f, y).to = Normalised(f, x).to
               PROVE  FALSE
    <3> HIDE DEF H
    <3> QED BY DEF Collides
  <2>1. PICK d \in E : x = Restored(N, s, i - 1, d) /\ Owns(N, d, f)
    BY <1>6 DEF StoredEdges
  <2>2. PICK e \in E : y = Restored(N, s, i - 1, e)
    OBVIOUS
  <2>3. Normalised(f, x) = d
    BY <1>4, <2>1
  <2>4. y \in StoredEdges(N, H, f) => Normalised(f, y) = e
    BY <1>4, <1>6, <2>2
  <2>5. d.from = e.from /\ d.field = e.field /\ d.to = e.to
    BY <1>3, <2>1, <2>2, <2>3, <2>4
  <2> QED BY <2>1, <2>2, <2>5 DEF KeysAreUnique
<1> QED
  BY <1>7, <1>8, <1>9 DEF f, RestoredUpTo

\* A sync of rows that fit changes none and is not refused.
LEMMA SyncIdempotent ==
    ASSUME NEW N, NEW E \in SUBSET Edge, NEW s \in Schema,
           \A e \in E : FlagsFit(N, s, e), KeysAreUnique(E), CardinalityHolds(E)
    PROVE  Syncs(N, E, s) /\ Synced(N, E, s) = E
<1> DEFINE G == SyncedUpTo(N, E, s)
           L == Len(s.fields)
           S == {i \in 0 .. L : G[i] = RestoredUpTo(N, E, s, i)}
<1>1. L \in Nat /\ L \in 0 .. L
  BY SyncedUpToSteps
<1>2. 0 \in S
  <2>1. G[0] = Cleared(E)
    BY SyncedUpToSteps
  <2>2. \A e \in E : Restored(N, s, 0, e) = Bare(e)
    BY DEF Restored, Reached
  <2>3. Cleared(E) = RestoredUpTo(N, E, s, 0)
    BY <2>2 DEF Cleared, RestoredUpTo
  <2> HIDE DEF G
  <2> QED BY <1>1, <2>1, <2>3
<1>3. ASSUME NEW i \in 1 .. L, i - 1 \in S PROVE i \in S
  <2>1. G[i] = FieldSynced(N, G[i - 1], s.fields[i]) /\ i - 1 \in 0 .. L
    BY SyncedUpToSteps
  <2>2. G[i - 1] = RestoredUpTo(N, E, s, i - 1)
    BY <1>3
  <2>3. FieldSynced(N, RestoredUpTo(N, E, s, i - 1), s.fields[i]) = RestoredUpTo(N, E, s, i)
    BY RestoreStep
  <2> HIDE DEF G
  <2> QED BY <1>1, <2>1, <2>2, <2>3
<1>4. 0 .. L \subseteq S
  <2> HIDE DEF S, L
  <2> QED BY <1>1, <1>2, <1>3, InductionOn
<1>5. G[L] = E
  <2>1. G[L] = RestoredUpTo(N, E, s, L)
    BY <1>1, <1>4
  <2>2. ASSUME NEW e \in E PROVE Restored(N, s, L, e) = e
    <3>1. CASE Reached(N, s, L, e)
      BY <3>1 DEF Restored
    <3>2. CASE ~ Reached(N, s, L, e)
      <4>1. ~ e.single /\ ~ e.symmetric
        BY <3>2 DEF Reached, FlagsFit, FlagsFitUpTo
      <4>2. Bare(e) = e
        BY <4>1 DEF Bare, Edge
      <4> QED BY <3>2, <4>2 DEF Restored
    <3> QED BY <3>1, <3>2
  <2> HIDE DEF G, L
  <2> QED BY <2>1, <2>2 DEF RestoredUpTo
<1>6. ASSUME NEW i \in DOMAIN s.fields PROVE ~ Collides(N, G[i - 1], s.fields[i])
  <2>1. i \in 1 .. L
    BY SchemaAssumption DEF SchemaAssumption
  <2>2. i - 1 \in 0 .. L
    BY SyncedUpToSteps, <2>1
  <2>3. G[i - 1] = RestoredUpTo(N, E, s, i - 1)
    BY <1>4, <2>2
  <2>4. ~ Collides(N, RestoredUpTo(N, E, s, i - 1), s.fields[i])
    BY <2>1, RestoreStep
  <2> HIDE DEF G
  <2> QED BY <2>3, <2>4
<1> QED
  BY <1>5, <1>6 DEF Syncs, Synced

-----------------------------------------------------------------------------
\* What is said of an edge depends on the types of its two ends only.
LEMMA SameTypes ==
    ASSUME NEW N, NEW M, NEW s, NEW e,
           N[e.from].type = M[e.from].type, N[e.to].type = M[e.to].type
    PROVE  /\ FlagsFit(N, s, e) <=> FlagsFit(M, s, e)
           /\ Turned(N, s, e) <=> Turned(M, s, e)
  BY DEF FlagsFit, FlagsFitUpTo, Turned, TurnedUpTo, Owns

\* A row that joins no two types is not turned round for good.
LEMMA UncrossedFits ==
    ASSUME NEW N, NEW s \in Schema, NEW e \in Edge, ~ Crosses(N, s, e), Turned(N, s, e)
    PROVE  FlagsFit(N, s, e)
<1>1. PICK j \in 1 .. Len(s.fields) :
        /\ s.fields[j].undirected /\ s.fields[j].name = e.field /\ s.fields[j].type = N[e.to].type
        /\ FlagsAreOf(s.fields[j], e)
        /\ \A k \in 1 .. Len(s.fields) : Owns(N, e, s.fields[k]) => k < j
  BY DEF Turned, TurnedUpTo
<1>2. s.fields[j] \in FieldsOf(s) /\ Len(s.fields) \in Nat
  BY FieldsByIndex, SyncedUpToSteps
<1>3. N[e.from].type = N[e.to].type
  BY <1>1, <1>2 DEF Crosses
<1>4. Owns(N, e, s.fields[j])
  BY <1>1, <1>3 DEF Owns
<1>5. ~ (j < j)
  BY <1>2
<1> QED
  BY <1>1, <1>4, <1>5

\* The owners of a row that joins no two types have one type.
LEMMA OwnersShareType ==
    ASSUME NEW N, NEW s \in Schema, NEW d \in Edge, ~ Crosses(N, s, d), FlagsFit(N, s, d),
           NEW x \in Owners(d)
    PROVE  N[x].type = N[d.from].type
<1>1. CASE d.symmetric
  <2>1. PICK j \in 1 .. Len(s.fields) : Owns(N, d, s.fields[j]) /\ s.fields[j].undirected
    BY <1>1 DEF FlagsFit, FlagsFitUpTo, FlagsAreOf
  <2>2. s.fields[j] \in FieldsOf(s)
    BY FieldsByIndex
  <2>3. N[d.from].type = N[d.to].type
    BY <2>1, <2>2 DEF Crosses, Owns
  <2> QED BY <1>1, <2>3 DEF Owners
<1>2. CASE ~ d.symmetric
  BY <1>2 DEF Owners
<1> QED
  BY <1>1, <1>2

\* Two single rows of one field and one type are symmetric both or neither.
LEMMA SameOwner ==
    ASSUME NEW N, NEW s \in Schema, NEW d \in Edge, NEW e \in Edge,
           FlagsFit(N, s, d), FlagsFit(N, s, e),
           d.single, d.field = e.field, N[d.from].type = N[e.from].type
    PROVE  d.symmetric = e.symmetric
<1>1. PICK j \in 1 .. Len(s.fields) : Owns(N, d, s.fields[j])
  BY DEF FlagsFit, FlagsFitUpTo
<1>2. Owns(N, e, s.fields[j])
  BY <1>1 DEF Owns
<1> QED
  BY <1>1, <1>2 DEF FlagsFit, FlagsFitUpTo, FlagsAreOf

\* The constraints of the database keep two single edges apart.
LEMMA FreeMeansFits ==
    ASSUME NEW d \in Edge, NEW e \in Edge, d.symmetric = e.symmetric, d.from # e.from,
           d.symmetric /\ e.symmetric => {d.from, d.to} \cap {e.from, e.to} = {}
    PROVE  Owners(d) \cap Owners(e) = {}
  BY DEF Owners

\* An edge that AddEdge stores fits the Schema it was stored under.
LEMMA AddedFits ==
    ASSUME NEW N, NEW s \in Schema, NEW f \in FieldsOf(s), NEW from \in NodeId, NEW to \in NodeId,
           N[from].type = f.type, N[to].type = f.to
    PROVE  LET e == Normalised(f, [from |-> from, field |-> f.name, to |-> to])
           IN  /\ e \in Edge
               /\ {e.from, e.to} = {from, to}
               /\ e.symmetric = f.undirected
               /\ FlagsFit(N, s, e)
<1> DEFINE x == [from |-> from, field |-> f.name, to |-> to]
           e == Normalised(f, x)
<1>1. f \in RefField /\ (f.undirected => f.to = f.type)
  BY FieldsByIndex
<1>2. /\ e \in Edge
      /\ e.field = f.name
      /\ e.single = f.single /\ e.symmetric = f.undirected
      /\ e.symmetric => e.from =< e.to
      /\ \/ e.from = from /\ e.to = to
         \/ f.undirected /\ e.from = to /\ e.to = from
  BY <1>1, NormalisedFields DEF RefField
<1> HIDE DEF e
<1>3. PICK i \in 1 .. Len(s.fields) : f = s.fields[i]
  BY FieldsByIndex
<1>4. Owns(N, e, f)
  BY <1>1, <1>2 DEF Owns
<1>5. \A j \in 1 .. Len(s.fields) : Owns(N, e, s.fields[j]) => j = i
  BY <1>3, <1>4, OneOwner
<1>6. FlagsFit(N, s, e)
  BY <1>2, <1>3, <1>4, <1>5 DEF FlagsFit, FlagsFitUpTo, FlagsAreOf
<1> QED
  BY <1>2, <1>6 DEF e

\* EdgesFit is inductive given the types.
LEMMA StepEdges == TypeInv /\ EdgesFit /\ [Next]_vars => EdgesFit'
<1> SUFFICES ASSUME TypeInv, EdgesFit, [Next]_vars PROVE EdgesFit'
  OBVIOUS
<1>0. edges \in SUBSET Edge /\ nodes \in [NodeId -> NodeRow \cup {NoNode}]
      /\ schema \in Schema \cup {NoSchema} /\ synced \in Schema \cup {NoSchema}
      /\ (phase = "up" => schema \in Schema)
  BY DEF TypeInv, TypeOK
<1>1. ASSUME UNCHANGED <<nodes, edges, synced>>,
             phase' \in {"indexes", "search", "up"} =>
                phase \in {"indexes", "search", "up"} /\ schema' = schema
      PROVE  EdgesFit'
  BY <1>1 DEF EdgesFit, Live, KeysAreUnique, CardinalityFits, FlagsFit, FlagsFitUpTo, Turned, TurnedUpTo, Owns
<1>2. CASE Deploy \/ UNCHANGED vars
  BY <1>1, <1>2 DEF Deploy, vars, disk, process
<1>3. CASE \E s \in Schema, f \in BOOLEAN : Start(s, f)
  BY <1>1, <1>3 DEF Start, disk
<1>4. CASE VerifyProfile \/ Migrate \/ Migrated \/ SyncIndexes \/ Serve
  BY <1>1, <1>4 DEF VerifyProfile, Migrate, Migrated, SyncIndexes, Serve, disk
<1>5. CASE Crash \/ Refuse
  BY <1>1, <1>5 DEF Crash, Refuse, Stops, disk
<1>6. CASE RebuildSearch
  BY <1>1, <1>6 DEF RebuildSearch, process
<1>7. ASSUME nodes' = nodes, Syncs(nodes, edges, schema), edges' = Synced(nodes, edges, schema),
             synced' = schema, schema' = schema, schema \in Schema
      PROVE  EdgesFit'
  <2> DEFINE E == Synced(nodes, edges, schema)
  <2>1. \A e \in E : {e.from, e.to} \subseteq Live(nodes)
    BY <1>0, <1>7, SyncEnds DEF EdgesFit
  <2>2. KeysAreUnique(E)
    BY <1>0, <1>7, SyncKeys DEF EdgesFit
  <2>3. \A e \in E : FlagsFit(nodes, schema, e) \/ Turned(nodes, schema, e)
    BY <1>0, <1>7, SyncFits
  <2>4. CardinalityFits(E)
    BY <1>7 DEF Syncs, CardinalityHolds, CardinalityFits
  <2> HIDE DEF E
  <2> QED BY <1>7, <2>1, <2>2, <2>3, <2>4
          DEF EdgesFit, Live, KeysAreUnique, CardinalityFits, FlagsFit, FlagsFitUpTo, Turned, TurnedUpTo, Owns, E
<1>8. CASE SyncEdges \/ SyncRelationSchema
  BY <1>0, <1>7, <1>8 DEF SyncEdges, SyncRelationSchema, process, TypeInv
<1>9. ASSUME NEW n \in NodeId, NEW row \in NodeRow, n \in Live(nodes) => row.type = nodes[n].type,
             nodes' = [nodes EXCEPT ![n] = row], UNCHANGED <<edges, synced, schema, phase>>
      PROVE  EdgesFit'
  <2>1. \A k \in Live(nodes) : k \in Live(nodes)' /\ nodes'[k].type = nodes[k].type
    BY <1>0, <1>9, StartAssumption DEF Live, StartAssumption
  <2>2. \A e \in edges : /\ {e.from, e.to} \subseteq Live(nodes)'
                         /\ FlagsFit(nodes', synced, e) <=> FlagsFit(nodes, synced, e)
                         /\ Turned(nodes', synced, e) <=> Turned(nodes, synced, e)
    BY <2>1, SameTypes DEF EdgesFit
  <2> QED BY <1>9, <2>2 DEF EdgesFit, KeysAreUnique, CardinalityFits
<1>10. ASSUME NEW t \in Type, NEW x \in Text, CreateNode(t, x) \/ ImportNode(t, x)
       PROVE  EdgesFit'
  <2>1. PICK n \in NodeId : /\ n \notin Live(nodes)
                            /\ nodes' = [nodes EXCEPT ![n] = [type |-> t, text |-> x]]
    BY <1>10, NewNode DEF CreateNode, Write, ImportNode
  <2>2. UNCHANGED <<edges, synced, schema, phase>>
    BY <1>10 DEF CreateNode, Write, ImportNode, process
  <2>3. [type |-> t, text |-> x] \in NodeRow
    BY DEF NodeRow
  <2> QED BY <1>9, <2>1, <2>2, <2>3
<1>11. ASSUME NEW n \in NodeId, NEW x \in Text, PatchNode(n, x)
       PROVE  EdgesFit'
  <2>1. PICK row \in NodeRow : n \in Live(nodes) /\ row.type = nodes[n].type /\ Write(n, row)
    BY <1>11, NodeSteps
  <2> QED BY <1>9, <2>1 DEF Write, process
<1>12. ASSUME NEW f \in FieldsOf(schema), NEW from \in NodeId, NEW to \in NodeId, AddEdge(f, from, to)
       PROVE  EdgesFit'
  <2> DEFINE e == Normalised(f, [from |-> from, field |-> f.name, to |-> to])
  <2>1. /\ phase = "up" /\ schema \in Schema
        /\ {from, to} \subseteq Live(nodes)
        /\ nodes[from].type = f.type /\ nodes[to].type = f.to
        /\ f.undirected => from # to
        /\ EdgeIsUnique(edges, e) /\ SingleRefIsFree(edges, e)
        /\ edges' = edges \cup {e}
        /\ UNCHANGED <<nodes, schema, phase, synced>>
    BY <1>0, <1>12 DEF AddEdge, process
  <2>2. /\ e \in Edge /\ {e.from, e.to} = {from, to}
        /\ e.symmetric = f.undirected /\ FlagsFit(nodes, schema, e)
    BY <2>1, AddedFits
  <2> HIDE DEF e
  <2>3. \A d \in edges' : {d.from, d.to} \subseteq Live(nodes)
    BY <2>1, <2>2 DEF EdgesFit
  <2>4. KeysAreUnique(edges')
    BY <2>1 DEF EdgesFit, KeysAreUnique, EdgeIsUnique
  <2>5. synced \in {schema, NoSchema}
    BY <2>1 DEF EdgesFit
  <2>6. ASSUME synced # NoSchema
        PROVE  /\ \A d \in edges' : FlagsFit(nodes, schema, d) \/ Turned(nodes, schema, d)
               /\ CardinalityFits(edges')
    <3>1. \A d \in edges' : FlagsFit(nodes, schema, d) \/ Turned(nodes, schema, d)
      BY <2>1, <2>2, <2>5, <2>6 DEF EdgesFit
    <3>2. ASSUME NEW d \in edges, d.single, e.single, d.field = e.field, d.symmetric = e.symmetric
          PROVE  Owners(d) \cap Owners(e) = {}
      BY <1>0, <2>1, <2>2, <3>2, FreeMeansFits DEF SingleRefIsFree
    <3>3. CardinalityFits(edges)
      BY <2>5, <2>6 DEF EdgesFit
    <3>4. e.symmetric => e.from # e.to
      BY <2>1, <2>2
    <3> QED BY <2>1, <3>2, <3>1, <3>3, <3>4 DEF CardinalityFits
  <2> QED BY <2>1, <2>3, <2>4, <2>5, <2>6
          DEF EdgesFit, Live, KeysAreUnique, CardinalityFits, FlagsFit, FlagsFitUpTo, Turned, TurnedUpTo, Owns
<1>13. ASSUME NEW name \in FieldName, NEW from \in NodeId, NEW to \in NodeId, ImportEdge(name, from, to)
       PROVE  EdgesFit'
  <2> DEFINE e == [from |-> from, field |-> name, to |-> to, single |-> FALSE, symmetric |-> FALSE]
  <2>1. /\ {from, to} \subseteq Live(nodes)
        /\ EdgeIsUnique(edges, e)
        /\ edges' = edges \cup {e}
        /\ synced' = NoSchema /\ nodes' = nodes
    BY <1>13 DEF ImportEdge
  <2>2. KeysAreUnique(edges')
    BY <2>1 DEF EdgesFit, KeysAreUnique, EdgeIsUnique
  <2> QED BY <2>1, <2>2 DEF EdgesFit, Live, KeysAreUnique
<1> HIDE DEF EdgesFit
<1> QED
  BY <1>2, <1>3, <1>4, <1>5, <1>6, <1>8, <1>10, <1>11, <1>12, <1>13, StepKinds DEF Open, Serving

-----------------------------------------------------------------------------
(***************************************************************************)
(* The theorems.                                                           *)
(***************************************************************************)

\* The empty database of a stopped engine satisfies all invariants.
LEMMA InitHolds ==
    Init => TypeInv /\ IndexNeverStale /\ Covered /\ UnfitIsAtProfile /\ UniqueHolds /\ EdgesFit
<1> SUFFICES ASSUME Init
             PROVE  TypeInv /\ IndexNeverStale /\ Covered /\ UnfitIsAtProfile /\ UniqueHolds /\ EdgesFit
  OBVIOUS
<1>1. TypeInv
  <2>1. 0 \in 0 .. Migrations /\ 1 \in 1 .. Migrations
    BY StartAssumption DEF StartAssumption
  <2>2. nodes \in [NodeId -> NodeRow \cup {NoNode}] /\ fts \in [NodeId -> Text \cup {NoText}]
    BY DEF Init
  <2> QED BY <2>1, <2>2 DEF Init, TypeInv, TypeOK, Phase
<1>2. Live(nodes) = {}
  BY DEF Init, Live
<1> QED
  BY <1>1, <1>2
  DEF Init, IndexNeverStale, Covered, UnfitIsAtProfile, UniqueHolds, EdgesFit, KeysAreUnique, AddressesDistinct, Opening

\* The inductive invariants hold in every state.
LEMMA EngineInvariants ==
    Spec => [](TypeInv /\ IndexNeverStale /\ Covered /\ UnfitIsAtProfile /\ UniqueHolds /\ EdgesFit)
<1>1. Init => TypeInv /\ IndexNeverStale /\ Covered /\ UnfitIsAtProfile /\ UniqueHolds /\ EdgesFit
  BY InitHolds
<1>2. TypeInv /\ [Next]_vars => TypeInv'
  BY StepTyping
<1>3. TypeInv /\ IndexNeverStale /\ [Next]_vars => IndexNeverStale'
  BY StepIndexNeverStale
<1>4. TypeInv /\ Covered /\ [Next]_vars => Covered'
  BY StepCovered
<1>5. TypeInv /\ UnfitIsAtProfile /\ [Next]_vars => UnfitIsAtProfile'
  BY StepUnfit
<1>6. TypeInv /\ UniqueHolds /\ [Next]_vars => UniqueHolds'
  BY StepUnique
<1>7. TypeInv /\ EdgesFit /\ [Next]_vars => EdgesFit'
  BY StepEdges
<1> QED
  BY <1>1, <1>2, <1>3, <1>4, <1>5, <1>6, <1>7, PTL DEF Spec

\* Tables, versions, the process and the history keep their types.
THEOREM Typing == Spec => []TypeOK
<1>1. TypeInv => TypeOK
  BY DEF TypeInv
<1> QED
  BY <1>1, EngineInvariants, PTL

\* What the full-text index holds for a node is the node's present text,
\* through every crash, migration and change of the searchable types.
THEOREM IndexTellsNoLies == Spec => []IndexNeverStale
  BY EngineInvariants, PTL

\* The open engine's index lacks no node of a served searchable type, except
\* for types written past the engine or left behind by a start that ended
\* between a migration and its rebuild.
THEOREM IndexCovers == Spec => []IndexComplete
<1>1. TypeInv /\ Covered => IndexComplete
  BY DEF TypeInv, TypeOK, Covered, IndexComplete, Opening
<1> QED
  BY <1>1, EngineInvariants, PTL

\* Without the SQLite profile Open changes nothing on disk.
THEOREM UnfitIsUntouched == Spec => UnfitDatabaseUntouched
<1>1. TypeInv /\ UnfitIsAtProfile /\ [Next]_vars => [~ fit => UNCHANGED disk \/ phase = "down"]_vars
  BY StepUntouched
<1> QED
  BY <1>1, EngineInvariants, PTL DEF Spec, UnfitDatabaseUntouched

\* What EdgesFit says of a row of the served Schema: it has the flags of one of
\* its governors, or no field and no flags.
LEMMA ServedRows ==
    ASSUME TypeInv, EdgesFit, phase = "up", synced # NoSchema, NEW e \in edges
    PROVE  \/ \E i \in Governors(e) : FlagsAreOf(schema.fields[i], e)
           \/ /\ \A i \in DOMAIN schema.fields : ~ BelongsTo(e, schema.fields[i])
              /\ ~ e.single /\ ~ e.symmetric
<1>1. synced = schema /\ schema \in Schema
  BY DEF TypeInv, TypeOK, EdgesFit
<1>2. DOMAIN schema.fields = 1 .. Len(schema.fields)
  BY <1>1, SchemaAssumption DEF SchemaAssumption
<1>3. \A i \in DOMAIN schema.fields : Owns(nodes, e, schema.fields[i]) <=> BelongsTo(e, schema.fields[i])
  BY DEF Owns, BelongsTo
<1>4. CASE FlagsFit(nodes, schema, e)
  BY <1>2, <1>3, <1>4 DEF FlagsFit, FlagsFitUpTo, Governors
<1>5. CASE Turned(nodes, schema, e)
  BY <1>2, <1>3, <1>5 DEF Turned, TurnedUpTo, Governors
<1> QED
  BY <1>1, <1>4, <1>5 DEF EdgesFit

\* While the engine is open, flags and order of all edges are those of a field
\* of the served Schema, whatever Schemas were in force before and whatever
\* types the edges join.
THEOREM MetadataFits == Spec => []MetadataMatchesSchema
<1>1. TypeInv /\ EdgesFit => MetadataMatchesSchema
  BY ServedRows DEF MetadataMatchesSchema
<1> QED
  BY <1>1, EngineInvariants, PTL

\* While the engine is open, the stored rows satisfy the served Schema's
\* single references, unique constraints and addresses, and no other
\* constraint remains.
THEOREM ConstraintsAreServed == Spec => []ServedConstraints
<1>1. ASSUME TypeInv, UniqueHolds, EdgesFit PROVE ServedConstraints
  <2>1. ASSUME phase = "up", synced # NoSchema,
               NEW n \in Live(nodes), NEW i \in DOMAIN schema.fields,
               schema.fields[i].single, nodes[n].type = schema.fields[i].type,
               NEW rows, rows = {e \in edges : Governors(e) = {i}},
               NEW d \in RefEdges(rows, n, schema.fields[i].name),
               NEW e \in RefEdges(rows, n, schema.fields[i].name)
        PROVE  d = e
    <3>1. /\ d \in edges /\ e \in edges /\ d.field = e.field
          /\ Governors(d) = {i} /\ Governors(e) = {i}
          /\ n \in Owners(d) \cap Owners(e)
      BY <2>1 DEF RefEdges
    <3>2. ASSUME NEW x \in {d, e} PROVE FlagsAreOf(schema.fields[i], x)
      <4>1. x \in edges /\ Governors(x) = {i} /\ n \in Owners(x) /\ x.field = schema.fields[i].name
        BY <3>1, <3>2 DEF RefEdges
      <4>2. x.symmetric \/ BelongsTo(x, schema.fields[i])
        BY <2>1, <4>1 DEF Owners, BelongsTo
      <4> QED BY <1>1, <2>1, <4>1, <4>2, ServedRows
    <3>3. d.single /\ e.single /\ d.symmetric = e.symmetric
      BY <2>1, <3>2 DEF FlagsAreOf
    <3>4. CardinalityFits(edges)
      BY <1>1, <2>1 DEF EdgesFit
    <3> QED BY <3>1, <3>3, <3>4 DEF CardinalityFits
  <2>2. phase = "up" => /\ unique = schema.unique /\ addressed = schema.addressable
                        /\ Indexable(nodes, schema)
    BY <1>1 DEF UniqueHolds, Indexable
  <2> QED BY <2>1, <2>2 DEF ServedConstraints
<1> QED
  BY <1>1, EngineInvariants, PTL

\* Starting again with the Schema of the last sync changes no edge and cannot
\* be refused on their account.
THEOREM ReopeningIsIdempotent == Spec => []ReopenIsIdempotent
<1>1. ASSUME TypeInv, EdgesFit, phase # "down", synced = schema, \A e \in edges : ~ CrossesTypes(e)
      PROVE  Syncs(nodes, edges, schema) /\ Synced(nodes, edges, schema) = edges
  <2>1. edges \in SUBSET Edge /\ schema \in Schema /\ synced # NoSchema
    BY <1>1 DEF TypeInv, TypeOK
  <2>2. \A e \in edges : ~ Crosses(nodes, schema, e)
    BY <1>1 DEF CrossesTypes, Crosses
  <2>3. (\A e \in edges : FlagsFit(nodes, schema, e)) /\ CardinalityFits(edges)
    BY <1>1, <2>1, <2>2, UncrossedFits DEF EdgesFit
  <2>4. CardinalityHolds(edges)
    <3>1. ASSUME NEW d \in edges, NEW e \in edges, d.single, e.single, d.field = e.field,
                 NEW x \in Owners(d), x \in Owners(e)
          PROVE  d.symmetric = e.symmetric
      <4>1. nodes[d.from].type = nodes[e.from].type
        BY <2>1, <2>2, <2>3, <3>1, OwnersShareType
      <4> QED BY <2>1, <2>3, <3>1, <4>1, SameOwner
    <3> QED BY <2>3, <3>1 DEF CardinalityFits, CardinalityHolds
  <2>5. KeysAreUnique(edges)
    BY <1>1 DEF EdgesFit
  <2> QED BY <2>1, <2>3, <2>4, <2>5, SyncIdempotent
<1>2. TypeInv /\ EdgesFit => ReopenIsIdempotent
  BY <1>1 DEF ReopenIsIdempotent
<1> QED
  BY <1>2, EngineInvariants, PTL
=============================================================================
