------------------------------ MODULE WebSite ------------------------------
(***************************************************************************)
(* The requests of a site: clients of the node API and handlers of the     *)
(* site, which go through the rules (web/api.go, web/routes.go,            *)
(* web/ctx_node_read.go, web/ctx_node_write.go, web/actor.go), and editors *)
(* in the back end, who do not (web/admin.go, AdminAccounts).  All share   *)
(* one nodes table.                                                        *)
(*                                                                         *)
(* A request makes several calls of the engine, each of them one step      *)
(* here; what it has read is in its record and may be stale when it is     *)
(* used.  What happens inside a call of the engine (one transaction, or a  *)
(* read) is the subject of NodeGraph and NodeReads.  A request may also    *)
(* be cancelled between any two calls.                                     *)
(*                                                                         *)
(* past[c] is history: the nodes tables there have been since the request  *)
(* of c began.                                                             *)
(***************************************************************************)
EXTENDS AdminAccounts, ReadPolicy, FiniteSets, Sequences

CONSTANTS
    Visitor,       \* clients of the API and of the site's own handlers
    NoNode,        \* no row with this id
    NoActor,       \* the actor of a request that nothing has asked for yet
    MaxNode,       \* bound: ids
    MaxRevision,   \* bound: revisions of one node
    MaxEdited,     \* bound: revisions when a request begins or an editor writes
    MaxSeen,       \* bound: nodes tables during one request
    RealmType,     \* the node type of the frontend realm
    Searchable,    \* the types that declare the searchable capability
    Site,          \* the sites: per event, the handlers in registration order
    Input,         \* Input[type]: the fields clients submit, in a create or patch
    Revision,      \* the revisions clients put in a patch; 0 is none
    EditorInput,   \* EditorInput[type]: the same of the editors
    OtherActor,    \* the actors that middlewares install
    StartNodes,    \* the tables to begin with
    LoggedIn,      \* the nodes visitors have logged in as, and Nobody
    Crew           \* who is active at a time: bounds what is interleaved

NodeId == 1 .. MaxNode
ReadAction == {"list", "view", "search", "mine"}
WriteAction == {"create", "update", "delete"}
Event == (ReadAction \cup WriteAction) \X Type
Actor == [kind : ActorKind, id : NodeId \cup {Nobody}]
Anonymous == [kind |-> "anonymous", id |-> Nobody]

ASSUME RequestAssumption ==
    /\ MaxNode \in Nat \ {0} /\ MaxRevision \in Nat \ {0}
    /\ {Nobody, Nil} \cap NodeId = {}
    /\ NoActor \notin Actor /\ OtherActor \subseteq Actor
    /\ LoggedIn \subseteq NodeId \cup {Nobody}
    /\ MaxEdited \in 1 .. MaxRevision /\ Revision \subseteq Nat
    /\ RealmType \in Type /\ Searchable \subseteq Type

\* A site names handlers for every event of a type.
ASSUME SiteAssumption ==
    \A s \in Site : \A e \in Event :
        /\ s[e] \in Seq(Range(s[e]))
        /\ e[1] \in ReadAction => \A h \in Range(s[e]), k \in ActorKind : h.narrow[k] \subseteq Condition

VARIABLES
    nodes,     \* the nodes table, each row with its references
    sessions,  \* the node that each visitor's session token belongs to
    site,      \* the hook bus after Start: the handlers of every event
    crew,      \* the visitors and browsers that are active
    request,   \* the request each visitor is in, or Rest
    past       \* history

siteVars == <<nodes, sessions, site, crew, request, past>>
vars == <<siteVars, accountVars>>

Live(N) == {n \in NodeId : N[n] # NoNode}
NextIds(N) == {id \in NodeId : /\ \A n \in Live(N) : n < id
                               /\ id = 1 \/ id - 1 \in Live(N)}

(***************************************************************************)
(* A request: op is what it asks for and action the event of its rule;     *)
(* route tells a route of the API from a handler of the site; submitted    *)
(* and revision come from the client.  pc is the next call.  actor,        *)
(* principal and rules are what CmsCtx has loaded, held is the row GetNode *)
(* returned, fields is what it is about to write, and status and shown are *)
(* its answer.                                                             *)
(***************************************************************************)
NewRequest(op, action, route, type, id, submitted, revision) ==
    [op |-> op, action |-> action, route |-> route, type |-> type, id |-> id,
     submitted |-> submitted, revision |-> revision, pc |-> "handler",
     actor |-> NoActor, principal |-> Nobody, rules |-> << >>, held |-> NoNode,
     fields |-> << >>, status |-> "none", shown |-> {}]

At(c, pc) == request[c] # Rest /\ request[c].pc = pc
Asks(c, ops) == request[c] # Rest /\ request[c].op \in ops

Status == {"none", "ok", "unauthorized", "forbidden", "refused", "notfound",
           "invalid", "conflict", "restricted", "internal"}

TypeOK ==
    /\ AccountTypeOK
    /\ \A n \in Live(nodes) : /\ nodes[n].type \in Type
                              /\ nodes[n].revision \in 1 .. MaxRevision
    /\ sessions \in [Visitor -> NodeId \cup {Nobody}]
    /\ \A c \in Visitor : request[c] # Rest =>
         LET r == request[c]
         IN  /\ r.actor \in Actor \cup {NoActor}
             /\ r.principal \in NodeId \cup {Nobody}
             /\ DOMAIN r.rules \subseteq Event
             /\ r.status \in Status
             /\ r.pc = "done" <=> r.status # "none"
             /\ nodes \in past[c]

-----------------------------------------------------------------------------
(***************************************************************************)
(* Who asks, and what the rules say.                                       *)
(***************************************************************************)

\* CmsCtx.Actor: a session of a node that still is of the realm's type.
SessionActor(c) ==
    IF sessions[c] \in Live(nodes) /\ nodes[sessions[c]].type = RealmType
    THEN [kind |-> "node", id |-> sessions[c]]
    ELSE Anonymous

\* CmsCtx.Principal: what is loaded is returned before the actor is looked at.
PrincipalOf(r) ==
    CASE r.actor.kind # "node" -> Nobody
      [] r.actor.kind = "node" /\ r.principal # Nobody -> r.principal
      [] r.actor.kind = "node" /\ r.principal = Nobody ->
           IF r.actor.id \in Live(nodes) /\ nodes[r.actor.id].type = RealmType
           THEN r.actor.id ELSE Nobody

\* The request r of c once a rule has asked for the actor and, if that is a
\* node, for its principal: both are loaded once.
WithActor(c, r) ==
    IF r.actor = NoActor
    THEN [r EXCEPT !.actor = SessionActor(c), !.principal = SessionActor(c).id]
    ELSE [r EXCEPT !.principal = IF r.actor.kind = "node" THEN PrincipalOf(r) ELSE @]

\* CmsCtx.ReadRule: resolved once per action and type in a request.  Only a
\* rule of the site asks for the actor.
RuleOf(c, r, action, type) ==
    LET event == <<action, type>>
        by == WithActor(c, r)
    IN  IF event \in DOMAIN r.rules THEN r.rules[event]
        ELSE ResolveReadRule(site[event], action, type, by.actor.kind, PrincipalOf(by))

WithRule(c, action, type) ==
    LET event == <<action, type>>
        r == IF site[event] = << >> THEN request[c] ELSE WithActor(c, request[c])
    IN  [r EXCEPT !.rules = [e \in DOMAIN @ \cup {event} |->
                               IF e = event THEN RuleOf(c, r, action, type) ELSE @[e]]]

Matching(c, r, type) ==
    {n \in Live(nodes) : /\ nodes[n].type = type
                         /\ InScope(nodes[n], RuleOf(c, r, r.action, type).scope)}

-----------------------------------------------------------------------------
(***************************************************************************)
(* Steps of a request.                                                     *)
(***************************************************************************)
Goes(c, r) ==
    /\ request' = [request EXCEPT ![c] = r]
    /\ UNCHANGED <<nodes, sessions, site, crew, past, accountVars>>

\* The request r of c has its answer.
Answered(r, status, shown) ==
    [r EXCEPT !.pc = "done", !.status = status, !.shown = shown]

Answer(c, r, status) == Goes(c, Answered(r, status, {}))

\* The answer is what is left of the nodes after the mask, or the error of
\* the mask.
AnswerMasked(c, r, action, shown) ==
    LET rules == [t \in Type |-> RuleOf(c, r, action, t)]
        status == MaskStatus(rules, shown)
    IN  Goes(c, Answered(WithActor(c, r), status, IF status = "ok"
                                    THEN {MaskNode(rules, s) : s \in shown} ELSE {}))

\* An engine write: nodes becomes N, and every request under way sees it.
Stores(N) ==
    /\ nodes' = N
    /\ sessions' = [c \in Visitor |-> IF sessions[c] \in Live(N) THEN sessions[c] ELSE Nobody]
    /\ \A c \in Visitor : request[c] # Rest => Cardinality(past[c] \cup {N}) <= MaxSeen
    /\ past' = [c \in Visitor |-> IF request[c] = Rest THEN {} ELSE past[c] \cup {N}]

Begin(c, op, action, route, type, id, submitted, revision) ==
    /\ c \in crew
    /\ request[c] = Rest
    /\ \A n \in Live(nodes) : nodes[n].revision <= MaxEdited
    /\ request' = [request EXCEPT ![c] =
                     NewRequest(op, action, route, type, id, submitted, revision)]
    /\ past' = [past EXCEPT ![c] = {nodes}]
    /\ UNCHANGED <<nodes, sessions, site, crew, accountVars>>

BeginRead(c, op, action, route, type, id) ==
    Begin(c, op, action, route, type, id, << >>, 1)

BeginWrite(c, op, route, type, id, submitted, revision) ==
    Begin(c, op, op, route, type, id, submitted, revision)

\* The answer is sent, or the client hangs up in the middle.
EndRequest(c) ==
    /\ request[c] # Rest
    /\ request' = [request EXCEPT ![c] = Rest]
    /\ past' = [past EXCEPT ![c] = {}]
    /\ UNCHANGED <<nodes, sessions, site, crew, accountVars>>

\* A middleware or a template asks for a rule before the handler does.
EarlyRule(c) ==
    /\ At(c, "handler") /\ Asks(c, {"view", "list", "page"})
    /\ Goes(c, WithRule(c, request[c].action, request[c].type))

\* Slip: the rules of the previous actor stay in the cache.
SetActorKeepRules(c, a) ==
    /\ At(c, "handler") /\ request[c].actor \notin OtherActor
    /\ Goes(c, [request[c] EXCEPT !.actor = a])

\* SetActor: a middleware has authenticated the request in another way (the
\* model lets it do so once).
SetActor(c, a) ==
    /\ At(c, "handler") /\ request[c].actor \notin OtherActor
    /\ Goes(c, [request[c] EXCEPT !.actor = a, !.rules = << >>])

-----------------------------------------------------------------------------
(***************************************************************************)
(* Reading one node: GetNode, then whether it is visible, then its         *)
(* references, then the mask.                                              *)
(***************************************************************************)
Shown(n, row) == [id |-> n, type |-> row.type, fields |-> row.fields, expand |-> << >>]

GetNode(c) ==
    /\ At(c, "handler") /\ Asks(c, {"view"})
    /\ LET r == request[c]
       IN  IF r.id \in Live(nodes)
           THEN Goes(c, [r EXCEPT !.pc = "visible", !.held = nodes[r.id]])
           ELSE Answer(c, r, "notfound")

\* visible: a second query, with the scope of the rule for the type read.
CheckVisible(c) ==
    /\ At(c, "visible")
    /\ LET r == WithRule(c, request[c].action, request[c].held.type)
           rule == RuleOf(c, r, r.action, r.held.type)
       IN  CASE rule.status # "ok" -> Answer(c, r, rule.status)
             [] rule.status = "ok" /\ r.id \in Matching(c, r, r.held.type) ->
                  Goes(c, [r EXCEPT !.pc = "expand", !.shown = {Shown(r.id, r.held)}])
             [] rule.status = "ok" /\ r.id \notin Matching(c, r, r.held.type) ->
                  Answer(c, r, "notfound")

Reference(type) == {f \in FieldNames(type) : FieldDef[type][f].kind = "ref"}

\* typedEdges: the edges that the node n has now, by the name of a reference
\* field of the type it was read with.
References(n, type) ==
    IF n \notin Live(nodes) THEN {}
    ELSE {f \in Reference(type) \cap Reference(nodes[n].type) :
            /\ f \in DOMAIN nodes[n].fields
            /\ nodes[n].fields[f] \in Live(nodes)}

\* Expand, one level, from the row that was read: it fails when a target is
\* not of the type that the field declares.
Expandable(s) ==
    \A f \in References(s.id, s.type) :
        nodes[nodes[s.id].fields[f]].type = FieldDef[s.type][f].to

Expanded(s) ==
    [s EXCEPT !.expand = [f \in References(s.id, s.type) |->
                            LET to == nodes[s.id].fields[f] IN Shown(to, nodes[to])]]

\* The mask comes last.  The route for one node also compares the type.
ExpandAndMask(c) ==
    /\ At(c, "expand")
    /\ LET r == request[c]
       IN  IF \E s \in r.shown : ~ Expandable(s) THEN Answer(c, r, "internal")
           ELSE IF r.op = "view" /\ r.route /\ r.held.type # r.type
           THEN Answer(c, r, "notfound")
           ELSE AnswerMasked(c, r, r.action, {Expanded(s) : s \in r.shown})

(***************************************************************************)
(* Reading many: the count, then the rows.                                 *)
(***************************************************************************)

\* The list route is closed for a type that is neither publishable nor
\* exposed by a rule; ReadPage is not.
CountNodes(c) ==
    /\ At(c, "handler") /\ Asks(c, {"list", "page"})
    /\ LET r == WithRule(c, request[c].action, request[c].type)
           rule == RuleOf(c, r, r.action, r.type)
           closed == /\ r.op = "list" /\ r.type \notin Publication
                     /\ site[<<r.action, r.type>>] = << >>
       IN  CASE closed -> Answer(c, request[c], "notfound")
             [] ~ closed /\ rule.status # "ok" -> Answer(c, r, rule.status)
             [] ~ closed /\ rule.status = "ok" ->
                  IF Matching(c, r, r.type) = {} THEN Answer(c, r, "ok")
                  ELSE Goes(c, [r EXCEPT !.pc = "rows"])

GetNodes(c) ==
    /\ At(c, "rows")
    /\ LET r == request[c]
           rows == {Shown(n, nodes[n]) : n \in Matching(c, r, r.type)}
       IN  IF r.op = "list" THEN AnswerMasked(c, r, r.action, rows)
           ELSE Goes(c, [r EXCEPT !.pc = "expand", !.shown = rows])

\* ReadSearch: every searchable type has a rule of its own, and one rule
\* that fails fails the search.
Search(c) ==
    /\ At(c, "handler") /\ Asks(c, {"search"})
    /\ LET r == WithActor(c, request[c])
           status == MaskStatus([t \in Type |-> RuleOf(c, r, "search", t)],
                                {[type |-> t] : t \in Searchable})
       IN  IF status # "ok" THEN Answer(c, r, status)
           ELSE AnswerMasked(c, r, "search",
                  UNION {{Shown(n, nodes[n]) : n \in Matching(c, r, t)} : t \in Searchable})

-----------------------------------------------------------------------------
(***************************************************************************)
(* Writes.  The gate asks whether there is a rule at all; the event is     *)
(* fired; the engine writes.                                               *)
(***************************************************************************)
Denied(c) == Answer(c, WithActor(c, request[c]), DeniedWrite(WithActor(c, request[c]).actor.kind))

\* apiUpdateNode and apiDeleteNode: the gate uses the type in the path, and
\* comes before the node is looked up.
FindByPath(c) ==
    /\ At(c, "handler") /\ Asks(c, {"update", "delete"}) /\ request[c].route
    /\ LET r == request[c]
       IN  IF site[<<r.op, r.type>>] = << >> THEN Denied(c)
           ELSE IF r.id \notin Live(nodes) \/ nodes[r.id].type # r.type
           THEN Answer(c, r, "notfound")
           ELSE Goes(c, [r EXCEPT !.pc = "fire", !.held = nodes[r.id]])

\* CmsCtx.UpdateNode and DeleteNode: they have an id and must read the node
\* to know its type.
FindById(c) ==
    /\ At(c, "handler") /\ Asks(c, {"update", "delete"}) /\ ~ request[c].route
    /\ LET r == request[c]
       IN  IF r.id \notin Live(nodes) THEN Answer(c, r, "notfound")
           ELSE IF site[<<r.op, nodes[r.id].type>>] = << >> THEN Denied(c)
           ELSE Goes(c, [r EXCEPT !.pc = "fire", !.held = nodes[r.id]])

\* The rule of a write, as it finds the node it is about.
Fired(r, type, stored) ==
    FireWrite(site[<<r.op, type>>], r.actor.kind, PrincipalOf(r), stored, r.submitted)

\* A create has its type from the client and no node to look at.
FireCreate(c) ==
    /\ At(c, "handler") /\ Asks(c, {"create"})
    /\ LET r == WithActor(c, request[c])
           fired == Fired(r, r.type, << >>)
           status == WriteStatus(fired, DOMAIN r.submitted, r.route)
       IN  IF site[<<"create", r.type>>] = << >> THEN Denied(c)
           ELSE IF status # "ok" THEN Answer(c, r, status)
           ELSE Goes(c, [r EXCEPT !.pc = "commit", !.fields = fired.out.fields])

\* A delete has no fields to allow.  A rule that finds its node gone refuses.
FireChange(c) ==
    /\ At(c, "fire")
    /\ LET r == WithActor(c, request[c])
           stored == IF r.id \in Live(nodes) THEN nodes[r.id].fields ELSE << >>
           fired == Fired(r, r.held.type, stored)
           status == IF r.op = "delete"
                     THEN (IF fired.end = "ok" THEN "ok" ELSE "refused")
                     ELSE WriteStatus(fired, DOMAIN r.submitted, r.route)
       IN  IF status # "ok" THEN Answer(c, r, status)
           ELSE Goes(c, [r EXCEPT !.pc = "commit", !.fields = fired.out.fields])

(***************************************************************************)
(* The engine's part, shared with the back end: what CreateNode, PatchNode *)
(* and DeleteNode make of the table, in one transaction each (NodeGraph).  *)
(***************************************************************************)

\* Every reference has a target of the declared type.
TargetsExist(N, type, fields) ==
    \A f \in DOMAIN fields \cap FieldNames(type) :
        FieldDef[type][f].kind = "ref" /\ fields[f] # Nil =>
            fields[f] \in Live(N) /\ N[fields[f]].type = FieldDef[type][f].to

Creatable(type, fields) ==
    /\ ValidateFields(type, ApplyDefaults(type, fields))
    /\ TargetsExist(nodes, type, fields)

\* Slip: the revision is left at the zero of its type, which no patch matches.
WithCreatedAtZero(id, type, fields) ==
    [nodes EXCEPT ![id] = [type |-> type, fields |-> ApplyDefaults(type, fields),
                           revision |-> 0]]

WithCreated(id, type, fields) ==
    [nodes EXCEPT ![id] = [type |-> type, fields |-> ApplyDefaults(type, fields),
                           revision |-> 1]]

Patchable(n, patch) ==
    /\ ValidatePatchFields(nodes[n].type, patch)
    /\ TargetsExist(nodes, nodes[n].type, patch)

WithPatched(n, patch) ==
    [nodes EXCEPT ![n].fields = Merged(@, patch), ![n].revision = @ + 1]

Referenced(n) ==
    \E m \in Live(nodes) \ {n} : \E f \in DOMAIN nodes[m].fields :
        FieldDef[nodes[m].type][f].kind = "ref" /\ nodes[m].fields[f] = n

\* A request that has written, in one step with the write.
Wrote(c, N, r) ==
    /\ Stores(N)
    /\ request' = [request EXCEPT ![c] = r]
    /\ UNCHANGED <<site, crew, accountVars>>

CommitCreate(c) ==
    /\ At(c, "commit") /\ Asks(c, {"create"})
    /\ LET r == request[c]
       IN  IF ~ Creatable(r.type, r.fields) THEN Answer(c, r, "invalid")
           ELSE \E id \in NextIds(nodes) :
                  Wrote(c, WithCreated(id, r.type, r.fields),
                        [r EXCEPT !.pc = "readback", !.id = id])

\* An empty patch is a success that writes nothing.  The route answers at
\* once, CmsCtx.UpdateNode reads the node back.
CommitUpdate(c) ==
    /\ At(c, "commit") /\ Asks(c, {"update"})
    /\ LET r == request[c]
           after == IF r.route THEN Answered(r, "ok", {}) ELSE [r EXCEPT !.pc = "readback"]
       IN  IF r.id \notin Live(nodes) THEN Answer(c, r, "notfound")
           ELSE IF r.fields = << >> THEN Goes(c, after)
           ELSE IF r.revision = 0 THEN Answer(c, r, "invalid")
           ELSE IF ~ ValidatePatchFields(nodes[r.id].type, r.fields)
           THEN Answer(c, r, "invalid")
           ELSE IF nodes[r.id].revision # r.revision THEN Answer(c, r, "conflict")
           ELSE IF ~ TargetsExist(nodes, nodes[r.id].type, r.fields)
           THEN Answer(c, r, "invalid")
           ELSE /\ nodes[r.id].revision < MaxRevision
                /\ Wrote(c, WithPatched(r.id, r.fields), after)

CommitDelete(c) ==
    /\ At(c, "commit") /\ Asks(c, {"delete"})
    /\ LET r == request[c]
       IN  IF r.id \notin Live(nodes) THEN Answer(c, r, "notfound")
           ELSE IF Referenced(r.id) THEN Answer(c, r, "restricted")
           ELSE Wrote(c, [nodes EXCEPT ![r.id] = NoNode], Answered(r, "ok", {}))

\* readBack: the rule of "view" for what is shown, without its rows.
ReadBack(c) ==
    /\ At(c, "readback")
    /\ LET r == request[c]
       IN  IF r.id \notin Live(nodes) THEN Answer(c, r, "notfound")
           ELSE AnswerMasked(c, r, "view", {Shown(r.id, nodes[r.id])})

-----------------------------------------------------------------------------
(***************************************************************************)
(* The back end: the same writes without rules, once requireAuth has let   *)
(* the request in.  Nothing that such a request has read is held between   *)
(* its calls, except for the revision in the form.                         *)
(***************************************************************************)

\* What interleaves with the account is the browsers alone; next to visitors
\* they have logged in before and write nodes.
WithVisitors == crew \cap Visitor # {}

\* Not explored: writes that a request cannot tell from earlier ones, as it
\* has read nothing yet, and from later ones, as its answer is complete.
Notices(c) == ~ At(c, "done") /\ (At(c, "handler") => request[c].rules # << >>)

EditorWrote(b, N) ==
    /\ b \in crew
    /\ WithVisitors
    /\ \A c \in crew \cap Visitor : Notices(c)
    /\ Authenticates(cookie[b])
    /\ Stores(N)
    /\ UNCHANGED <<site, crew, request, accountVars>>

EditorCreate(b, type, fields) ==
    /\ Creatable(type, fields)
    /\ \E id \in NextIds(nodes) : EditorWrote(b, WithCreated(id, type, fields))

\* The editor's form holds the revision it has loaded: any one until now.
EditorPatch(b, n, patch, revision) ==
    /\ n \in Live(nodes)
    /\ patch # << >>
    /\ Patchable(n, patch)
    /\ revision = nodes[n].revision
    /\ revision < MaxEdited
    /\ EditorWrote(b, WithPatched(n, patch))

EditorDelete(b, n) ==
    /\ n \in Live(nodes)
    /\ ~ Referenced(n)
    /\ EditorWrote(b, [nodes EXCEPT ![n] = NoNode])

EditorPatches(n) == IF n \in Live(nodes) THEN EditorInput[nodes[n].type].patch ELSE {}

\* One step of the account.
AccountStep ==
    /\ ~ WithVisitors
    /\ AccountNext
    /\ UNCHANGED siteVars

-----------------------------------------------------------------------------
\* The tables to begin with are such as the engine leaves.
ASSUME StartAssumption ==
    \A N \in StartNodes :
        /\ DOMAIN N = NodeId
        /\ \A n \in Live(N) :
             /\ DOMAIN N[n] = {"type", "fields", "revision"}
             /\ N[n].type \in Type /\ N[n].revision \in 1 .. MaxRevision
             /\ ValidateFields(N[n].type, N[n].fields)
             /\ TargetsExist(N, N[n].type, N[n].fields)

\* Start: the rules are registered, and no more can be added.
Init ==
    /\ nodes \in StartNodes
    /\ \E s \in Site : site = [e \in Event |-> ReadBus!Registered(s[e])]
    /\ crew \in Crew
    /\ sessions \in [Visitor -> LoggedIn]
    /\ request = [c \in Visitor |-> Rest]
    /\ past = [c \in Visitor |-> {}]
    /\ IF WithVisitors THEN LoggedInInit ELSE AccountInit

\* A handler of the site has an id and no type in its path.
PathType(route) == IF route THEN Type ELSE {RealmType}

Next ==
    \/ \E c \in Visitor, t \in Type, n \in NodeId : BeginRead(c, "view", "view", TRUE, t, n)
    \/ \E c \in Visitor, n \in NodeId : BeginRead(c, "view", "mine", FALSE, RealmType, n)
    \/ \E c \in Visitor, t \in Type : BeginRead(c, "list", "list", TRUE, t, Nobody)
    \/ \E c \in Visitor, t \in Type, action \in {"list", "mine"} :
         BeginRead(c, "page", action, FALSE, t, Nobody)
    \/ \E c \in Visitor : BeginRead(c, "search", "search", FALSE, RealmType, Nobody)
    \/ \E c \in Visitor, t \in Type, route \in BOOLEAN :
         \E fields \in Input[t].create :
            BeginWrite(c, "create", route, t, Nobody, fields, 1)
    \* The revision is one the client has read or any other.
    \/ \E c \in Visitor, route \in BOOLEAN, n \in NodeId :
         \E t \in PathType(route) : \E patch \in Input[t].patch :
         \E revision \in Revision :
            BeginWrite(c, "update", route, t, n, patch, revision)
    \/ \E c \in Visitor, route \in BOOLEAN, n \in NodeId :
         \E t \in PathType(route) : BeginWrite(c, "delete", route, t, n, << >>, 1)
    \/ \E c \in Visitor : EndRequest(c)
    \/ \E c \in Visitor : EarlyRule(c)
    \/ \E c \in Visitor, a \in OtherActor : SetActor(c, a)
    \/ \E c \in Visitor : GetNode(c)
    \/ \E c \in Visitor : CheckVisible(c)
    \/ \E c \in Visitor : ExpandAndMask(c)
    \/ \E c \in Visitor : CountNodes(c)
    \/ \E c \in Visitor : GetNodes(c)
    \/ \E c \in Visitor : Search(c)
    \/ \E c \in Visitor : FindByPath(c)
    \/ \E c \in Visitor : FindById(c)
    \/ \E c \in Visitor : FireCreate(c)
    \/ \E c \in Visitor : FireChange(c)
    \/ \E c \in Visitor : CommitCreate(c)
    \/ \E c \in Visitor : CommitUpdate(c)
    \/ \E c \in Visitor : CommitDelete(c)
    \/ \E c \in Visitor : ReadBack(c)
    \/ \E b \in Browser, t \in Type :
         \E fields \in EditorInput[t].create : EditorCreate(b, t, fields)
    \/ \E b \in Browser, n \in NodeId, revision \in 1 .. MaxRevision :
         \E patch \in EditorPatches(n) : EditorPatch(b, n, patch, revision)
    \/ \E b \in Browser, n \in NodeId : EditorDelete(b, n)
    \/ AccountStep

Spec == Init /\ [][Next]_vars

-----------------------------------------------------------------------------
(***************************************************************************)
(* What the rules of a site are worth.  The meaning of the rules is stated *)
(* here once more, without the bus, the order of the handlers, the cache   *)
(* or the calls: every handler must agree, and each can only narrow.       *)
(***************************************************************************)

\* The handlers hs of an action let the actor read the row.
MayRead(hs, action, a, row) ==
    IF hs = << >>
    THEN /\ action \in SystemReadAction /\ row.type \in Publication
         /\ "state" \in DOMAIN row.fields /\ row.fields.state = "published"
    ELSE /\ \A i \in DOMAIN hs : hs[i].end[a.kind] = "ok"
         /\ \E i \in DOMAIN hs : hs[i].narrow[a.kind] # {}
         /\ \A i \in DOMAIN hs :
              hs[i].narrow[a.kind] # {} =>
                 \E cond \in hs[i].narrow[a.kind] : Meets(row, <<cond, a.id>>)

\* The fields they never let the actor see.
HiddenBy(hs, a) == UNION {hs[i].hide[a.kind] : i \in DOMAIN hs}

Readable(row, action, a) == MayRead(site[<<action, row.type>>], action, a, row)
HiddenFields(action, type, a) == HiddenBy(site[<<action, type>>], a)

\* The node in an answer is one the actor could read at some moment of the
\* request, with the content it had at some moment of it.  An answer to a
\* write shows the node that was written; the rule hides its fields only.
ShownIsReadable(c, s) ==
    LET r == request[c]
        action == IF r.op \in WriteAction THEN "view" ELSE r.action
    IN  /\ \E N \in past[c] :
              /\ s.id \in Live(N)
              /\ r.op \in WriteAction \/ Readable(N[s.id], action, r.actor)
        /\ \E N \in past[c] :
              /\ s.id \in Live(N) /\ N[s.id].type = s.type
              /\ s.fields = Without(N[s.id].fields, HiddenFields(action, s.type, r.actor))
        /\ \A f \in DOMAIN s.expand :
              /\ DOMAIN s.expand[f].fields
                    \cap HiddenFields(action, s.expand[f].type, r.actor) = {}
              /\ \A i \in DOMAIN site[<<action, s.expand[f].type>>] :
                    site[<<action, s.expand[f].type>>][i].end[r.actor.kind] = "ok"

\* SetActor installed another node's actor after the principal was loaded:
\* the rules go on to ask about the old one (actor.go:96).
Impersonated(r) ==
    r.actor # NoActor /\ r.actor.kind = "node" /\ r.principal \notin {Nobody, r.actor.id}

(***************************************************************************)
(* Whatever a site registers, however its handlers fail, and whatever is   *)
(* written while the request runs: an answer shows readable nodes without  *)
(* their hidden fields, references included (web/mask.go, ReadNode,        *)
(* ReadPage), and a write of a type without a rule is answered by the gate *)
(* alone, whether the node exists or not (web/api.go:127).                 *)
(***************************************************************************)
RepliesObeyRules ==
    \A c \in Visitor :
        At(c, "done") =>
            /\ ~ Impersonated(request[c]) =>
                  \A s \in request[c].shown : ShownIsReadable(c, s)
            /\ request[c].status # "ok" => request[c].shown = {}
            /\ Asks(c, WriteAction) /\ request[c].route
                  /\ site[<<request[c].op, request[c].type>>] = << >> =>
                  request[c].status \in {"unauthorized", "forbidden"}

-----------------------------------------------------------------------------
\* Every handler agrees that the actor may do this to the row.
Entitled(hs, a, row) ==
    /\ hs # << >>
    /\ \A i \in DOMAIN hs :
         /\ hs[i].end[a.kind] = "ok"
         /\ a.kind \in hs[i].own => Author(row.fields) = a.id

\* The handlers of an event that write a field, and the value the last of
\* them leaves in it.
Setters(hs, a, f) == {i \in DOMAIN hs : f \in DOMAIN hs[i].set[a.kind]}
SetTo(hs, a, f) ==
    LET i == CHOOSE j \in Setters(hs, a, f) : \A k \in Setters(hs, a, f) : k <= j
    IN  SetValue(hs[i].set[a.kind][f], a.id)

ValueOf(fields, f) == IF f \in DOMAIN fields THEN fields[f] ELSE Nil

\* Only the fields that the client submitted and was allowed to, and those
\* the rule works on, are different afterwards, and these have its value.
FieldsObey(hs, r, old, new) ==
    LET allow == UNION {hs[i].allow[r.actor.kind] : i \in DOMAIN hs}
    IN  \A f \in FieldNames(r.held.type) :
          IF Setters(hs, r.actor, f) # {} THEN ValueOf(new, f) = SetTo(hs, r.actor, f)
          ELSE \/ ValueOf(new, f) = ValueOf(old, f)
               \/ /\ f \in DOMAIN r.submitted
                  /\ f \in allow \/ ~ r.route
                  /\ ValueOf(new, f) = r.submitted[f]

\* The id was free at some moment of the request: it may be another node's,
\* and the rule be one of the type the node had.
Replaced(c, n) == \E N \in past[c] : N[n] = NoNode

\* The revision of the patch is one that the row had reached when the request
\* looked it up: not one that the client has made up.
Reached(r) == r.revision <= r.held.revision

\* The actor may change the node n, going by what n was at some moment.
WasEntitled(c, hs, n) ==
    \E N \in past[c] : n \in Live(N) /\ Entitled(hs, request[c].actor, N[n])

\* The request of c may write the node n as it does.
RuleObeyed(c, n) ==
    LET r == request[c]
    IN  CASE r.op = "create" ->
               LET hs == site[<<"create", r.type>>]
               IN  /\ nodes[n] = NoNode
                   /\ Entitled(hs, r.actor, nodes'[n])
                   /\ FieldsObey(hs, [r EXCEPT !.held = nodes'[n]],
                                 ApplyDefaults(r.type, << >>), nodes'[n].fields)
          [] r.op = "update" ->
               LET hs == site[<<"update", r.held.type>>]
               IN  /\ WasEntitled(c, hs, n)
                   /\ ~ Replaced(c, n) => nodes[n].type = r.held.type
                   /\ ~ Replaced(c, n) /\ Reached(r) => Entitled(hs, r.actor, nodes[n])
                   /\ FieldsObey(hs, r, nodes[n].fields, nodes'[n].fields)
          [] r.op = "delete" ->
               /\ WasEntitled(c, site[<<"delete", r.held.type>>], n)
               /\ ~ Replaced(c, n) => nodes[n].type = r.held.type

(***************************************************************************)
(* A visitor's request changes a node only if every handler of the rule    *)
(* agrees, and only the fields it may.  They look at the row in one call   *)
(* and it is written in another, so they agree about the row as it was at  *)
(* some moment of the request (web/ctx_node_write.go).  An update promises *)
(* more: when its patch carries a revision that the row had reached when   *)
(* the request looked it up, they agree about the row as it is when it is  *)
(* written.  A client that makes up a revision the node has yet to reach   *)
(* is not held to that: an editor's write in between may bring the row to  *)
(* it (core/node_sql.go:277).                                              *)
(***************************************************************************)
WritesObeyRules ==
    [][\A c \in Visitor, n \in NodeId :
         At(c, "commit") /\ request'[c] # request[c] /\ nodes'[n] # nodes[n]
           /\ ~ Impersonated(request[c]) => RuleObeyed(c, n)]_vars

(***************************************************************************)
(* Every stored node has valid fields: a create validates all of them, but *)
(* a patch only its own (ValidatePatchFields), and rules, defaults and the *)
(* back end have a hand in both.  Its references have their targets.       *)
(***************************************************************************)
StoredFieldsValid ==
    \A n \in Live(nodes) :
        /\ ValidateFields(nodes[n].type, nodes[n].fields)
        /\ TargetsExist(nodes, nodes[n].type, nodes[n].fields)
=============================================================================
