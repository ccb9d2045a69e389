--------------------------- MODULE WebSiteProofs ----------------------------
(***************************************************************************)
(* The site for any number of visitors, nodes, types and handlers.  Three  *)
(* inductive invariants carry the theorems:                                *)
(*                                                                         *)
(*   TypeInv   the types, the call a request is at, and that the table is  *)
(*             one of those the request has seen since it began (past);    *)
(*   ReplyInv  every rule in a request's cache is sound for its actor, and *)
(*             what it shows was readable at some moment of its past;      *)
(*   WriteInv  at its commit, a request's rule has agreed about a row of   *)
(*             its past, and equal revisions of a row mean equal rows.     *)
(*                                                                         *)
(* The theorems have one hypothesis, NoneAreRecords: what stands for the   *)
(* absence of a row or of a request is not itself one.                     *)
(***************************************************************************)
EXTENDS WebSite, InductionLemmas, TLAPS

-----------------------------------------------------------------------------
\* What holds of every state, but for the rules.

\* What stands for a row or a request that is not there has no fields.
NoneAreRecords == "type" \notin DOMAIN NoNode /\ "pc" \notin DOMAIN Rest

\* The fields of a request.
RequestFields ==
    {"op", "action", "route", "type", "id", "submitted", "revision", "pc", "actor", "principal",
     "rules", "held", "fields", "status", "shown"}

\* The operations that only read.
ReadOp == {"view", "list", "page", "search"}

\* The event an operation fires, and the calls it makes.
IsCall(r) ==
    /\ CASE r.op = "view" -> r.action \in {"view", "mine"}
         [] r.op = "page" -> r.action \in {"list", "mine"}
         [] r.op \notin {"view", "page"} -> r.action = r.op
    /\ r.pc \in {"handler", "visible", "expand", "rows", "fire", "commit", "readback", "done"}
    /\ r.pc = "visible" => r.op = "view"
    /\ r.pc = "expand" => r.op \in {"view", "page"}
    /\ r.pc = "rows" => r.op \in {"list", "page"}
    /\ r.pc = "fire" => r.op \in {"update", "delete"}
    /\ r.pc = "commit" => r.op \in WriteAction
    /\ r.pc = "readback" => r.op \in {"create", "update"}

\* Rows, tables, requests and what the site has registered; TypeOK, and what it leaves out.
IsRow(row) ==
    /\ DOMAIN row = {"type", "fields", "revision"}
    /\ row.type \in Type
    /\ row.revision \in 1 .. MaxRevision

IsTable(N) == DOMAIN N = NodeId /\ \A n \in Live(N) : IsRow(N[n])

IsRequest(r) ==
    /\ DOMAIN r = RequestFields
    /\ r.op \in ReadOp \cup WriteAction
    /\ IsCall(r)
    /\ r.type \in Type
    /\ r.actor \in Actor \cup {NoActor}
    /\ r.principal \in NodeId \cup {Nobody}
    /\ DOMAIN r.rules \subseteq Event
    /\ \A e \in DOMAIN r.rules : r.rules[e].status \in {"ok", "refused", "internal"}
    /\ r.status \in Status
    /\ r.pc = "done" <=> r.status # "none"
    /\ r.pc \in {"visible", "fire"} => IsRow(r.held)
    /\ r.pc = "expand" => \A s \in r.shown : s.type \in Type

IsSite(S) ==
    /\ DOMAIN S = Event
    /\ \A e \in Event :
         /\ Len(S[e]) \in Nat /\ DOMAIN S[e] = 1 .. Len(S[e])
         /\ e[1] \in ReadAction =>
              \A i \in DOMAIN S[e], k \in ActorKind : S[e][i].narrow[k] \subseteq Condition

\* The typing invariant, with the present table among those that a request has seen.
TypeInv ==
    /\ AccountTypeOK
    /\ IsSite(site)
    /\ IsTable(nodes)
    /\ sessions \in [Visitor -> NodeId \cup {Nobody}]
    /\ DOMAIN request = Visitor
    /\ DOMAIN past = Visitor
    /\ \A c \in Visitor : request[c] # Rest =>
         /\ IsRequest(request[c])
         /\ nodes \in past[c]
         /\ \A N \in past[c] : IsTable(N)

-----------------------------------------------------------------------------
\* What the operators of the module return.

\* The facts about the bus, for the events of the read rules.
RB == INSTANCE HookBusProofs WITH Call <- CallRead

\* What the buses hold after registration is a Site as the proofs read it: a sequence of
\* handlers for every event, and read rules that narrow by conditions.
LEMMA RegisteredSite ==
    ASSUME NEW s \in Site
    PROVE  IsSite([e \in Event |-> ReadBus!Registered(s[e])])
<1> SUFFICES ASSUME NEW e \in Event
    PROVE  LET hs == ReadBus!Registered(s[e])
           IN  /\ Len(hs) \in Nat /\ DOMAIN hs = 1 .. Len(hs)
               /\ e[1] \in ReadAction =>
                    \A i \in DOMAIN hs, k \in ActorKind : hs[i].narrow[k] \subseteq Condition
  BY DEF IsSite
<1> DEFINE S == Range(s[e])
           hs == ReadBus!Registered(s[e])
<1>1. ReadBus!Registered(s[e]) = RB!Registered(s[e])
  BY DEF ReadBus!Registered, RB!Registered, ReadBus!RegisteredUpTo, RB!RegisteredUpTo,
         ReadBus!AddHook, RB!AddHook,
         ReadBus!InsertAt, RB!InsertAt
<1>2. /\ s[e] \in Seq(S)
      /\ e[1] \in ReadAction => \A h \in S, k \in ActorKind : h.narrow[k] \subseteq Condition
  BY SiteAssumption
<1> HIDE DEF S
<1>3. RB!Registered(s[e]) \in Seq(S)
  BY <1>2, RB!RegisteredIsSeq
<1>4. hs \in Seq(S)
  BY <1>1, <1>3
<1> HIDE DEF hs
<1>5. Len(hs) \in Nat /\ DOMAIN hs = 1 .. Len(hs) /\ \A i \in DOMAIN hs : hs[i] \in S
  BY <1>4
<1> QED
  BY <1>2, <1>5 DEF hs

\* Asking for a read rule ends in one of three ways.
LEMMA RuleStatus ==
    ASSUME NEW hs, NEW action, NEW type, NEW kind, NEW principal
    PROVE  ResolveReadRule(hs, action, type, kind, principal).status \in {"ok", "refused", "internal"}
BY DEF ResolveReadRule, NoRule

\* The fields of a request but for those that a step assigns.
LEMMA AnsweredIs ==
    ASSUME NEW r, IsRequest(r), NEW status \in Status \ {"none"}, NEW shown
    PROVE  IsRequest(Answered(r, status, shown))
<1> DEFINE q == Answered(r, status, shown)
<1>1. DOMAIN r = RequestFields
  BY DEF IsRequest
<1>2. /\ DOMAIN q = RequestFields /\ q.pc = "done" /\ q.status = status
      /\ q.op = r.op /\ q.action = r.action /\ q.type = r.type /\ q.actor = r.actor
      /\ q.principal = r.principal /\ q.rules = r.rules
  BY <1>1 DEF Answered, RequestFields
<1> HIDE DEF q
<1>3. IsRequest(q)
  BY <1>2 DEF IsRequest, IsCall
<1> QED
  BY <1>3 DEF q

\* Whom the conditions of a rule name is nobody, the actor, or the principal of the
\* request.
LEMMA PrincipalIs ==
    ASSUME NEW r, r.principal \in NodeId \cup {Nobody}
    PROVE  /\ PrincipalOf(r) \in NodeId \cup {Nobody}
           /\ PrincipalOf(r) \in {Nobody, r.actor.id, r.principal}
BY DEF PrincipalOf, Live

\* Whom the session cookie names is an actor.
LEMMA SessionActorIs ==
    ASSUME sessions \in [Visitor -> NodeId \cup {Nobody}], NEW c \in Visitor
    PROVE  SessionActor(c) \in Actor /\ SessionActor(c).id \in NodeId \cup {Nobody}
BY DEF SessionActor, Actor, ActorKind, Anonymous, Live

\* The fields of a request that WithActor leaves alone.
SameCall(q, r) ==
    /\ q.op = r.op /\ q.action = r.action /\ q.route = r.route /\ q.type = r.type /\ q.id = r.id
    /\ q.submitted = r.submitted /\ q.revision = r.revision /\ q.pc = r.pc /\ q.held = r.held
    /\ q.fields = r.fields /\ q.status = r.status /\ q.shown = r.shown

\* Loading the actor keeps the request a request and its actor, if it has one.
LEMMA WithActorIs ==
    ASSUME sessions \in [Visitor -> NodeId \cup {Nobody}], NEW c \in Visitor, NEW r, IsRequest(r)
    PROVE  /\ IsRequest(WithActor(c, r))
           /\ SameCall(WithActor(c, r), r) /\ WithActor(c, r).rules = r.rules
           /\ WithActor(c, r).actor = IF r.actor = NoActor THEN SessionActor(c) ELSE r.actor
           /\ WithActor(c, r).actor \in Actor
<1> DEFINE q == WithActor(c, r)
<1>1. DOMAIN r = RequestFields
  BY DEF IsRequest
<1>2. /\ DOMAIN q = RequestFields
      /\ SameCall(q, r) /\ q.rules = r.rules
      /\ q.actor = IF r.actor = NoActor THEN SessionActor(c) ELSE r.actor
  BY <1>1 DEF WithActor, RequestFields, SameCall
<1>3. q.actor \in Actor
  BY <1>2, SessionActorIs DEF IsRequest
<1>4. q.principal \in NodeId \cup {Nobody}
  BY <1>1, SessionActorIs, PrincipalIs DEF WithActor, RequestFields, IsRequest
<1> HIDE DEF q
<1>5. IsRequest(q)
  BY <1>2, <1>3, <1>4 DEF IsRequest, IsCall, SameCall
<1> QED
  BY <1>2, <1>3, <1>5 DEF q

\* A rule, cached or resolved, has one of three ends.
LEMMA RuleOfIs ==
    ASSUME NEW c, NEW r, IsRequest(r), NEW action, NEW type
    PROVE  RuleOf(c, r, action, type).status \in {"ok", "refused", "internal"}
<1>1. CASE <<action, type>> \in DOMAIN r.rules
  BY <1>1 DEF RuleOf, IsRequest
<1>2. CASE <<action, type>> \notin DOMAIN r.rules
  BY <1>2, RuleStatus DEF RuleOf
<1> QED
  BY <1>1, <1>2

\* What asking for a rule leaves of the request.
LEMMA WithRuleIs ==
    ASSUME sessions \in [Visitor -> NodeId \cup {Nobody}], NEW c \in Visitor, IsRequest(request[c]),
           NEW action, NEW type, <<action, type>> \in Event
    PROVE  LET q == WithRule(c, action, type)
               r == IF site[<<action, type>>] = << >> THEN request[c] ELSE WithActor(c, request[c])
           IN  /\ IsRequest(q)
               /\ SameCall(q, request[c])
               /\ q.actor = r.actor /\ q.principal = r.principal
               /\ DOMAIN q.rules = DOMAIN request[c].rules \cup {<<action, type>>}
               /\ q.rules[<<action, type>>] = RuleOf(c, r, action, type)
               /\ \A e \in DOMAIN request[c].rules \ {<<action, type>>} : q.rules[e] = request[c].rules[e]
<1> DEFINE event == <<action, type>>
           r == IF site[event] = << >> THEN request[c] ELSE WithActor(c, request[c])
           rules == [e \in DOMAIN r.rules \cup {event} |->
                       IF e = event THEN RuleOf(c, r, action, type) ELSE r.rules[e]]
           q == [r EXCEPT !.rules = rules]
<1>1. WithRule(c, action, type) = q
  BY DEF WithRule
<1>2. IsRequest(r) /\ SameCall(r, request[c]) /\ r.rules = request[c].rules
  BY WithActorIs DEF SameCall
<1>3. RuleOf(c, r, action, type).status \in {"ok", "refused", "internal"}
  BY <1>2, RuleOfIs
<1> HIDE DEF r
<1>4. /\ DOMAIN rules = DOMAIN r.rules \cup {event}
      /\ rules[event] = RuleOf(c, r, action, type)
      /\ \A e \in DOMAIN r.rules \ {event} : rules[e] = r.rules[e]
  OBVIOUS
<1> HIDE DEF rules
<1>5. DOMAIN q = RequestFields
  BY <1>2 DEF IsRequest
<1>6. SameCall(q, r) /\ q.actor = r.actor /\ q.principal = r.principal /\ q.rules = rules
  BY <1>2 DEF IsRequest, RequestFields, SameCall
<1> HIDE DEF q
<1>7. IsRequest(q)
  <2>1. \A e \in DOMAIN q.rules : q.rules[e].status \in {"ok", "refused", "internal"}
    BY <1>2, <1>3, <1>4, <1>6 DEF IsRequest
  <2>2. DOMAIN q.rules \subseteq Event
    BY <1>2, <1>4, <1>6 DEF IsRequest
  <2> QED
    BY <1>2, <1>5, <1>6, <2>1, <2>2 DEF IsRequest, IsCall, SameCall
<1>8. SameCall(q, request[c])
  BY <1>2, <1>6 DEF SameCall
<1>9. /\ DOMAIN q.rules = DOMAIN request[c].rules \cup {event}
      /\ q.rules[event] = RuleOf(c, r, action, type)
      /\ \A e \in DOMAIN request[c].rules \ {event} : q.rules[e] = request[c].rules[e]
  BY <1>2, <1>4, <1>6
<1> QED
  BY <1>1, <1>6, <1>7, <1>8, <1>9 DEF r

-----------------------------------------------------------------------------
\* The steps keep the types.

\* A request is not what stands for none.
LEMMA RequestsAre ==
    ASSUME NoneAreRecords, NEW r, IsRequest(r)
    PROVE  r # Rest
BY DEF NoneAreRecords, IsRequest, RequestFields

\* A call that only changes its request keeps the types.
LEMMA GoesTypes ==
    ASSUME TypeInv, NEW c \in Visitor, request[c] # Rest, NEW r, IsRequest(r), Goes(c, r)
    PROVE  TypeInv'
<1>1. /\ DOMAIN request' = Visitor
      /\ \A d \in Visitor : request'[d] = IF d = c THEN r ELSE request[d]
      /\ UNCHANGED <<nodes, sessions, site, past>>
  BY DEF Goes, TypeInv
<1>2. AccountTypeOK'
  BY DEF Goes, TypeInv, accountVars, AccountTypeOK
<1>3. \A d \in Visitor : request'[d] # Rest =>
        IsRequest(request'[d]) /\ nodes \in past[d] /\ \A N \in past[d] : IsTable(N)
  BY <1>1 DEF TypeInv
<1> QED
  BY <1>1, <1>2, <1>3 DEF TypeInv

\* A write of the table keeps the types and makes every request's past one table longer.
LEMMA StoresTypes ==
    ASSUME TypeInv, NEW N, IsTable(N), Stores(N), UNCHANGED <<site, accountVars>>,
           DOMAIN request' = Visitor,
           \A d \in Visitor : request'[d] # Rest => request[d] # Rest /\ IsRequest(request'[d])
    PROVE  TypeInv'
<1>1. /\ nodes' = N /\ DOMAIN past' = Visitor
      /\ \A d \in Visitor : past'[d] = IF request[d] = Rest THEN {} ELSE past[d] \cup {N}
  BY DEF Stores
<1>2. AccountTypeOK'
  BY DEF TypeInv, accountVars, AccountTypeOK
<1>3. sessions' \in [Visitor -> NodeId \cup {Nobody}]
  BY DEF Stores, TypeInv
<1>4. \A d \in Visitor : request'[d] # Rest =>
        IsRequest(request'[d]) /\ N \in past'[d] /\ \A M \in past'[d] : IsTable(M)
  BY <1>1 DEF TypeInv
<1> QED
  BY <1>1, <1>2, <1>3, <1>4 DEF TypeInv

\* The commit of a request keeps the types.
LEMMA WroteTypes ==
    ASSUME TypeInv, NEW c \in Visitor, request[c] # Rest, NEW N, IsTable(N), NEW r, IsRequest(r),
           Wrote(c, N, r)
    PROVE  TypeInv'
<1>1. /\ DOMAIN request' = Visitor
      /\ \A d \in Visitor : request'[d] = IF d = c THEN r ELSE request[d]
      /\ Stores(N) /\ UNCHANGED <<site, accountVars>>
  BY DEF Wrote, TypeInv
<1>2. \A d \in Visitor : request'[d] # Rest => request[d] # Rest /\ IsRequest(request'[d])
  BY <1>1 DEF TypeInv
<1> QED
  BY <1>1, <1>2, StoresTypes

-----------------------------------------------------------------------------
\* What the engine makes of a table.
LEMMA CreatedTable ==
    ASSUME NoneAreRecords, IsTable(nodes), NEW id \in NodeId, NEW type \in Type, NEW fields
    PROVE  IsTable(WithCreated(id, type, fields))
<1> DEFINE row == [type |-> type, fields |-> ApplyDefaults(type, fields), revision |-> 1]
<1>1. IsRow(row)
  BY RequestAssumption DEF IsRow
<1> HIDE DEF row
<1>2. IsTable([nodes EXCEPT ![id] = row])
  BY <1>1 DEF IsTable, Live
<1> QED
  BY <1>2 DEF WithCreated, row

\* A patch changes one row: its fields and its revision, by one.
LEMMA PatchedRow ==
    ASSUME NoneAreRecords, IsTable(nodes), NEW n \in Live(nodes), NEW patch
    PROVE  LET N == WithPatched(n, patch)
           IN  /\ DOMAIN N = NodeId
               /\ \A m \in NodeId \ {n} : N[m] = nodes[m]
               /\ DOMAIN N[n] = {"type", "fields", "revision"}
               /\ N[n] # NoNode
               /\ N[n].type = nodes[n].type
               /\ N[n].fields = Merged(nodes[n].fields, patch)
               /\ N[n].revision = nodes[n].revision + 1
<1> DEFINE row == [nodes[n] EXCEPT !.fields = Merged(@, patch), !.revision = @ + 1]
<1>1. DOMAIN nodes = NodeId /\ n \in NodeId /\ IsRow(nodes[n])
  BY DEF IsTable, Live
<1>2. WithPatched(n, patch) = [nodes EXCEPT ![n] = row]
  BY <1>1 DEF WithPatched, IsRow
<1>3. /\ DOMAIN row = {"type", "fields", "revision"}
      /\ row.type = nodes[n].type /\ row.fields = Merged(nodes[n].fields, patch)
      /\ row.revision = nodes[n].revision + 1
  BY <1>1 DEF IsRow
<1> HIDE DEF row
<1>4. row # NoNode
  BY <1>3 DEF NoneAreRecords
<1> QED
  BY <1>1, <1>2, <1>3, <1>4

\* A patched table is a table.
LEMMA PatchedTable ==
    ASSUME NoneAreRecords, IsTable(nodes), NEW n \in Live(nodes), NEW patch,
           nodes[n].revision < MaxRevision
    PROVE  IsTable(WithPatched(n, patch))
<1> DEFINE N == WithPatched(n, patch)
<1>1. /\ DOMAIN N = NodeId
      /\ \A m \in NodeId \ {n} : N[m] = nodes[m]
      /\ DOMAIN N[n] = {"type", "fields", "revision"}
      /\ N[n].type = nodes[n].type
      /\ N[n].revision = nodes[n].revision + 1
  BY PatchedRow
<1> HIDE DEF N
<1>2. IsRow(nodes[n])
  BY DEF IsTable
<1>3. IsRow(N[n])
  BY <1>1, <1>2, RequestAssumption DEF IsRow
<1>4. IsTable(N)
  BY <1>1, <1>3 DEF IsTable, Live
<1> QED
  BY <1>4 DEF N

\* A table that has lost a row is a table.
LEMMA DeletedTable ==
    ASSUME IsTable(nodes), NEW n \in NodeId
    PROVE  IsTable([nodes EXCEPT ![n] = NoNode])
BY DEF IsTable, Live

-----------------------------------------------------------------------------
\* Masking a reply ends in one of three ways.
LEMMA MaskStatusIs ==
    ASSUME NEW c, NEW r, IsRequest(r), NEW action, NEW shown, \A s \in shown : s.type \in Type
    PROVE  MaskStatus([t \in Type |-> RuleOf(c, r, action, t)], shown)
             \in {"ok", "refused", "internal"}
<1> DEFINE rules == [t \in Type |-> RuleOf(c, r, action, t)]
           statuses == {rules[n.type].status : n \in shown}
<1>1. statuses \subseteq {"ok", "refused", "internal"}
  BY RuleOfIs
<1> HIDE DEF rules
<1>2. CASE \A n \in shown : rules[n.type].status = "ok"
  BY <1>2 DEF MaskStatus, rules
<1>3. CASE ~ \A n \in shown : rules[n.type].status = "ok"
  <2>1. \E s \in statuses : s # "ok"
    BY <1>3
  <2> HIDE DEF statuses
  <2>2. (CHOOSE s \in statuses : s # "ok") \in statuses
    BY <2>1
  <2>3. MaskStatus(rules, shown) = CHOOSE s \in statuses : s # "ok"
    BY <1>3 DEF MaskStatus, statuses
  <2> QED BY <1>1, <2>2, <2>3 DEF rules
<1> QED
  BY <1>2, <1>3

\* An answer keeps the types.
LEMMA AnswerTypes ==
    ASSUME TypeInv, NEW c \in Visitor, request[c] # Rest, NEW r, IsRequest(r),
           NEW status \in Status \ {"none"}, Answer(c, r, status)
    PROVE  TypeInv'
BY AnsweredIs, GoesTypes DEF Answer

\* A masked answer keeps the types.
LEMMA MaskedTypes ==
    ASSUME TypeInv, NEW c \in Visitor, request[c] # Rest, NEW r, IsRequest(r), NEW action,
           NEW shown, \A s \in shown : s.type \in Type, AnswerMasked(c, r, action, shown)
    PROVE  TypeInv'
<1> DEFINE rules == [t \in Type |-> RuleOf(c, r, action, t)]
           status == MaskStatus(rules, shown)
           after == IF status = "ok" THEN {MaskNode(rules, s) : s \in shown} ELSE {}
<1>1. status \in Status \ {"none"}
  BY MaskStatusIs DEF Status
<1>2. IsRequest(WithActor(c, r))
  BY WithActorIs DEF TypeInv
<1>3. Goes(c, Answered(WithActor(c, r), status, after))
  BY DEF AnswerMasked
<1> HIDE DEF status, after
<1> QED
  BY <1>1, <1>2, <1>3, AnsweredIs, GoesTypes

\* A request at a call has the fields of one.
LEMMA AtIs ==
    ASSUME TypeInv, NEW c \in Visitor, NEW pc, At(c, pc)
    PROVE  /\ request[c] # Rest /\ IsRequest(request[c]) /\ request[c].pc = pc
           /\ DOMAIN request[c] = RequestFields
           /\ nodes \in past[c] /\ \A N \in past[c] : IsTable(N)
BY DEF TypeInv, At, IsRequest

\* A request goes on to its next call, with what it has read.
LEMMA NextCall ==
    ASSUME NEW r, IsRequest(r), r.pc # "done", NEW q, DOMAIN q = RequestFields,
           q.op = r.op, q.action = r.action, q.type = r.type, q.actor = r.actor,
           q.principal = r.principal, q.rules = r.rules, q.status = r.status,
           IsCall(q), q.pc # "done",
           q.pc \in {"visible", "fire"} => IsRow(q.held),
           q.pc = "expand" => \A s \in q.shown : s.type \in Type
    PROVE  IsRequest(q)
BY DEF IsRequest

\* The request that begins is one of the kind of its operation.
LEMMA BeginTypes ==
    ASSUME NoneAreRecords, TypeInv, NEW c \in Visitor, NEW op \in ReadOp \cup WriteAction, NEW action,
           NEW route, NEW type \in Type, NEW id, NEW submitted, NEW revision,
           CASE op = "view" -> action \in {"view", "mine"}
             [] op = "page" -> action \in {"list", "mine"}
             [] op \notin {"view", "page"} -> action = op,
           Begin(c, op, action, route, type, id, submitted, revision)
    PROVE  TypeInv'
<1> DEFINE r == NewRequest(op, action, route, type, id, submitted, revision)
<1>1. /\ DOMAIN r = RequestFields
      /\ r.op = op /\ r.action = action /\ r.type = type /\ r.pc = "handler" /\ r.actor = NoActor
      /\ r.principal = Nobody /\ r.rules = << >> /\ r.status = "none"
  BY DEF NewRequest, RequestFields
<1> HIDE DEF r
<1>2. DOMAIN r.rules = {}
  BY <1>1
<1>3. IsCall(r)
  BY <1>1 DEF IsCall
<1>4. IsRequest(r)
  BY <1>1, <1>2, <1>3 DEF IsRequest, Status
<1>5. /\ DOMAIN request' = Visitor /\ DOMAIN past' = Visitor
      /\ \A d \in Visitor : request'[d] = IF d = c THEN r ELSE request[d]
      /\ \A d \in Visitor : past'[d] = IF d = c THEN {nodes} ELSE past[d]
      /\ UNCHANGED <<nodes, sessions, site>>
  BY DEF Begin, TypeInv, r
<1>6. AccountTypeOK'
  BY DEF Begin, TypeInv, accountVars, AccountTypeOK
<1>7. \A d \in Visitor : request'[d] # Rest =>
        IsRequest(request'[d]) /\ nodes \in past'[d] /\ \A N \in past'[d] : IsTable(N)
  BY <1>4, <1>5 DEF TypeInv
<1> QED
  BY <1>5, <1>6, <1>7 DEF TypeInv

\* The visitor takes the answer away.
LEMMA EndTypes ==
    ASSUME TypeInv, NEW c \in Visitor, EndRequest(c)
    PROVE  TypeInv'
<1>1. /\ DOMAIN request' = Visitor /\ DOMAIN past' = Visitor
      /\ \A d \in Visitor : request'[d] = IF d = c THEN Rest ELSE request[d]
      /\ \A d \in Visitor : past'[d] = IF d = c THEN {} ELSE past[d]
      /\ UNCHANGED <<nodes, sessions, site>>
  BY DEF EndRequest, TypeInv
<1>2. AccountTypeOK'
  BY DEF EndRequest, TypeInv, accountVars, AccountTypeOK
<1>3. \A d \in Visitor : request'[d] # Rest =>
        IsRequest(request'[d]) /\ nodes \in past'[d] /\ \A N \in past'[d] : IsTable(N)
  BY <1>1 DEF TypeInv
<1> QED
  BY <1>1, <1>2, <1>3 DEF TypeInv

\* The events that a request asks for are events of a type.
LEMMA RequestEvent ==
    ASSUME NEW r, IsRequest(r), NEW type \in Type
    PROVE  /\ r.action \in ReadAction \cup WriteAction
           /\ <<r.action, type>> \in Event
           /\ r.op \in ReadOp <=> r.action \in ReadAction
BY DEF IsRequest, IsCall, ReadOp, ReadAction, WriteAction, Event

\* An early rule keeps the types.
LEMMA EarlyRuleTypes ==
    ASSUME NoneAreRecords, TypeInv, NEW c \in Visitor, EarlyRule(c)
    PROVE  TypeInv'
<1>1. At(c, "handler") /\ Goes(c, WithRule(c, request[c].action, request[c].type))
  BY DEF EarlyRule
<1>2. request[c] # Rest /\ IsRequest(request[c]) /\ request[c].type \in Type
  BY <1>1, AtIs DEF IsRequest
<1>3. IsRequest(WithRule(c, request[c].action, request[c].type))
  BY <1>2, RequestEvent, WithRuleIs DEF TypeInv
<1> QED
  BY <1>1, <1>2, <1>3, GoesTypes

\* SetActor keeps the types.
LEMMA SetActorTypes ==
    ASSUME NoneAreRecords, TypeInv, NEW c \in Visitor, NEW a \in OtherActor, SetActor(c, a)
    PROVE  TypeInv'
<1> DEFINE q == [request[c] EXCEPT !.actor = a, !.rules = << >>]
<1>1. At(c, "handler") /\ Goes(c, q)
  BY DEF SetActor
<1>2. request[c] # Rest /\ IsRequest(request[c]) /\ DOMAIN request[c] = RequestFields
  BY <1>1, AtIs
<1>3. /\ DOMAIN q = RequestFields /\ q.op = request[c].op /\ q.action = request[c].action
      /\ q.pc = request[c].pc /\ q.type = request[c].type /\ q.actor = a
      /\ q.principal = request[c].principal /\ q.rules = << >> /\ q.status = request[c].status
      /\ q.held = request[c].held /\ q.shown = request[c].shown
  BY <1>2 DEF RequestFields
<1> HIDE DEF q
<1>4. a \in Actor /\ DOMAIN q.rules = {}
  BY <1>3, RequestAssumption
<1>5. IsRequest(q)
  BY <1>2, <1>3, <1>4 DEF IsRequest, IsCall
<1> QED
  BY <1>1, <1>2, <1>5, GoesTypes

\* The row of a view keeps the types.
LEMMA GetNodeTypes ==
    ASSUME NoneAreRecords, TypeInv, NEW c \in Visitor, GetNode(c)
    PROVE  TypeInv'
<1> DEFINE r == request[c]
           q == [r EXCEPT !.pc = "visible", !.held = nodes[r.id]]
<1>1. request[c] # Rest /\ IsRequest(r) /\ DOMAIN r = RequestFields /\ r.pc = "handler" /\ r.op = "view"
  BY AtIs DEF GetNode, Asks
<1>2. CASE Answer(c, r, "notfound")
  BY <1>1, <1>2, AnswerTypes DEF Status
<1>3. CASE r.id \in Live(nodes) /\ Goes(c, q)
  <2>1. /\ DOMAIN q = RequestFields /\ q.pc = "visible" /\ q.held = nodes[r.id] /\ q.op = r.op
        /\ q.action = r.action /\ q.type = r.type /\ q.actor = r.actor /\ q.principal = r.principal
        /\ q.rules = r.rules /\ q.status = r.status
    BY <1>1 DEF RequestFields
  <2>2. IsRow(nodes[r.id])
    BY <1>3 DEF TypeInv, IsTable
  <2> HIDE DEF q, r
  <2>3. IsCall(q)
    BY <1>1, <2>1 DEF IsCall, IsRequest
  <2>4. IsRequest(q)
    BY <1>1, <2>1, <2>2, <2>3, NextCall
  <2> QED BY <1>1, <1>3, <2>4, GoesTypes
<1> QED
  BY <1>2, <1>3 DEF GetNode

\* The check of a view's id keeps the types.
LEMMA CheckVisibleTypes ==
    ASSUME NoneAreRecords, TypeInv, NEW c \in Visitor, CheckVisible(c)
    PROVE  TypeInv'
<1> DEFINE type == request[c].held.type
           r == WithRule(c, request[c].action, type)
           rule == RuleOf(c, r, r.action, r.held.type)
           q == [r EXCEPT !.pc = "expand", !.shown = {Shown(r.id, r.held)}]
<1>1. /\ request[c] # Rest /\ IsRequest(request[c])
      /\ request[c].pc = "visible" /\ IsRow(request[c].held)
  BY AtIs DEF CheckVisible, IsRequest
<1>2. type \in Type
  BY <1>1 DEF IsRow
<1>3. IsRequest(r) /\ SameCall(r, request[c])
  BY <1>1, <1>2, RequestEvent, WithRuleIs DEF TypeInv
<1>4. r.pc = "visible" /\ r.op = "view" /\ DOMAIN r = RequestFields /\ r.held.type \in Type
  BY <1>1, <1>2, <1>3 DEF SameCall, IsRequest, IsCall
<1>5. rule.status \in {"ok", "refused", "internal"}
  BY <1>3, RuleOfIs
<1>6. \/ rule.status # "ok" /\ Answer(c, r, rule.status)
      \/ Goes(c, q)
      \/ Answer(c, r, "notfound")
  BY DEF CheckVisible
<1> HIDE DEF r, rule
<1>7. CASE rule.status # "ok" /\ Answer(c, r, rule.status)
  BY <1>1, <1>3, <1>5, <1>7, AnswerTypes DEF Status
<1>8. CASE Answer(c, r, "notfound")
  BY <1>1, <1>3, <1>8, AnswerTypes DEF Status
<1>9. CASE Goes(c, q)
  <2>1. /\ DOMAIN q = RequestFields /\ q.pc = "expand" /\ q.shown = {Shown(r.id, r.held)} /\ q.op = r.op
        /\ q.action = r.action /\ q.type = r.type /\ q.actor = r.actor /\ q.principal = r.principal
        /\ q.rules = r.rules /\ q.status = r.status
    BY <1>4 DEF RequestFields
  <2> HIDE DEF q
  <2>2. IsCall(q)
    BY <1>3, <1>4, <2>1 DEF IsCall, IsRequest
  <2>3. \A s \in q.shown : s.type \in Type
    BY <1>4, <2>1 DEF Shown
  <2>4. IsRequest(q)
    BY <1>3, <1>4, <2>1, <2>2, <2>3, NextCall
  <2> QED BY <1>1, <1>9, <2>4, GoesTypes
<1> QED
  BY <1>6, <1>7, <1>8, <1>9

\* Expansion and mask keep the types.
LEMMA ExpandAndMaskTypes ==
    ASSUME NoneAreRecords, TypeInv, NEW c \in Visitor, ExpandAndMask(c)
    PROVE  TypeInv'
<1> DEFINE r == request[c]
<1>1. request[c] # Rest /\ IsRequest(r) /\ \A s \in r.shown : s.type \in Type
  BY AtIs DEF ExpandAndMask, IsRequest
<1>2. CASE Answer(c, r, "notfound") \/ Answer(c, r, "internal")
  BY <1>1, <1>2, AnswerTypes DEF Status
<1>3. CASE AnswerMasked(c, r, r.action, {Expanded(s) : s \in r.shown})
  <2>1. \A e \in {Expanded(s) : s \in r.shown} : e.type \in Type
    <3> SUFFICES ASSUME NEW s \in r.shown PROVE Expanded(s).type \in Type
      OBVIOUS
    <3>1. s.type \in Type
      BY <1>1
    <3>2. Expanded(s).type = s.type
      BY DEF Expanded
    <3> QED BY <3>1, <3>2
  <2> QED BY <1>1, <1>3, <2>1, MaskedTypes
<1> QED
  BY <1>2, <1>3 DEF ExpandAndMask

\* The count of a page keeps the types.
LEMMA CountNodesTypes ==
    ASSUME NoneAreRecords, TypeInv, NEW c \in Visitor, CountNodes(c)
    PROVE  TypeInv'
<1> DEFINE r == WithRule(c, request[c].action, request[c].type)
           rule == RuleOf(c, r, r.action, r.type)
           q == [r EXCEPT !.pc = "rows"]
<1>1. /\ request[c] # Rest /\ IsRequest(request[c])
      /\ request[c].pc = "handler" /\ request[c].op \in {"list", "page"}
  BY AtIs DEF CountNodes, Asks
<1>2. request[c].type \in Type
  BY <1>1 DEF IsRequest
<1>3. IsRequest(r) /\ SameCall(r, request[c])
  BY <1>1, <1>2, RequestEvent, WithRuleIs DEF TypeInv
<1>4. r.pc = "handler" /\ r.op \in {"list", "page"} /\ DOMAIN r = RequestFields
  BY <1>1, <1>3 DEF SameCall, IsRequest
<1>5. rule.status \in {"ok", "refused", "internal"}
  BY <1>3, RuleOfIs
<1>6. \/ Answer(c, request[c], "notfound")
      \/ rule.status # "ok" /\ Answer(c, r, rule.status)
      \/ Answer(c, r, "ok")
      \/ Goes(c, q)
  BY DEF CountNodes
<1> HIDE DEF r, rule
<1>7. CASE rule.status # "ok" /\ Answer(c, r, rule.status)
  BY <1>1, <1>3, <1>5, <1>7, AnswerTypes DEF Status
<1>8. CASE Answer(c, request[c], "notfound")
  BY <1>1, <1>8, AnswerTypes DEF Status
<1>9. CASE Answer(c, r, "ok")
  BY <1>1, <1>3, <1>9, AnswerTypes DEF Status
<1>10. CASE Goes(c, q)
  <2>1. /\ DOMAIN q = RequestFields /\ q.pc = "rows" /\ q.op = r.op
        /\ q.action = r.action /\ q.type = r.type /\ q.actor = r.actor /\ q.principal = r.principal
        /\ q.rules = r.rules /\ q.status = r.status
    BY <1>4 DEF RequestFields
  <2> HIDE DEF q
  <2>2. IsCall(q)
    BY <1>3, <1>4, <2>1 DEF IsCall, IsRequest
  <2>3. IsRequest(q)
    BY <1>3, <1>4, <2>1, <2>2, NextCall
  <2> QED BY <1>1, <1>10, <2>3, GoesTypes
<1> QED
  BY <1>6, <1>7, <1>8, <1>9, <1>10

\* The rows of a type have it.
LEMMA MatchingAre ==
    ASSUME IsTable(nodes), NEW c, NEW r, NEW type, NEW n \in Matching(c, r, type)
    PROVE  n \in Live(nodes) /\ nodes[n].type = type /\ nodes[n].type \in Type /\ Shown(n, nodes[n]).type \in Type
BY DEF Matching, IsTable, IsRow, Shown

\* The rows of a page keep the types.
LEMMA GetNodesTypes ==
    ASSUME NoneAreRecords, TypeInv, NEW c \in Visitor, GetNodes(c)
    PROVE  TypeInv'
<1> DEFINE r == request[c]
           rows == {Shown(n, nodes[n]) : n \in Matching(c, r, r.type)}
           q == [r EXCEPT !.pc = "expand", !.shown = rows]
<1>1. /\ request[c] # Rest /\ IsRequest(r) /\ DOMAIN r = RequestFields
      /\ r.pc = "rows" /\ r.op \in {"list", "page"}
  BY AtIs DEF GetNodes, IsRequest, IsCall
<1>2. \A s \in rows : s.type \in Type
  BY MatchingAre DEF TypeInv
<1>3. \/ AnswerMasked(c, r, r.action, rows)
      \/ r.op # "list" /\ Goes(c, q)
  BY DEF GetNodes
<1> HIDE DEF r, rows
<1>4. CASE AnswerMasked(c, r, r.action, rows)
  BY <1>1, <1>2, <1>4, MaskedTypes
<1>5. CASE r.op # "list" /\ Goes(c, q)
  <2>1. /\ DOMAIN q = RequestFields /\ q.pc = "expand" /\ q.shown = rows /\ q.op = r.op
        /\ q.action = r.action /\ q.type = r.type /\ q.actor = r.actor /\ q.principal = r.principal
        /\ q.rules = r.rules /\ q.status = r.status
    BY <1>1 DEF RequestFields
  <2> HIDE DEF q
  <2>2. IsCall(q)
    BY <1>1, <1>5, <2>1 DEF IsCall, IsRequest
  <2>3. IsRequest(q)
    BY <1>1, <1>2, <2>1, <2>2, NextCall
  <2> QED BY <1>1, <1>5, <2>3, GoesTypes
<1> QED
  BY <1>3, <1>4, <1>5

\* A search keeps the types.
LEMMA SearchTypes ==
    ASSUME NoneAreRecords, TypeInv, NEW c \in Visitor, Search(c)
    PROVE  TypeInv'
<1> DEFINE r == WithActor(c, request[c])
           targets == {[type |-> t] : t \in Searchable}
           status == MaskStatus([t \in Type |-> RuleOf(c, r, "search", t)], targets)
           rows == UNION {{Shown(n, nodes[n]) : n \in Matching(c, r, t)} : t \in Searchable}
<1>1. request[c] # Rest /\ IsRequest(request[c])
  BY AtIs DEF Search
<1>2. IsRequest(r)
  BY <1>1, WithActorIs DEF TypeInv
<1>3. \/ status # "ok" /\ Answer(c, r, status)
      \/ AnswerMasked(c, r, "search", rows)
  BY DEF Search
<1>4. status \in {"ok", "refused", "internal"}
  <2>1. \A s \in targets : s.type \in Type
    BY RequestAssumption
  <2> HIDE DEF r, targets
  <2> QED BY <1>2, <2>1, MaskStatusIs
<1>5. \A s \in rows : s.type \in Type
  BY MatchingAre DEF TypeInv
<1> HIDE DEF r, status, rows
<1>6. CASE status # "ok" /\ Answer(c, r, status)
  BY <1>1, <1>2, <1>4, <1>6, AnswerTypes DEF Status
<1>7. CASE AnswerMasked(c, r, "search", rows)
  BY <1>1, <1>2, <1>5, <1>7, MaskedTypes
<1> QED
  BY <1>3, <1>6, <1>7

-----------------------------------------------------------------------------
\* The gate's refusal keeps the types.
LEMMA DeniedTypes ==
    ASSUME TypeInv, NEW c \in Visitor, request[c] # Rest, IsRequest(request[c]), Denied(c)
    PROVE  TypeInv'
<1>1. IsRequest(WithActor(c, request[c]))
  BY WithActorIs DEF TypeInv
<1>2. DeniedWrite(WithActor(c, request[c]).actor.kind) \in Status \ {"none"}
  BY DEF DeniedWrite, Status
<1> QED
  BY <1>1, <1>2, AnswerTypes DEF Denied

\* Looking up the node of a write keeps the types.
LEMMA FindTypes ==
    ASSUME NoneAreRecords, TypeInv, NEW c \in Visitor, FindByPath(c) \/ FindById(c)
    PROVE  TypeInv'
<1> DEFINE r == request[c]
           q == [r EXCEPT !.pc = "fire", !.held = nodes[r.id]]
<1>1. /\ request[c] # Rest /\ IsRequest(r) /\ DOMAIN r = RequestFields
      /\ r.pc = "handler" /\ r.op \in {"update", "delete"}
  BY AtIs DEF FindByPath, FindById, Asks
<1>2. \/ Denied(c)
      \/ Answer(c, r, "notfound")
      \/ r.id \in Live(nodes) /\ Goes(c, q)
  BY DEF FindByPath, FindById
<1>3. CASE Denied(c)
  BY <1>1, <1>3, DeniedTypes
<1>4. CASE Answer(c, r, "notfound")
  BY <1>1, <1>4, AnswerTypes DEF Status
<1>5. CASE r.id \in Live(nodes) /\ Goes(c, q)
  <2>1. /\ DOMAIN q = RequestFields /\ q.pc = "fire" /\ q.held = nodes[r.id] /\ q.op = r.op
        /\ q.action = r.action /\ q.type = r.type /\ q.actor = r.actor /\ q.principal = r.principal
        /\ q.rules = r.rules /\ q.status = r.status
    BY <1>1 DEF RequestFields
  <2>2. IsRow(nodes[r.id])
    BY <1>5 DEF TypeInv, IsTable
  <2> HIDE DEF q, r
  <2>3. IsCall(q)
    BY <1>1, <2>1 DEF IsCall, IsRequest
  <2>4. IsRequest(q)
    BY <1>1, <2>1, <2>2, <2>3, NextCall
  <2> QED BY <1>1, <1>5, <2>4, GoesTypes
<1> QED
  BY <1>2, <1>3, <1>4, <1>5

\* The gate lets a write through to the engine.
LEMMA ToCommit ==
    ASSUME NEW r, IsRequest(r), r.pc \in {"handler", "fire"}, r.op \in WriteAction, NEW fields
    PROVE  LET q == [r EXCEPT !.pc = "commit", !.fields = fields]
           IN  /\ IsRequest(q)
               /\ q.op = r.op /\ q.action = r.action /\ q.route = r.route /\ q.type = r.type
               /\ q.id = r.id /\ q.submitted = r.submitted /\ q.revision = r.revision
               /\ q.actor = r.actor /\ q.principal = r.principal /\ q.rules = r.rules
               /\ q.held = r.held /\ q.status = r.status /\ q.shown = r.shown
               /\ q.pc = "commit" /\ q.fields = fields
<1> DEFINE q == [r EXCEPT !.pc = "commit", !.fields = fields]
<1>1. DOMAIN r = RequestFields
  BY DEF IsRequest
<1>2. /\ DOMAIN q = RequestFields
      /\ q.op = r.op /\ q.action = r.action /\ q.route = r.route /\ q.type = r.type
      /\ q.id = r.id /\ q.submitted = r.submitted /\ q.revision = r.revision
      /\ q.actor = r.actor /\ q.principal = r.principal /\ q.rules = r.rules
      /\ q.held = r.held /\ q.status = r.status /\ q.shown = r.shown
      /\ q.pc = "commit" /\ q.fields = fields
  BY <1>1 DEF RequestFields
<1> HIDE DEF q
<1>3. IsCall(q)
  BY <1>2 DEF IsCall, IsRequest
<1>4. IsRequest(q)
  BY <1>2, <1>3, NextCall
<1> QED
  BY <1>2, <1>4 DEF q

\* The gate of a write ends in one of four ways.
LEMMA WriteStatusIs ==
    ASSUME NEW fired, NEW submitted, NEW decoded
    PROVE  WriteStatus(fired, submitted, decoded) \in {"ok", "refused", "forbidden", "invalid"}
BY DEF WriteStatus

\* The gate of a create keeps the types.
LEMMA FireCreateTypes ==
    ASSUME NoneAreRecords, TypeInv, NEW c \in Visitor, FireCreate(c)
    PROVE  TypeInv'
<1> DEFINE r == WithActor(c, request[c])
           fired == Fired(r, r.type, << >>)
           status == WriteStatus(fired, DOMAIN r.submitted, r.route)
<1>1. request[c] # Rest /\ IsRequest(request[c]) /\ request[c].pc = "handler" /\ request[c].op = "create"
  BY AtIs DEF FireCreate, Asks
<1>2. IsRequest(r) /\ r.pc = "handler" /\ r.op \in WriteAction
  BY <1>1, WithActorIs DEF TypeInv, SameCall, WriteAction
<1>3. status \in {"ok", "refused", "forbidden", "invalid"}
  BY WriteStatusIs
<1>4. \/ Denied(c)
      \/ status # "ok" /\ Answer(c, r, status)
      \/ Goes(c, [r EXCEPT !.pc = "commit", !.fields = fired.out.fields])
  BY DEF FireCreate
<1> HIDE DEF r, fired, status
<1>5. CASE Denied(c)
  BY <1>1, <1>5, DeniedTypes
<1>6. CASE status # "ok" /\ Answer(c, r, status)
  BY <1>1, <1>2, <1>3, <1>6, AnswerTypes DEF Status
<1>7. CASE Goes(c, [r EXCEPT !.pc = "commit", !.fields = fired.out.fields])
  <2>1. IsRequest([r EXCEPT !.pc = "commit", !.fields = fired.out.fields])
    BY <1>2, ToCommit
  <2> QED BY <1>1, <1>7, <2>1, GoesTypes
<1> QED
  BY <1>4, <1>5, <1>6, <1>7

\* The gate of an update or a delete keeps the types.
LEMMA FireChangeTypes ==
    ASSUME NoneAreRecords, TypeInv, NEW c \in Visitor, FireChange(c)
    PROVE  TypeInv'
<1> DEFINE r == WithActor(c, request[c])
           stored == IF r.id \in Live(nodes) THEN nodes[r.id].fields ELSE << >>
           fired == Fired(r, r.held.type, stored)
           status == IF r.op = "delete"
                     THEN (IF fired.end = "ok" THEN "ok" ELSE "refused")
                     ELSE WriteStatus(fired, DOMAIN r.submitted, r.route)
<1>1. /\ request[c] # Rest /\ IsRequest(request[c])
      /\ request[c].pc = "fire" /\ request[c].op \in {"update", "delete"}
  BY AtIs DEF FireChange, IsRequest, IsCall
<1>2. IsRequest(r) /\ r.pc = "fire" /\ r.op \in WriteAction
  BY <1>1, WithActorIs DEF TypeInv, SameCall, WriteAction
<1>3. status \in {"ok", "refused", "forbidden", "invalid"}
  BY WriteStatusIs
<1>4. \/ status # "ok" /\ Answer(c, r, status)
      \/ Goes(c, [r EXCEPT !.pc = "commit", !.fields = fired.out.fields])
  BY DEF FireChange
<1> HIDE DEF r, fired, status
<1>5. CASE status # "ok" /\ Answer(c, r, status)
  BY <1>1, <1>2, <1>3, <1>5, AnswerTypes DEF Status
<1>6. CASE Goes(c, [r EXCEPT !.pc = "commit", !.fields = fired.out.fields])
  <2>1. IsRequest([r EXCEPT !.pc = "commit", !.fields = fired.out.fields])
    BY <1>2, ToCommit
  <2> QED BY <1>1, <1>6, <2>1, GoesTypes
<1> QED
  BY <1>4, <1>5, <1>6

\* The admin accounts start well typed.
LEMMA AccountTypeInit == AccountInit \/ LoggedInInit => AccountTypeOK
<1>1. 1 \in Key /\ 0 \in 0 .. MaxKey /\ 1 \in 0 .. MaxKey
  BY AccountAssumption DEF Key
<1>2. ASSUME AccountInit PROVE AccountTypeOK
  BY <1>1, <1>2 DEF AccountInit, AccountTypeOK, Session
<1>3. ASSUME LoggedInInit PROVE AccountTypeOK
  BY <1>1, <1>3 DEF LoggedInInit, AccountTypeOK, Session
<1> QED
  BY <1>2, <1>3

\* A request that a browser is in the middle of is one of three.
LEMMA VisitTypes ==
    ASSUME AccountTypeOK, NEW b \in Browser, visit[b] # Rest
    PROVE  /\ visit[b].op = "login" => visit[b] \in Login /\ visit[b].password \in Password
           /\ visit[b].op = "write" => visit[b] \in Change /\ visit[b].password \in Password
BY DEF AccountTypeOK, Login, Change, Admitted

\* Every step of the admin accounts keeps their types.
LEMMA AccountTypeNext == AccountTypeOK /\ [AccountNext]_accountVars => AccountTypeOK'
<1> SUFFICES ASSUME AccountTypeOK, [AccountNext]_accountVars PROVE AccountTypeOK'
  OBVIOUS
<1> USE DEF AccountTypeOK
<1>1. ASSUME NEW b \in Browser, NEW p \in Password, VerifyPassword(b, p) PROVE AccountTypeOK'
  <2>1. [op |-> "login", password |-> p] \in Login
    BY DEF Login
  <2> QED
    BY <1>1, <2>1 DEF VerifyPassword
<1>2. ASSUME NEW b \in Browser, NewSession(b) PROVE AccountTypeOK'
  <2>1. visit[b].password \in Password
    BY <1>2, VisitTypes DEF NewSession
  <2>2. issued + 1 \in Key /\ issued + 1 \in 0 .. MaxKey
    BY <1>2, AccountAssumption DEF NewSession, Key
  <2>3. session' \in Session /\ cookie' \in [Browser -> Key \cup {NoKey}]
    BY <1>2, <2>2 DEF NewSession, Session
  <2>4. verified' \in [Key -> Password] /\ raced' \in SUBSET Key /\ issued' \in 0 .. MaxKey
    BY <1>2, <2>1, <2>2 DEF NewSession
  <2> QED
    BY <1>2, <2>3, <2>4 DEF NewSession
<1>3. ASSUME NEW b \in Browser, RequireAuth(b) PROVE AccountTypeOK'
  <2>1. [op |-> "admitted"] \in Admitted
    BY DEF Admitted
  <2> QED
    BY <1>3, <2>1 DEF RequireAuth
<1>4. ASSUME NEW b \in Browser, Logout(b) PROVE AccountTypeOK'
  BY <1>4 DEF Logout, Session
<1>5. ASSUME NEW b \in Browser, NEW old \in Password, NEW p \in Password, VerifyOld(b, old, p)
      PROVE  AccountTypeOK'
  <2>1. [op |-> "write", password |-> p] \in Change
    BY DEF Change
  <2> QED
    BY <1>5, <2>1 DEF VerifyOld
<1>6. ASSUME NEW b \in Browser, SetPassword(b) PROVE AccountTypeOK'
  <2>1. visit[b].password \in Password
    BY <1>6, VisitTypes DEF SetPassword
  <2> QED
    BY <1>6, <2>1 DEF SetPassword, Session
<1>7. ASSUME Expire PROVE AccountTypeOK'
  BY <1>7 DEF Expire, Session
<1>8. ASSUME NEW b \in Browser, Leave(b) PROVE AccountTypeOK'
  BY <1>8 DEF Leave
<1>9. ASSUME UNCHANGED accountVars PROVE AccountTypeOK'
  BY <1>9 DEF accountVars
<1> QED
  BY <1>1, <1>2, <1>3, <1>4, <1>5, <1>6, <1>7, <1>8, <1>9 DEF AccountNext

-----------------------------------------------------------------------------
(***************************************************************************)
(* A browser is let in by the one key that the account holds.  So it is    *)
(* enough that this key, while it is valid, was given for the password     *)
(* that the account now has, unless it is one of raced.                    *)
(***************************************************************************)
KeyIsOfPassword ==
    session.live /\ session.key # NoKey =>
        verified[session.key] = password \/ session.key \in raced

\* The sessions of the admin accounts start bound to a password of the account.
LEMMA KeyInit == AccountInit \/ LoggedInInit => KeyIsOfPassword
<1>1. 1 \in Key
  BY AccountAssumption DEF Key
<1> QED
  BY <1>1 DEF AccountInit, LoggedInInit, KeyIsOfPassword

\* Every step keeps the sessions bound: a changed password ends those of the old one.
LEMMA KeyNext ==
    AccountTypeOK /\ KeyIsOfPassword /\ [AccountNext]_accountVars => KeyIsOfPassword'
<1> SUFFICES ASSUME AccountTypeOK, KeyIsOfPassword, [AccountNext]_accountVars
             PROVE  KeyIsOfPassword'
  OBVIOUS
<1> USE DEF KeyIsOfPassword
<1>1. ASSUME NEW b \in Browser, NewSession(b) PROVE KeyIsOfPassword'
  <2>1. issued + 1 \in Key
    BY <1>1, AccountAssumption DEF NewSession, AccountTypeOK, Key
  <2>2. /\ session' = [key |-> issued + 1, live |-> TRUE]
        /\ verified'[issued + 1] = visit[b].password
        /\ password' = password
        /\ visit[b].password # password => issued + 1 \in raced'
    BY <1>1, <2>1 DEF NewSession, AccountTypeOK
  <2> QED
    BY <2>2
<1>2. ASSUME NEW b \in Browser, Logout(b) \/ SetPassword(b) PROVE KeyIsOfPassword'
  BY <1>2 DEF Logout, SetPassword
<1>3. ASSUME Expire PROVE KeyIsOfPassword'
  BY <1>3 DEF Expire, AccountTypeOK, Session
<1>4. ASSUME UNCHANGED <<password, session, verified, raced>> PROVE KeyIsOfPassword'
  BY <1>4
<1>5. ASSUME NEW b \in Browser, NEW p \in Password, VerifyPassword(b, p) PROVE KeyIsOfPassword'
  BY <1>4, <1>5 DEF VerifyPassword
<1>6. ASSUME NEW b \in Browser, NEW old \in Password, NEW p \in Password, VerifyOld(b, old, p)
      PROVE  KeyIsOfPassword'
  BY <1>4, <1>6 DEF VerifyOld
<1>7. ASSUME NEW b \in Browser, RequireAuth(b) \/ Leave(b) PROVE KeyIsOfPassword'
  BY <1>4, <1>7 DEF RequireAuth, Leave
<1>8. ASSUME UNCHANGED accountVars PROVE KeyIsOfPassword'
  BY <1>4, <1>8 DEF accountVars
<1> QED
  BY <1>1, <1>2, <1>3, <1>5, <1>6, <1>7, <1>8 DEF AccountNext

-----------------------------------------------------------------------------
\* What a write of the engine leaves of the request.
LEMMA CommitCreateTypes ==
    ASSUME NoneAreRecords, TypeInv, NEW c \in Visitor, CommitCreate(c)
    PROVE  TypeInv'
<1> DEFINE r == request[c]
<1>1. /\ request[c] # Rest /\ IsRequest(r) /\ DOMAIN r = RequestFields /\ r.pc = "commit" /\ r.op = "create"
      /\ r.type \in Type
  BY AtIs DEF CommitCreate, Asks, IsRequest
<1>2. \/ Answer(c, r, "invalid")
      \/ \E id \in NextIds(nodes) :
           Wrote(c, WithCreated(id, r.type, r.fields), [r EXCEPT !.pc = "readback", !.id = id])
  BY DEF CommitCreate
<1>3. CASE Answer(c, r, "invalid")
  BY <1>1, <1>3, AnswerTypes DEF Status
<1>4. ASSUME NEW id \in NextIds(nodes),
             Wrote(c, WithCreated(id, r.type, r.fields), [r EXCEPT !.pc = "readback", !.id = id])
      PROVE  TypeInv'
  <2> DEFINE q == [r EXCEPT !.pc = "readback", !.id = id]
  <2>1. /\ DOMAIN q = RequestFields /\ q.pc = "readback" /\ q.op = r.op
        /\ q.action = r.action /\ q.type = r.type /\ q.actor = r.actor /\ q.principal = r.principal
        /\ q.rules = r.rules /\ q.status = r.status
    BY <1>1 DEF RequestFields
  <2>2. IsTable(WithCreated(id, r.type, r.fields))
    <3>1. id \in NodeId
      BY DEF NextIds
    <3> QED BY <1>1, <3>1, CreatedTable DEF TypeInv
  <2>3. Wrote(c, WithCreated(id, r.type, r.fields), q)
    BY <1>4
  <2> HIDE DEF q, r
  <2>4. IsCall(q)
    BY <1>1, <2>1 DEF IsCall, IsRequest
  <2>5. IsRequest(q)
    BY <1>1, <2>1, <2>4, NextCall
  <2> QED BY <1>1, <2>2, <2>3, <2>5, WroteTypes
<1> QED
  BY <1>2, <1>3, <1>4

\* The commit of a patch keeps the types.
LEMMA CommitUpdateTypes ==
    ASSUME NoneAreRecords, TypeInv, NEW c \in Visitor, CommitUpdate(c)
    PROVE  TypeInv'
<1> DEFINE r == request[c]
           after == IF r.route THEN Answered(r, "ok", {}) ELSE [r EXCEPT !.pc = "readback"]
<1>1. request[c] # Rest /\ IsRequest(r) /\ DOMAIN r = RequestFields /\ r.pc = "commit" /\ r.op = "update"
  BY AtIs DEF CommitUpdate, Asks
<1>2. \/ Answer(c, r, "notfound")
      \/ Goes(c, after)
      \/ Answer(c, r, "invalid")
      \/ Answer(c, r, "conflict")
      \/ /\ r.id \in Live(nodes)
         /\ nodes[r.id].revision < MaxRevision
         /\ Wrote(c, WithPatched(r.id, r.fields), after)
  BY DEF CommitUpdate
<1>3. IsRequest(after)
  <2> DEFINE q == [r EXCEPT !.pc = "readback"]
  <2>1. /\ DOMAIN q = RequestFields /\ q.pc = "readback" /\ q.op = r.op
        /\ q.action = r.action /\ q.type = r.type /\ q.actor = r.actor /\ q.principal = r.principal
        /\ q.rules = r.rules /\ q.status = r.status
    BY <1>1 DEF RequestFields
  <2>2. IsRequest(Answered(r, "ok", {}))
    BY <1>1, AnsweredIs DEF Status
  <2> HIDE DEF q, r
  <2>3. IsCall(q)
    BY <1>1, <2>1 DEF IsCall, IsRequest
  <2>4. IsRequest(q)
    BY <1>1, <2>1, <2>3, NextCall
  <2> QED BY <2>2, <2>4 DEF q
<1> HIDE DEF after
<1>4. CASE Answer(c, r, "notfound") \/ Answer(c, r, "invalid") \/ Answer(c, r, "conflict")
  BY <1>1, <1>4, AnswerTypes DEF Status
<1>5. CASE Goes(c, after)
  BY <1>1, <1>3, <1>5, GoesTypes
<1>6. CASE /\ r.id \in Live(nodes)
           /\ nodes[r.id].revision < MaxRevision
           /\ Wrote(c, WithPatched(r.id, r.fields), after)
  <2>1. IsTable(WithPatched(r.id, r.fields))
    BY <1>6, PatchedTable DEF TypeInv
  <2> QED BY <1>1, <1>3, <1>6, <2>1, WroteTypes
<1> QED
  BY <1>2, <1>4, <1>5, <1>6

\* The commit of a delete keeps the types.
LEMMA CommitDeleteTypes ==
    ASSUME NoneAreRecords, TypeInv, NEW c \in Visitor, CommitDelete(c)
    PROVE  TypeInv'
<1> DEFINE r == request[c]
<1>1. request[c] # Rest /\ IsRequest(r)
  BY AtIs DEF CommitDelete
<1>2. \/ Answer(c, r, "notfound")
      \/ Answer(c, r, "restricted")
      \/ /\ r.id \in Live(nodes)
         /\ Wrote(c, [nodes EXCEPT ![r.id] = NoNode], Answered(r, "ok", {}))
  BY DEF CommitDelete
<1>3. CASE Answer(c, r, "notfound") \/ Answer(c, r, "restricted")
  BY <1>1, <1>3, AnswerTypes DEF Status
<1>4. CASE /\ r.id \in Live(nodes)
           /\ Wrote(c, [nodes EXCEPT ![r.id] = NoNode], Answered(r, "ok", {}))
  <2>1. IsTable([nodes EXCEPT ![r.id] = NoNode])
    BY <1>4, DeletedTable DEF TypeInv, Live
  <2>2. IsRequest(Answered(r, "ok", {}))
    BY <1>1, AnsweredIs DEF Status
  <2> QED BY <1>1, <1>4, <2>1, <2>2, WroteTypes
<1> QED
  BY <1>2, <1>3, <1>4

\* Reading back what was written keeps the types.
LEMMA ReadBackTypes ==
    ASSUME NoneAreRecords, TypeInv, NEW c \in Visitor, ReadBack(c)
    PROVE  TypeInv'
<1> DEFINE r == request[c]
<1>1. request[c] # Rest /\ IsRequest(r)
  BY AtIs DEF ReadBack
<1>2. CASE Answer(c, r, "notfound")
  BY <1>1, <1>2, AnswerTypes DEF Status
<1>3. CASE r.id \in Live(nodes) /\ AnswerMasked(c, r, "view", {Shown(r.id, nodes[r.id])})
  <2>1. \A s \in {Shown(r.id, nodes[r.id])} : s.type \in Type
    BY <1>3 DEF TypeInv, IsTable, IsRow, Shown
  <2> QED BY <1>1, <1>3, <2>1, MaskedTypes
<1> QED
  BY <1>2, <1>3 DEF ReadBack

\* A write of the admin backend keeps the types.
LEMMA EditorTypes ==
    ASSUME TypeInv, NEW b, NEW N, IsTable(N), EditorWrote(b, N)
    PROVE  TypeInv'
<1>1. Stores(N) /\ UNCHANGED <<site, request, accountVars>>
  BY DEF EditorWrote
<1>2. DOMAIN request' = Visitor
      /\ \A d \in Visitor : request'[d] # Rest => request[d] # Rest /\ IsRequest(request'[d])
  BY <1>1 DEF TypeInv
<1> QED
  BY <1>1, <1>2, StoresTypes

\* An editor who creates, patches or deletes keeps the types.
LEMMA EditorsTypes ==
    ASSUME NoneAreRecords, TypeInv, NEW b,
           \/ \E t \in Type : \E fields : EditorCreate(b, t, fields)
           \/ \E n, patch, revision : EditorPatch(b, n, patch, revision)
           \/ \E n : EditorDelete(b, n)
    PROVE  TypeInv'
<1>1. ASSUME NEW t \in Type, NEW fields, EditorCreate(b, t, fields) PROVE TypeInv'
  <2>1. PICK id \in NextIds(nodes) : EditorWrote(b, WithCreated(id, t, fields))
    BY <1>1 DEF EditorCreate
  <2>2. id \in NodeId
    BY DEF NextIds
  <2> QED BY <2>1, <2>2, CreatedTable, EditorTypes DEF TypeInv
<1>2. ASSUME NEW n, NEW patch, NEW revision, EditorPatch(b, n, patch, revision) PROVE TypeInv'
  <2>1. n \in Live(nodes) /\ nodes[n].revision < MaxEdited /\ EditorWrote(b, WithPatched(n, patch))
    BY <1>2 DEF EditorPatch
  <2>2. nodes[n].revision \in Nat
    BY <2>1, RequestAssumption DEF TypeInv, IsTable, IsRow
  <2>3. nodes[n].revision < MaxRevision
    BY <2>1, <2>2, RequestAssumption
  <2> QED BY <2>1, <2>3, PatchedTable, EditorTypes DEF TypeInv
<1>3. ASSUME NEW n, EditorDelete(b, n) PROVE TypeInv'
  <2>1. n \in NodeId /\ EditorWrote(b, [nodes EXCEPT ![n] = NoNode])
    BY <1>3 DEF EditorDelete, Live
  <2> QED BY <2>1, DeletedTable, EditorTypes DEF TypeInv
<1> QED
  BY <1>1, <1>2, <1>3

\* A step of the admin accounts leaves the site alone.
LEMMA AccountStepTypes ==
    ASSUME TypeInv, AccountStep
    PROVE  TypeInv'
<1>1. AccountTypeOK'
  BY AccountTypeNext DEF AccountStep, TypeInv
<1>2. UNCHANGED <<nodes, sessions, site, request, past>>
  BY DEF AccountStep, siteVars
<1> QED
  BY <1>1, <1>2 DEF TypeInv

\* The initial states have the types.
LEMMA TypesInitially ==
    ASSUME NoneAreRecords, Init
    PROVE  TypeInv
<1>1. AccountTypeOK
  BY AccountTypeInit DEF Init
<1>2. IsSite(site)
  BY RegisteredSite DEF Init
<1>3. IsTable(nodes)
  BY StartAssumption DEF Init, IsTable, IsRow
<1>4. sessions \in [Visitor -> NodeId \cup {Nobody}]
  BY RequestAssumption DEF Init
<1> QED
  BY <1>1, <1>2, <1>3, <1>4 DEF Init, TypeInv

-----------------------------------------------------------------------------
\* The typing theorem, and the admin accounts.

\* A visitor asks for something.
Begins(c) ==
    \E op \in ReadOp \cup WriteAction, route \in BOOLEAN, type \in Type :
    \E action, id, submitted, revision :
        /\ CASE op = "view" -> action \in {"view", "mine"}
             [] op = "page" -> action \in {"list", "mine"}
             [] op \notin {"view", "page"} -> action = op
        /\ op \in {"update", "delete"} => id \in NodeId /\ revision \in Nat
        /\ Begin(c, op, action, route, type, id, submitted, revision)

\* The next call of a request.
Reads(c) ==
    \/ GetNode(c) \/ CheckVisible(c) \/ ExpandAndMask(c)
    \/ CountNodes(c) \/ GetNodes(c) \/ Search(c) \/ ReadBack(c)
\* The calls of Next, by what they do.
Fires(c) == FindByPath(c) \/ FindById(c) \/ FireCreate(c) \/ FireChange(c)
Commits(c) == CommitCreate(c) \/ CommitUpdate(c) \/ CommitDelete(c)

Edits ==
    \E b : \/ \E t \in Type : \E fields : EditorCreate(b, t, fields)
           \/ \E n, patch, revision : EditorPatch(b, n, patch, revision)
           \/ \E n : EditorDelete(b, n)

\* Every request that Next can begin is one that Begins describes.
LEMMA BeginsAll ==
    ASSUME TypeInv, NEW c \in Visitor
    PROVE  /\ \A t \in Type, n \in NodeId : BeginRead(c, "view", "view", TRUE, t, n) => Begins(c)
           /\ \A n \in NodeId : BeginRead(c, "view", "mine", FALSE, RealmType, n) => Begins(c)
           /\ \A t \in Type : BeginRead(c, "list", "list", TRUE, t, Nobody) => Begins(c)
           /\ \A t \in Type, action \in {"list", "mine"} :
                BeginRead(c, "page", action, FALSE, t, Nobody) => Begins(c)
           /\ BeginRead(c, "search", "search", FALSE, RealmType, Nobody) => Begins(c)
           /\ \A t \in Type, route \in BOOLEAN : \A fields :
                BeginWrite(c, "create", route, t, Nobody, fields, 1) => Begins(c)
           /\ \A route \in BOOLEAN, n \in NodeId, t \in Type : \A patch :
                \A revision \in Revision : BeginWrite(c, "update", route, t, n, patch, revision) => Begins(c)
           /\ \A route \in BOOLEAN, n \in NodeId, t \in Type :
                BeginWrite(c, "delete", route, t, n, << >>, 1) => Begins(c)
<1>1. ASSUME NEW op \in ReadOp \cup WriteAction, NEW action, NEW route \in BOOLEAN, NEW type \in Type, NEW id,
             NEW submitted, NEW revision,
             CASE op = "view" -> action \in {"view", "mine"}
               [] op = "page" -> action \in {"list", "mine"}
               [] op \notin {"view", "page"} -> action = op,
             op \in {"update", "delete"} => id \in NodeId /\ revision \in Nat,
             Begin(c, op, action, route, type, id, submitted, revision)
      PROVE  Begins(c)
  BY <1>1, Zenon DEF Begins
<1>2. ReadOp \cup WriteAction = {"view", "list", "page", "search", "create", "update", "delete"}
  BY DEF ReadOp, WriteAction
<1>3. RealmType \in Type
  BY RequestAssumption
<1>4. \A t \in Type, n \in NodeId : BeginRead(c, "view", "view", TRUE, t, n) => Begins(c)
  BY <1>1, <1>2 DEF BeginRead
<1>5. \A n \in NodeId : BeginRead(c, "view", "mine", FALSE, RealmType, n) => Begins(c)
  BY <1>1, <1>2, <1>3 DEF BeginRead
<1>6. \A t \in Type : BeginRead(c, "list", "list", TRUE, t, Nobody) => Begins(c)
  BY <1>1, <1>2 DEF BeginRead
<1>7. \A t \in Type, action \in {"list", "mine"} :
        BeginRead(c, "page", action, FALSE, t, Nobody) => Begins(c)
  BY <1>1, <1>2 DEF BeginRead
<1>8. BeginRead(c, "search", "search", FALSE, RealmType, Nobody) => Begins(c)
  BY <1>1, <1>2, <1>3 DEF BeginRead
<1>9. \A t \in Type, route \in BOOLEAN : \A fields :
        BeginWrite(c, "create", route, t, Nobody, fields, 1) => Begins(c)
  BY <1>1, <1>2 DEF BeginWrite
<1>10. \A route \in BOOLEAN, n \in NodeId, t \in Type : \A patch :
         \A revision \in Revision : BeginWrite(c, "update", route, t, n, patch, revision) => Begins(c)
  <2>1. \A revision \in Revision : revision \in Nat
    BY RequestAssumption
  <2> QED BY <1>1, <1>2, <2>1 DEF BeginWrite
<1>11. \A route \in BOOLEAN, n \in NodeId, t \in Type :
         BeginWrite(c, "delete", route, t, n, << >>, 1) => Begins(c)
  BY <1>1, <1>2 DEF BeginWrite
<1> QED
  BY <1>4, <1>5, <1>6, <1>7, <1>8, <1>9, <1>10, <1>11

\* Every step is one of these.
LEMMA StepKinds ==
    ASSUME TypeInv, Next
    PROVE  \/ \E c \in Visitor : Begins(c) \/ EndRequest(c) \/ EarlyRule(c)
                                   \/ Reads(c) \/ Fires(c) \/ Commits(c)
           \/ \E c \in Visitor, a \in OtherActor : SetActor(c, a)
           \/ Edits
           \/ AccountStep
<1>1. \A c \in Visitor, route \in BOOLEAN : \A t \in PathType(route) : t \in Type
  BY RequestAssumption DEF PathType
<1>2. \/ \E c \in Visitor : Begins(c)
      \/ \E c \in Visitor : EndRequest(c) \/ EarlyRule(c) \/ Reads(c) \/ Fires(c) \/ Commits(c)
      \/ \E c \in Visitor, a \in OtherActor : SetActor(c, a)
      \/ \E b \in Browser, t \in Type : \E fields \in EditorInput[t].create : EditorCreate(b, t, fields)
      \/ \E b \in Browser, n \in NodeId, revision \in 1 .. MaxRevision :
           \E patch \in EditorPatches(n) : EditorPatch(b, n, patch, revision)
      \/ \E b \in Browser, n \in NodeId : EditorDelete(b, n)
      \/ AccountStep
  BY <1>1, BeginsAll, Zenon DEF Next, Reads, Fires, Commits
<1> QED
  BY <1>2, Zenon DEF Edits

\* Every step keeps the types.
LEMMA TypesNext ==
    ASSUME NoneAreRecords, TypeInv, [Next]_vars
    PROVE  TypeInv'
<1>1. CASE UNCHANGED vars
  BY <1>1 DEF vars, siteVars, accountVars, TypeInv, AccountTypeOK
<1>2. ASSUME NEW c \in Visitor, Begins(c) PROVE TypeInv'
  BY <1>2, BeginTypes DEF Begins
<1>3. ASSUME NEW c \in Visitor, Reads(c) PROVE TypeInv'
  BY <1>3, GetNodeTypes, CheckVisibleTypes, ExpandAndMaskTypes, CountNodesTypes, GetNodesTypes,
     SearchTypes, ReadBackTypes DEF Reads
<1>4. ASSUME NEW c \in Visitor, Fires(c) PROVE TypeInv'
  BY <1>4, FindTypes, FireCreateTypes, FireChangeTypes DEF Fires
<1>5. ASSUME NEW c \in Visitor, Commits(c) PROVE TypeInv'
  BY <1>5, CommitCreateTypes, CommitUpdateTypes, CommitDeleteTypes DEF Commits
<1>6. ASSUME Edits PROVE TypeInv'
  BY <1>6, EditorsTypes DEF Edits
<1> QED
  BY <1>1, <1>2, <1>3, <1>4, <1>5, <1>6, EndTypes, EarlyRuleTypes, SetActorTypes, AccountStepTypes,
     StepKinds

\* Every request, node, session and admin account keeps its type at any number of
\* visitors, nodes and handlers, and a request is only at calls that its operation makes.
THEOREM SiteTyping == NoneAreRecords => (Spec => []TypeOK)
<1> SUFFICES ASSUME NoneAreRecords PROVE Spec => []TypeOK
  OBVIOUS
<1>1. Init => TypeInv
  BY TypesInitially
<1>2. TypeInv /\ [Next]_vars => TypeInv'
  BY TypesNext
<1>3. TypeInv => TypeOK
  BY DEF TypeInv, TypeOK, IsTable, IsRow, IsRequest, Live
<1> QED
  BY <1>1, <1>2, <1>3, PTL DEF Spec

\* A browser of the admin backend that is let in holds the key of a login with the
\* present password, or one whose login raced the change, whatever the site does
\* meanwhile.
THEOREM ChangeEndsSessions == NoneAreRecords => (Spec => []PasswordChangeEndsSessions)
<1> SUFFICES ASSUME NoneAreRecords PROVE Spec => []PasswordChangeEndsSessions
  OBVIOUS
<1> DEFINE Inv == TypeInv /\ KeyIsOfPassword
<1>1. Init => Inv
  BY TypesInitially, KeyInit DEF Init
<1>2. Inv /\ [Next]_vars => Inv'
  <2> SUFFICES ASSUME Inv, [Next]_vars PROVE KeyIsOfPassword'
    BY TypesNext
  <2>1. ASSUME UNCHANGED accountVars PROVE KeyIsOfPassword'
    BY <2>1 DEF accountVars, KeyIsOfPassword
  <2>2. CASE AccountStep
    BY <2>2, KeyNext DEF AccountStep, TypeInv
  <2>3. CASE UNCHANGED vars
    BY <2>1, <2>3 DEF vars
  <2>4. ASSUME NEW c, NEW r, Goes(c, r) PROVE UNCHANGED accountVars
    BY <2>4 DEF Goes
  <2>5. CASE Next /\ ~ AccountStep
    <3>1. ASSUME NEW c \in Visitor, Begins(c) \/ EndRequest(c) PROVE UNCHANGED accountVars
      BY <3>1 DEF Begins, Begin, EndRequest
    <3>2. ASSUME NEW c \in Visitor, Reads(c) \/ EarlyRule(c) PROVE UNCHANGED accountVars
      BY <2>4, <3>2 DEF Reads, EarlyRule, GetNode, CheckVisible, ExpandAndMask, CountNodes, GetNodes,
                        Search, ReadBack, Answer, AnswerMasked
    <3>3. ASSUME NEW c \in Visitor, Fires(c) PROVE UNCHANGED accountVars
      BY <2>4, <3>3 DEF Fires, FindByPath, FindById, FireCreate, FireChange, Denied, Answer
    <3>4. ASSUME NEW c \in Visitor, Commits(c) PROVE UNCHANGED accountVars
      BY <2>4, <3>4 DEF Commits, CommitCreate, CommitUpdate, CommitDelete, Answer, Wrote
    <3>5. ASSUME NEW c \in Visitor, NEW a, SetActor(c, a) PROVE UNCHANGED accountVars
      BY <2>4, <3>5 DEF SetActor
    <3>6. ASSUME Edits PROVE UNCHANGED accountVars
      BY <3>6 DEF Edits, EditorCreate, EditorPatch, EditorDelete, EditorWrote
    <3> QED BY <2>1, <2>5, <3>1, <3>2, <3>3, <3>4, <3>5, <3>6, StepKinds
  <2> QED BY <2>2, <2>3, <2>5
<1>3. Inv => PasswordChangeEndsSessions
  BY DEF KeyIsOfPassword, PasswordChangeEndsSessions, Authenticates
<1> QED
  BY <1>1, <1>2, <1>3, PTL DEF Spec

-----------------------------------------------------------------------------
\* What is stored is valid.

\* The ways in which a step changes the table.
LEMMA NodesStep ==
    ASSUME TypeInv, [Next]_vars
    PROVE  \/ UNCHANGED nodes
           \/ \E id \in NextIds(nodes), type \in Type : \E fields :
                Creatable(type, fields) /\ nodes' = WithCreated(id, type, fields)
           \/ \E n \in Live(nodes) : \E patch :
                Patchable(n, patch) /\ nodes' = WithPatched(n, patch)
           \/ \E n \in Live(nodes) : ~ Referenced(n) /\ nodes' = [nodes EXCEPT ![n] = NoNode]
<1> DEFINE Changed == \/ UNCHANGED nodes
                      \/ \E id \in NextIds(nodes), type \in Type : \E fields :
                           Creatable(type, fields) /\ nodes' = WithCreated(id, type, fields)
                      \/ \E n \in Live(nodes) : \E patch :
                           Patchable(n, patch) /\ nodes' = WithPatched(n, patch)
                      \/ \E n \in Live(nodes) : ~ Referenced(n) /\ nodes' = [nodes EXCEPT ![n] = NoNode]
<1>1. ASSUME UNCHANGED vars \/ AccountStep PROVE UNCHANGED nodes
  BY <1>1 DEF vars, siteVars, AccountStep
<1>2. ASSUME NEW c, NEW r, Goes(c, r) PROVE UNCHANGED nodes
  BY <1>2 DEF Goes
<1>3. ASSUME NEW c \in Visitor, Begins(c) \/ EndRequest(c) PROVE UNCHANGED nodes
  BY <1>3 DEF Begins, Begin, EndRequest
<1>4. ASSUME NEW c \in Visitor, Reads(c) \/ EarlyRule(c) PROVE UNCHANGED nodes
  BY <1>2, <1>4 DEF Reads, EarlyRule, GetNode, CheckVisible, ExpandAndMask, CountNodes, GetNodes,
                    Search, ReadBack, Answer, AnswerMasked
<1>5. ASSUME NEW c \in Visitor, Fires(c) PROVE UNCHANGED nodes
  BY <1>2, <1>5 DEF Fires, FindByPath, FindById, FireCreate, FireChange, Denied, Answer
<1>6. ASSUME NEW c \in Visitor, NEW a, SetActor(c, a) PROVE UNCHANGED nodes
  BY <1>2, <1>6 DEF SetActor
<1>7. ASSUME NEW c \in Visitor, CommitCreate(c) PROVE Changed
  <2>1. request[c].type \in Type
    BY <1>7, AtIs DEF CommitCreate, IsRequest
  <2>2. \/ UNCHANGED nodes
        \/ \E id \in NextIds(nodes) :
             /\ Creatable(request[c].type, request[c].fields)
             /\ nodes' = WithCreated(id, request[c].type, request[c].fields)
    BY <1>2, <1>7 DEF CommitCreate, Answer, Wrote, Stores
  <2> QED BY <2>1, <2>2, Zenon
<1>8. ASSUME NEW c \in Visitor, CommitUpdate(c) PROVE Changed
  <2> DEFINE r == request[c]
  <2>1. \/ \E q : Goes(c, q)
        \/ /\ r.id \in Live(nodes)
           /\ ValidatePatchFields(nodes[r.id].type, r.fields)
           /\ TargetsExist(nodes, nodes[r.id].type, r.fields)
           /\ \E q : Wrote(c, WithPatched(r.id, r.fields), q)
    BY <1>8 DEF CommitUpdate, Answer
  <2>2. \/ UNCHANGED nodes
        \/ /\ r.id \in Live(nodes)
           /\ Patchable(r.id, r.fields)
           /\ nodes' = WithPatched(r.id, r.fields)
    BY <1>2, <2>1 DEF Wrote, Stores, Patchable
  <2> QED BY <2>2, Zenon
<1>9. ASSUME NEW c \in Visitor, CommitDelete(c) PROVE Changed
  BY <1>2, <1>9 DEF CommitDelete, Answer, Wrote, Stores
<1>10. ASSUME NEW b, NEW t \in Type, NEW fields, EditorCreate(b, t, fields) PROVE Changed
  <2>1. Creatable(t, fields) /\ \E id \in NextIds(nodes) : nodes' = WithCreated(id, t, fields)
    BY <1>10 DEF EditorCreate, EditorWrote, Stores
  <2> QED BY <2>1, Zenon
<1>11. ASSUME NEW b, NEW n, NEW patch, NEW revision, EditorPatch(b, n, patch, revision) PROVE Changed
  <2>1. n \in Live(nodes) /\ Patchable(n, patch) /\ nodes' = WithPatched(n, patch)
    BY <1>11 DEF EditorPatch, EditorWrote, Stores
  <2> QED BY <2>1, Zenon
<1>12. ASSUME NEW b, NEW n, EditorDelete(b, n) PROVE Changed
  BY <1>12 DEF EditorDelete, EditorWrote, Stores
<1> HIDE DEF Changed
<1>13. UNCHANGED nodes => Changed
  BY DEF Changed
<1>14. Edits => Changed
  BY <1>10, <1>11, <1>12 DEF Edits
<1>15. Changed
  <2>1. CASE Next
    <3>1. ASSUME NEW c \in Visitor,
                 Begins(c) \/ EndRequest(c) \/ EarlyRule(c) \/ Reads(c) \/ Fires(c) \/ Commits(c)
          PROVE  Changed
      BY <3>1, <1>3, <1>4, <1>5, <1>7, <1>8, <1>9, <1>13 DEF Commits
    <3>2. ASSUME NEW c \in Visitor, NEW a \in OtherActor, SetActor(c, a) PROVE Changed
      BY <3>2, <1>6, <1>13
    <3>3. AccountStep => Changed
      BY <1>1, <1>13
    <3> QED BY <2>1, <3>1, <3>2, <3>3, <1>14, StepKinds, Zenon
  <2> QED BY <1>1, <2>1, <1>13
<1> QED
  BY <1>15 DEF Changed

\* The defaults of a create fill in no references.
LEMMA DefaultTargets ==
    ASSUME NEW type \in Type, NEW N, NEW fields, TargetsExist(N, type, fields)
    PROVE  TargetsExist(N, type, ApplyDefaults(type, fields))
<1> DEFINE new == ApplyDefaults(type, fields)
           missing == {n \in FieldNames(type) \ DOMAIN fields : FieldDef[type][n].default # Nil}
<1>1. DOMAIN new = DOMAIN fields \cup missing
  BY DEF ApplyDefaults
<1>2. \A f \in DOMAIN fields \ missing : new[f] = fields[f]
  BY DEF ApplyDefaults
<1> HIDE DEF new
<1>3. \A f \in FieldNames(type) : FieldDef[type][f].kind = "ref" => FieldDef[type][f].default = Nil
  BY FieldDefAssumption DEF FieldNames, FieldDefAssumption
<1>4. ASSUME NEW f \in DOMAIN new \cap FieldNames(type), FieldDef[type][f].kind = "ref", new[f] # Nil
      PROVE  new[f] \in Live(N) /\ N[new[f]].type = FieldDef[type][f].to
  <2>1. f \in DOMAIN fields /\ new[f] = fields[f]
    BY <1>1, <1>2, <1>3, <1>4
  <2> QED BY <1>4, <2>1 DEF TargetsExist
<1>5. TargetsExist(N, type, new)
  BY <1>4 DEF TargetsExist
<1> QED
  BY <1>5 DEF new

\* A patch of valid fields leaves valid fields, with their targets.
LEMMA MergedIsValid ==
    ASSUME NEW type, NEW N, NEW fields, NEW patch,
           ValidateFields(type, fields), TargetsExist(N, type, fields),
           ValidatePatchFields(type, patch), TargetsExist(N, type, patch)
    PROVE  /\ ValidateFields(type, Merged(fields, patch))
           /\ TargetsExist(N, type, Merged(fields, patch))
<1> DEFINE new == Merged(fields, patch)
<1>1. \A f : f \in DOMAIN new <=> f \in DOMAIN fields \cup DOMAIN patch /\ ~ (f \in DOMAIN patch /\ patch[f] = Nil)
  BY DEF Merged
<1>2. \A f \in DOMAIN new : new[f] = IF f \in DOMAIN patch THEN patch[f] ELSE fields[f]
  BY DEF Merged
<1> HIDE DEF new
<1>3. DOMAIN new \subseteq FieldNames(type)
  BY <1>1 DEF ValidateFields, ValidatePatchFields
<1>4. \A f \in DOMAIN new : new[f] \notin {Bad, Nil}
  BY <1>1, <1>2 DEF ValidateFields, ValidatePatchFields
<1>5. ASSUME NEW f \in FieldNames(type), FieldDef[type][f].required
      PROVE  f \in DOMAIN new /\ ~ IsEmpty(FieldDef[type][f], new[f])
  <2>1. f \in DOMAIN fields /\ ~ IsEmpty(FieldDef[type][f], fields[f])
    BY <1>5 DEF ValidateFields
  <2>2. f \in DOMAIN patch => patch[f] # Nil /\ ~ IsEmpty(FieldDef[type][f], patch[f])
    BY <1>5 DEF ValidatePatchFields
  <2> QED BY <1>1, <1>2, <2>1, <2>2
<1>6. TargetsExist(N, type, new)
  BY <1>1, <1>2 DEF TargetsExist
<1> QED
  BY <1>3, <1>4, <1>5, <1>6 DEF ValidateFields, new

\* Targets stay, and keep their types.
LEMMA TargetsStay ==
    ASSUME NEW N, NEW M, NEW type, NEW fields, TargetsExist(N, type, fields),
           \A f \in DOMAIN fields \cap FieldNames(type) :
             FieldDef[type][f].kind = "ref" /\ fields[f] \in Live(N) =>
               fields[f] \in Live(M) /\ M[fields[f]].type = N[fields[f]].type
    PROVE  TargetsExist(M, type, fields)
BY DEF TargetsExist

\* Every step keeps the stored fields valid.
LEMMA ValidNext ==
    ASSUME NoneAreRecords, TypeInv, StoredFieldsValid, [Next]_vars
    PROVE  StoredFieldsValid'
<1> DEFINE Valid(N, n) == /\ ValidateFields(N[n].type, N[n].fields)
                          /\ TargetsExist(N, N[n].type, N[n].fields)
<1>0. StoredFieldsValid' <=> \A n \in Live(nodes') : Valid(nodes', n)
  BY DEF StoredFieldsValid
<1>a. \A n \in Live(nodes) : Valid(nodes, n)
  BY DEF StoredFieldsValid
<1>b. DOMAIN nodes = NodeId /\ \A n \in Live(nodes) : IsRow(nodes[n])
  BY DEF TypeInv, IsTable
<1>1. CASE UNCHANGED nodes
  BY <1>1, <1>0, <1>a
<1>2. ASSUME NEW id \in NextIds(nodes), NEW type \in Type, NEW fields,
             Creatable(type, fields), nodes' = WithCreated(id, type, fields)
      PROVE  StoredFieldsValid'
  <2> DEFINE row == [type |-> type, fields |-> ApplyDefaults(type, fields), revision |-> 1]
  <2>1. id \in NodeId /\ id \notin Live(nodes)
    BY DEF NextIds, Live, NodeId
  <2>2. /\ nodes'[id] = row
        /\ \A n \in NodeId \ {id} : nodes'[n] = nodes[n]
    BY <1>2, <1>b, <2>1 DEF WithCreated
  <2>3. row.type = type /\ row.fields = ApplyDefaults(type, fields)
    OBVIOUS
  <2> HIDE DEF row, Valid
  <2>4. \A n \in Live(nodes) : n \in Live(nodes') /\ nodes'[n] = nodes[n]
    BY <2>1, <2>2 DEF Live
  <2>5. Valid(nodes', id)
    <3>1. TargetsExist(nodes, type, ApplyDefaults(type, fields))
      BY <1>2, DefaultTargets DEF Creatable
    <3>2. TargetsExist(nodes', type, ApplyDefaults(type, fields))
      BY <2>4, <3>1, TargetsStay
    <3> QED BY <1>2, <2>2, <2>3, <3>2 DEF Valid, Creatable
  <2>6. ASSUME NEW n \in Live(nodes) PROVE Valid(nodes', n)
    <3>1. Valid(nodes, n) /\ nodes'[n] = nodes[n]
      BY <1>a, <2>4
    <3>2. TargetsExist(nodes', nodes[n].type, nodes[n].fields)
      BY <2>4, <3>1, TargetsStay DEF Valid
    <3> QED BY <3>1, <3>2 DEF Valid
  <2>7. \A n \in Live(nodes') : n = id \/ n \in Live(nodes)
    BY <2>2 DEF Live
  <2> QED BY <1>0, <2>5, <2>6, <2>7
<1>3. ASSUME NEW m \in Live(nodes), NEW patch, Patchable(m, patch), nodes' = WithPatched(m, patch)
      PROVE  StoredFieldsValid'
  <2>1. /\ \A n \in NodeId \ {m} : nodes'[n] = nodes[n]
        /\ nodes'[m] # NoNode
        /\ nodes'[m].type = nodes[m].type
        /\ nodes'[m].fields = Merged(nodes[m].fields, patch)
    BY <1>3, PatchedRow DEF TypeInv
  <2>2. m \in NodeId
    BY DEF Live
  <2>3. \A n : n \in Live(nodes') <=> n \in Live(nodes)
    BY <2>1, <2>2 DEF Live
  <2>4. \A n \in Live(nodes) : nodes'[n].type = nodes[n].type
    BY <2>1 DEF Live
  <2> HIDE DEF Valid
  <2>5. Valid(nodes', m)
    <3>1. /\ ValidateFields(nodes[m].type, nodes'[m].fields)
          /\ TargetsExist(nodes, nodes[m].type, nodes'[m].fields)
      BY <1>3, <1>a, <2>1, MergedIsValid DEF Valid, Patchable
    <3>2. TargetsExist(nodes', nodes[m].type, nodes'[m].fields)
      BY <2>3, <2>4, <3>1, TargetsStay
    <3> QED BY <2>1, <3>1, <3>2 DEF Valid
  <2>6. ASSUME NEW n \in Live(nodes), n # m PROVE Valid(nodes', n)
    <3>1. Valid(nodes, n) /\ nodes'[n] = nodes[n]
      BY <1>a, <2>1, <2>6 DEF Live
    <3>2. TargetsExist(nodes', nodes[n].type, nodes[n].fields)
      BY <2>3, <2>4, <3>1, TargetsStay DEF Valid
    <3> QED BY <3>1, <3>2 DEF Valid
  <2> QED BY <1>0, <2>3, <2>5, <2>6
<1>4. ASSUME NEW m \in Live(nodes), ~ Referenced(m), nodes' = [nodes EXCEPT ![m] = NoNode]
      PROVE  StoredFieldsValid'
  <2>1. /\ \A n \in NodeId \ {m} : nodes'[n] = nodes[n]
        /\ m \in NodeId /\ nodes'[m] = NoNode
    BY <1>4, <1>b DEF Live
  <2>2. \A n : n \in Live(nodes') <=> n \in Live(nodes) /\ n # m
    BY <2>1 DEF Live
  <2> HIDE DEF Valid
  <2>3. ASSUME NEW n \in Live(nodes), n # m PROVE Valid(nodes', n)
    <3>1. Valid(nodes, n) /\ nodes'[n] = nodes[n]
      BY <1>a, <2>1, <2>3 DEF Live
    <3>2. ASSUME NEW f \in DOMAIN nodes[n].fields, FieldDef[nodes[n].type][f].kind = "ref",
                 nodes[n].fields[f] \in Live(nodes)
          PROVE  /\ nodes[n].fields[f] \in Live(nodes')
                 /\ nodes'[nodes[n].fields[f]].type = nodes[nodes[n].fields[f]].type
      <4>1. nodes[n].fields[f] # m
        BY <1>4, <2>3, <3>2 DEF Referenced
      <4> QED BY <2>1, <2>2, <3>2, <4>1 DEF Live
    <3>3. TargetsExist(nodes', nodes[n].type, nodes[n].fields)
      BY <3>1, <3>2, TargetsStay DEF Valid
    <3> QED BY <3>1, <3>3 DEF Valid
  <2> QED BY <1>0, <2>2, <2>3
<1> QED
  BY <1>1, <1>2, <1>3, <1>4, NodesStep, Zenon

\* Every row of the table satisfies the Schema's validation of its type, however the
\* handlers of the write rules, the site's clients and the admin backend's editors have
\* made its fields: defaults, merge and rules come before the validation of the commit.
THEOREM StoredFieldsStayValid == NoneAreRecords => (Spec => []StoredFieldsValid)
<1> SUFFICES ASSUME NoneAreRecords PROVE Spec => []StoredFieldsValid
  OBVIOUS
<1> DEFINE Inv == TypeInv /\ StoredFieldsValid
<1>1. Init => Inv
  <2>1. Init => StoredFieldsValid
    BY StartAssumption DEF Init, StoredFieldsValid
  <2> QED BY <2>1, TypesInitially
<1>2. Inv /\ [Next]_vars => Inv'
  BY TypesNext, ValidNext
<1> QED
  BY <1>1, <1>2, PTL DEF Spec

-----------------------------------------------------------------------------
\* Read rules.

\* What a handler asks of a row, as a clause of the filter.
Clause(h, kind, p) == {<<cond, p>> : cond \in h.narrow[kind]}

\* The event of a read rule, with an empty filter and an empty mask.
FireRead(hs, kind, p) ==
    ReadBus!Fire(hs, [kind |-> kind, principal |-> p], [scope |-> {}, hide |-> {}])

\* An event that ends well has been through all its handlers: all have agreed, each has
\* put its conditions into the filter, and the mask is what they have hidden between
\* them.
LEMMA ReadFired ==
    ASSUME NEW hs, Len(hs) \in Nat, DOMAIN hs = 1 .. Len(hs), NEW a, NEW p,
           FireRead(hs, a.kind, p).end = "ok"
    PROVE  /\ \A i \in DOMAIN hs :
                hs[i].end[a.kind] = "ok" /\ ("mine" \in hs[i].narrow[a.kind] => p # Nobody)
           /\ FireRead(hs, a.kind, p).out.scope # {} => \E i \in DOMAIN hs : hs[i].narrow[a.kind] # {}
           /\ \A i \in DOMAIN hs : hs[i].narrow[a.kind] # {} =>
                Clause(hs[i], a.kind, p) \in FireRead(hs, a.kind, p).out.scope
           /\ FireRead(hs, a.kind, p).out.hide = HiddenBy(hs, a)
<1> DEFINE kind == a.kind
           L == Len(hs)
           who == [kind |-> kind, principal |-> p]
           args == [scope |-> {}, hide |-> {}]
           U == RB!FiredUpTo(hs, who, args)
           F == FireRead(hs, kind, p)
<1>1. F = U[L] /\ F = RB!Fire(hs, who, args)
  BY DEF FireRead, ReadBus!Fire, ReadBus!FiredUpTo, RB!Fire, RB!FiredUpTo, ReadBus!Ended, RB!Ended
<1>2. U[0] = [out |-> args, end |-> "ok"]
  BY RB!FiredUpToDef
<1>3. ASSUME NEW i \in 1 .. L
      PROVE  /\ U[i].out = CallRead(who, U[i - 1].out, hs[i]).out
             /\ CallRead(who, U[i - 1].out, hs[i]).end = "ok"
  BY <1>1, RB!FireOk
<1> HIDE DEF U
<1>4. ASSUME NEW i \in 1 .. L
      PROVE  /\ hs[i].end[kind] = "ok" /\ ("mine" \in hs[i].narrow[kind] => p # Nobody)
             /\ U[i].out.scope = U[i - 1].out.scope
                   \cup (IF hs[i].narrow[kind] = {} THEN {} ELSE {Clause(hs[i], kind, p)})
             /\ U[i].out.hide = U[i - 1].out.hide \cup hs[i].hide[kind]
  <2>1. /\ U[i].out = CallRead(who, U[i - 1].out, hs[i]).out
        /\ CallRead(who, U[i - 1].out, hs[i]).end = "ok"
    BY <1>3
  <2>2. who.kind = kind /\ who.principal = p
    OBVIOUS
  <2> HIDE DEF who
  <2>3. ~ (hs[i].end[kind] = "refuse" \/ (NeedsPrincipal(hs[i], kind) /\ p = Nobody))
    BY <2>1, <2>2 DEF CallRead
  <2> QED BY <2>1, <2>2, <2>3 DEF CallRead, NeedsPrincipal, Clause
<1> DEFINE Upto(k) ==
             /\ U[k].out.scope # {} => \E i \in 1 .. k : hs[i].narrow[kind] # {}
             /\ \A i \in 1 .. k : hs[i].narrow[kind] # {} => Clause(hs[i], kind, p) \in U[k].out.scope
             /\ \A f : f \in U[k].out.hide <=> \E i \in 1 .. k : f \in hs[i].hide[kind]
           Good == {k \in 0 .. L : Upto(k)}
<1>5. 0 .. L \subseteq Good
  <2>1. 0 \in Good
    BY <1>2
  <2>2. ASSUME NEW k \in 1 .. L, k - 1 \in Good PROVE k \in Good
    <3>1. Upto(k - 1) /\ k \in Nat /\ k # 0
      BY <2>2
    <3>2. \A i : i \in 1 .. k <=> i \in 1 .. k - 1 \/ i = k
      OBVIOUS
    <3>3. /\ U[k].out.scope = U[k - 1].out.scope
                \cup (IF hs[k].narrow[kind] = {} THEN {} ELSE {Clause(hs[k], kind, p)})
          /\ U[k].out.hide = U[k - 1].out.hide \cup hs[k].hide[kind]
      BY <1>4
    <3>4. U[k].out.scope # {} => \E i \in 1 .. k : hs[i].narrow[kind] # {}
      BY <3>1, <3>2, <3>3
    <3>5. \A i \in 1 .. k : hs[i].narrow[kind] # {} => Clause(hs[i], kind, p) \in U[k].out.scope
      BY <3>1, <3>2, <3>3
    <3>6. \A f : f \in U[k].out.hide <=> \E i \in 1 .. k : f \in hs[i].hide[kind]
      BY <3>1, <3>2, <3>3
    <3> QED BY <3>4, <3>5, <3>6
  <2> HIDE DEF Good, L
  <2> QED BY <2>1, <2>2, InductionOn DEF L
<1>6. Upto(L)
  BY <1>5
<1>7. U[L].out.hide = HiddenBy(hs, a)
  BY <1>6 DEF HiddenBy
<1> QED
  BY <1>1, <1>4, <1>6, <1>7

\* What a rule that can be used is worth for the actor a.
RuleSound(hs, rule, action, type, a) ==
    rule.status = "ok" =>
        /\ rule.hide = HiddenBy(hs, a)
        /\ \A i \in DOMAIN hs : hs[i].end[a.kind] = "ok"
        /\ \A row : row.type = type /\ InScope(row, rule.scope) => MayRead(hs, action, a, row)

\* A type without handlers has a rule that lets everything be read.
LEMMA NoRuleSound ==
    ASSUME NEW action, NEW type, NEW kind, NEW p, NEW a
    PROVE  RuleSound(<< >>, ResolveReadRule(<< >>, action, type, kind, p), action, type, a)
<1> DEFINE rule == ResolveReadRule(<< >>, action, type, kind, p)
<1>1. action \in SystemReadAction => rule = [NoRule("ok") EXCEPT !.scope = DefaultScope(type)]
  BY DEF ResolveReadRule
<1>2. action \notin SystemReadAction => rule = NoRule("internal")
  BY DEF ResolveReadRule
<1> HIDE DEF rule
<1> SUFFICES ASSUME rule.status = "ok"
             PROVE  /\ rule.hide = HiddenBy(<< >>, a)
                    /\ \A row : row.type = type /\ InScope(row, rule.scope) => MayRead(<< >>, action, a, row)
  BY DEF RuleSound, rule
<1>3. action \in SystemReadAction /\ rule.hide = {} /\ rule.scope = DefaultScope(type)
  BY <1>1, <1>2 DEF NoRule
<1>4. HiddenBy(<< >>, a) = {}
  BY DEF HiddenBy
<1>5. ASSUME NEW row, row.type = type, InScope(row, rule.scope)
      PROVE  MayRead(<< >>, action, a, row)
  <2> DEFINE cond == <<IF type \in Publication THEN "published" ELSE "nothing", Nobody>>
  <2>1. Meets(row, cond)
    BY <1>3, <1>5 DEF InScope, DefaultScope
  <2>2. type \in Publication /\ "state" \in DOMAIN row.fields /\ row.fields.state = "published"
    BY <2>1 DEF Meets
  <2> QED BY <1>3, <1>5, <2>2 DEF MayRead
<1> QED
  BY <1>3, <1>4, <1>5

\* Where nobody has registered a rule it does not matter who asks.
LEMMA NoRuleForAnyone ==
    ASSUME NEW rule, NEW action, NEW type, NEW a, NEW b, RuleSound(<< >>, rule, action, type, a)
    PROVE  RuleSound(<< >>, rule, action, type, b)
BY DEF RuleSound, HiddenBy, MayRead

\* A rule that was resolved for an actor finds only rows the actor may read, and hides
\* what the handlers hide from the actor.
LEMMA RuleIsSound ==
    ASSUME NEW hs, Len(hs) \in Nat, DOMAIN hs = 1 .. Len(hs), NEW a \in Actor,
           \A i \in DOMAIN hs, k \in ActorKind : hs[i].narrow[k] \subseteq Condition,
           NEW p \in {Nobody, a.id}, NEW action, NEW type
    PROVE  RuleSound(hs, ResolveReadRule(hs, action, type, a.kind, p), action, type, a)
<1>1. CASE hs = << >>
  BY <1>1, NoRuleSound
<1>2. CASE hs # << >>
  <2> DEFINE F == FireRead(hs, a.kind, p)
             rule == ResolveReadRule(hs, action, type, a.kind, p)
  <2> SUFFICES ASSUME rule.status = "ok"
               PROVE  /\ rule.hide = HiddenBy(hs, a)
                      /\ \A i \in DOMAIN hs : hs[i].end[a.kind] = "ok"
                      /\ \A row : row.type = type /\ InScope(row, rule.scope) => MayRead(hs, action, a, row)
    BY DEF RuleSound
  <2>1. /\ F.end = "ok" /\ F.out.scope # {}
        /\ rule = [status |-> "ok", scope |-> F.out.scope, hide |-> F.out.hide]
    BY <1>2 DEF ResolveReadRule, NoRule, FireRead
  <2>2. /\ \A i \in DOMAIN hs : hs[i].end[a.kind] = "ok" /\ ("mine" \in hs[i].narrow[a.kind] => p # Nobody)
        /\ F.out.scope # {} => \E i \in DOMAIN hs : hs[i].narrow[a.kind] # {}
        /\ \A i \in DOMAIN hs : hs[i].narrow[a.kind] # {} => Clause(hs[i], a.kind, p) \in F.out.scope
        /\ F.out.hide = HiddenBy(hs, a)
    <3>1. FireRead(hs, a.kind, p).end = "ok"
      BY <2>1
    <3> HIDE DEF rule
    <3> QED BY <3>1, ReadFired
  <2>3. rule.hide = HiddenBy(hs, a) /\ rule.scope = F.out.scope
    BY <2>1, <2>2 DEF HiddenBy
  <2> HIDE DEF F, rule
  <2>4. ASSUME NEW row, row.type = type, InScope(row, rule.scope)
        PROVE  MayRead(hs, action, a, row)
    <3>1. ASSUME NEW i \in DOMAIN hs, hs[i].narrow[a.kind] # {}
          PROVE  \E cond \in hs[i].narrow[a.kind] : Meets(row, <<cond, a.id>>)
      <4>1. Clause(hs[i], a.kind, p) \in rule.scope
        BY <2>2, <2>3, <3>1
      <4>2. PICK cond \in hs[i].narrow[a.kind] : Meets(row, <<cond, p>>)
        BY <2>4, <4>1 DEF InScope, Clause
      <4>3. cond \in Condition
        BY DEF Actor
      <4>4. cond = "mine" => p = a.id
        BY <2>2
      <4>5. Meets(row, <<cond, a.id>>)
        BY <4>2, <4>3, <4>4 DEF Meets, Condition
      <4> QED BY <4>5
    <3> QED BY <1>2, <2>1, <2>2, <3>1 DEF MayRead
  <2> QED BY <2>2, <2>3, <2>4
<1> QED
  BY <1>1, <1>2

-----------------------------------------------------------------------------
\* A write shows what it has written by the rule of views.
ReplyAction(r) == IF r.op \in WriteAction THEN "view" ELSE r.action

\* ShownIsReadable of a request r, for the handlers S and the past P.
ShownOK(S, P, r, s) ==
    /\ \E N \in P :
          /\ s.id \in Live(N)
          /\ \/ r.op \in WriteAction
             \/ MayRead(S[<<ReplyAction(r), N[s.id].type>>], ReplyAction(r), r.actor, N[s.id])
    /\ \E N \in P :
          /\ s.id \in Live(N) /\ N[s.id].type = s.type
          /\ s.fields = Without(N[s.id].fields, HiddenBy(S[<<ReplyAction(r), s.type>>], r.actor))
    /\ \A f \in DOMAIN s.expand :
          /\ DOMAIN s.expand[f].fields \cap HiddenBy(S[<<ReplyAction(r), s.expand[f].type>>], r.actor) = {}
          /\ \A i \in DOMAIN S[<<ReplyAction(r), s.expand[f].type>>] :
                S[<<ReplyAction(r), s.expand[f].type>>][i].end[r.actor.kind] = "ok"

\* A row that has been read, and found readable.
RowOK(S, P, r, s) ==
    /\ \E N \in P : s.id \in Live(N) /\ s = Shown(s.id, N[s.id])
    /\ \E N \in P : /\ s.id \in Live(N) /\ N[s.id].type = s.type
                    /\ MayRead(S[<<r.action, s.type>>], r.action, r.actor, N[s.id])
    /\ r.actor = NoActor => S[<<r.action, s.type>>] = << >>

\* Only a rule of the site closes the gate of a write.
Gated(S, r) == r.op \in WriteAction /\ r.route /\ S[<<r.op, r.type>>] = << >>

\* What holds of a request r with the past P, for the handlers S: each cached rule is sound
\* for its actor, and what is read and shown was readable.
ReplyOK(S, P, r) ==
    /\ DOMAIN r.rules \subseteq ReadAction \X Type
    /\ r.actor = NoActor => \A e \in DOMAIN r.rules : S[e] = << >>
    /\ ~ Impersonated(r) =>
         /\ \A e \in DOMAIN r.rules : RuleSound(S[e], r.rules[e], e[1], e[2], r.actor)
         /\ r.pc = "expand" => \A s \in r.shown : RowOK(S, P, r, s)
         /\ r.pc = "done" => \A s \in r.shown : ShownOK(S, P, r, s)
    /\ r.pc # "expand" /\ r.status # "ok" => r.shown = {}
    /\ r.pc = "visible" => \E N \in P : r.id \in Live(N) /\ N[r.id] = r.held
    /\ r.pc = "rows" => /\ <<r.action, r.type>> \in DOMAIN r.rules
                        /\ r.rules[<<r.action, r.type>>].status = "ok"
    /\ Gated(S, r) => /\ r.pc \in {"handler", "done"}
                      /\ r.pc = "done" => r.status \in {"unauthorized", "forbidden"}

\* The invariant of the replies.
ReplyInv == \A c \in Visitor : request[c] # Rest => ReplyOK(site, past[c], request[c])

\* What was readable at some moment stays so in a longer past.
LEMMA ShownStays ==
    ASSUME NEW S, NEW P, NEW Q, P \subseteq Q, NEW r, NEW s
    PROVE  /\ ShownOK(S, P, r, s) => ShownOK(S, Q, r, s)
           /\ RowOK(S, P, r, s) => RowOK(S, Q, r, s)
<1>1. ShownOK(S, P, r, s) => ShownOK(S, Q, r, s)
  BY DEF ShownOK
<1>2. RowOK(S, P, r, s) => RowOK(S, Q, r, s)
  BY DEF RowOK
<1> QED
  BY <1>1, <1>2

\* A longer past takes nothing away.
LEMMA ReplyStays ==
    ASSUME NEW S, NEW P, NEW Q, P \subseteq Q, NEW r, ReplyOK(S, P, r)
    PROVE  ReplyOK(S, Q, r)
<1> USE DEF ReplyOK
<1>1. ~ Impersonated(r) =>
         /\ \A e \in DOMAIN r.rules : RuleSound(S[e], r.rules[e], e[1], e[2], r.actor)
         /\ r.pc = "expand" => \A s \in r.shown : RowOK(S, Q, r, s)
         /\ r.pc = "done" => \A s \in r.shown : ShownOK(S, Q, r, s)
  BY ShownStays
<1>2. r.pc = "visible" => \E N \in Q : r.id \in Live(N) /\ N[r.id] = r.held
  OBVIOUS
<1> QED
  BY <1>1, <1>2

\* An answer changes where the request is, its status and what it shows.
LEMMA AnsweredSame ==
    ASSUME NEW r, DOMAIN r = RequestFields, NEW status, NEW shown
    PROVE  LET q == Answered(r, status, shown)
           IN  /\ q.op = r.op /\ q.action = r.action /\ q.route = r.route /\ q.type = r.type /\ q.id = r.id
               /\ q.submitted = r.submitted /\ q.revision = r.revision /\ q.held = r.held
               /\ q.fields = r.fields /\ q.actor = r.actor /\ q.principal = r.principal /\ q.rules = r.rules
               /\ q.pc = "done" /\ q.status = status /\ q.shown = shown
BY DEF Answered, RequestFields

\* An answer that shows nothing keeps to the rules, past the gate with the gate's status.
LEMMA ReplyAnswered ==
    ASSUME NEW S, NEW P, NEW r, DOMAIN r = RequestFields, ReplyOK(S, P, r), NEW status,
           Gated(S, r) => status \in {"unauthorized", "forbidden"}
    PROVE  ReplyOK(S, P, Answered(r, status, {}))
<1> DEFINE q == Answered(r, status, {})
<1>1. /\ q.op = r.op /\ q.route = r.route /\ q.type = r.type
      /\ q.actor = r.actor /\ q.principal = r.principal /\ q.rules = r.rules
      /\ q.pc = "done" /\ q.status = status /\ q.shown = {}
  BY AnsweredSame
<1> HIDE DEF q
<1>2. (Impersonated(q) <=> Impersonated(r)) /\ (Gated(S, q) <=> Gated(S, r))
  BY <1>1 DEF Impersonated, Gated
<1>3. ReplyOK(S, P, q)
  BY <1>1, <1>2 DEF ReplyOK
<1> QED
  BY <1>3 DEF q

-----------------------------------------------------------------------------
\* Loading the actor makes nobody another's.
LEMMA WithActorImpersonates ==
    ASSUME TypeInv, NEW c \in Visitor, NEW r, IsRequest(r)
    PROVE  /\ Impersonated(WithActor(c, r)) <=> Impersonated(r)
           /\ ~ Impersonated(r) =>
                PrincipalOf(WithActor(c, r)) \in {Nobody, WithActor(c, r).actor.id}
<1> DEFINE q == WithActor(c, r)
<1>1. DOMAIN r = RequestFields
  BY DEF IsRequest
<1>2. /\ q.actor = IF r.actor = NoActor THEN SessionActor(c) ELSE r.actor
      /\ q.actor \in Actor
  BY WithActorIs DEF TypeInv
<1>3. q.principal = IF r.actor = NoActor THEN SessionActor(c).id
                    ELSE IF r.actor.kind = "node" THEN PrincipalOf(r) ELSE r.principal
  BY <1>1 DEF WithActor, RequestFields
<1>4. NoActor \notin Actor
  BY RequestAssumption
<1>5. ASSUME NEW x PROVE PrincipalOf(x) = IF x.actor.kind = "node" /\ x.principal # Nobody THEN x.principal
                                          ELSE IF x.actor.kind = "node" /\ x.actor.id \in Live(nodes)
                                                  /\ nodes[x.actor.id].type = RealmType
                                          THEN x.actor.id ELSE Nobody
  BY DEF PrincipalOf
<1> HIDE DEF q
<1>6. Impersonated(q) <=> Impersonated(r)
  BY <1>2, <1>3, <1>4, <1>5 DEF Impersonated
<1>7. ~ Impersonated(q) => PrincipalOf(q) \in {Nobody, q.actor.id}
  BY <1>2, <1>4, <1>5 DEF Impersonated
<1> QED
  BY <1>6, <1>7 DEF q

\* A request keeps to the rules when its actor is loaded.
LEMMA ReplyWithActor ==
    ASSUME TypeInv, NEW c \in Visitor, NEW r, IsRequest(r), r.pc # "done", NEW P, ReplyOK(site, P, r)
    PROVE  ReplyOK(site, P, WithActor(c, r))
<1> DEFINE q == WithActor(c, r)
<1>1. /\ SameCall(q, r) /\ q.rules = r.rules /\ q.actor \in Actor
      /\ r.actor # NoActor => q.actor = r.actor
  BY WithActorIs DEF TypeInv
<1>2. Impersonated(q) <=> Impersonated(r)
  BY WithActorImpersonates
<1> HIDE DEF q
<1>3. Gated(site, q) <=> Gated(site, r)
  BY <1>1 DEF Gated, SameCall
<1>4. q.actor # NoActor
  BY <1>1, RequestAssumption
<1>5. ASSUME ~ Impersonated(q), NEW e \in DOMAIN q.rules
      PROVE  RuleSound(site[e], q.rules[e], e[1], e[2], q.actor)
  <2>1. RuleSound(site[e], r.rules[e], e[1], e[2], r.actor)
    BY <1>1, <1>2, <1>5 DEF ReplyOK
  <2>2. CASE r.actor # NoActor
    BY <1>1, <2>1, <2>2
  <2>3. CASE r.actor = NoActor
    <3>1. site[e] = << >>
      BY <1>1, <2>3 DEF ReplyOK
    <3> QED BY <1>1, <2>1, <3>1, NoRuleForAnyone
  <2> QED BY <2>2, <2>3
<1>6. ASSUME ~ Impersonated(q), q.pc = "expand", NEW s \in q.shown
      PROVE  RowOK(site, P, q, s)
  <2>1. RowOK(site, P, r, s)
    BY <1>1, <1>2, <1>6 DEF ReplyOK, SameCall
  <2>2. CASE r.actor # NoActor
    BY <1>1, <2>1, <2>2 DEF RowOK, SameCall
  <2>3. CASE r.actor = NoActor
    <3>1. site[<<r.action, s.type>>] = << >>
      BY <2>1, <2>3 DEF RowOK
    <3> QED BY <1>1, <1>4, <2>1, <3>1 DEF RowOK, SameCall, MayRead
  <2> QED BY <2>2, <2>3
<1>7. ReplyOK(site, P, q)
  BY <1>1, <1>2, <1>3, <1>4, <1>5, <1>6 DEF ReplyOK, SameCall
<1> QED
  BY <1>7 DEF q

\* The rule that a request uses, cached or not, is worth as much for its actor.
LEMMA RuleOfSound ==
    ASSUME TypeInv, NEW c \in Visitor, NEW r, IsRequest(r), NEW P, ReplyOK(site, P, r), ~ Impersonated(r),
           NEW action \in ReadAction, NEW type \in Type
    PROVE  RuleSound(site[<<action, type>>], RuleOf(c, r, action, type), action, type, WithActor(c, r).actor)
<1> DEFINE event == <<action, type>>
           by == WithActor(c, r)
           hs == site[event]
<1>0. event \in Event /\ event[1] = action /\ event[2] = type
  BY DEF Event
<1>1. by.actor \in Actor /\ by.actor = (IF r.actor = NoActor THEN SessionActor(c) ELSE r.actor)
  BY WithActorIs DEF TypeInv
<1>2. CASE event \in DOMAIN r.rules
  <2>1. RuleSound(hs, r.rules[event], action, type, r.actor)
    BY <1>0, <1>2 DEF ReplyOK
  <2>2. RuleOf(c, r, action, type) = r.rules[event]
    BY <1>2 DEF RuleOf
  <2>3. r.actor = NoActor => hs = << >>
    BY <1>2 DEF ReplyOK
  <2> HIDE DEF by, hs, event
  <2>4. RuleSound(hs, r.rules[event], action, type, by.actor)
    BY <1>1, <2>1, <2>3, NoRuleForAnyone
  <2> QED BY <2>2, <2>4 DEF by, hs, event
<1>3. CASE event \notin DOMAIN r.rules
  <2>1. RuleOf(c, r, action, type) = ResolveReadRule(hs, action, type, by.actor.kind, PrincipalOf(by))
    BY <1>3 DEF RuleOf
  <2>2. PrincipalOf(by) \in {Nobody, by.actor.id}
    BY WithActorImpersonates
  <2>3. /\ Len(hs) \in Nat /\ DOMAIN hs = 1 .. Len(hs)
        /\ \A i \in DOMAIN hs, k \in ActorKind : hs[i].narrow[k] \subseteq Condition
    BY <1>0 DEF TypeInv, IsSite
  <2> HIDE DEF by, hs
  <2>4. RuleSound(hs, ResolveReadRule(hs, action, type, by.actor.kind, PrincipalOf(by)), action, type, by.actor)
    BY <1>1, <2>2, <2>3, RuleIsSound
  <2> QED BY <2>1, <2>4 DEF by, hs
<1> QED
  BY <1>2, <1>3

\* A request keeps to the rules when a rule enters its cache, and the rule is sound for
\* the actor of the request.
LEMMA ReplyWithRule ==
    ASSUME TypeInv, NEW c \in Visitor, request[c] # Rest, IsRequest(request[c]),
           request[c].pc \in {"handler", "visible"}, NEW P, ReplyOK(site, P, request[c]),
           NEW action \in ReadAction, NEW type \in Type
    PROVE  /\ ReplyOK(site, P, WithRule(c, action, type))
           /\ Impersonated(WithRule(c, action, type)) <=> Impersonated(request[c])
<1> DEFINE event == <<action, type>>
           q == WithRule(c, action, type)
           r == IF site[event] = << >> THEN request[c] ELSE WithActor(c, request[c])
<1>0. event \in Event /\ event[1] = action /\ event[2] = type /\ event \in ReadAction \X Type
  BY DEF Event
<1>1. /\ IsRequest(q) /\ SameCall(q, request[c])
      /\ q.actor = r.actor /\ q.principal = r.principal
      /\ DOMAIN q.rules = DOMAIN request[c].rules \cup {event}
      /\ q.rules[event] = RuleOf(c, r, action, type)
      /\ \A e \in DOMAIN request[c].rules \ {event} : q.rules[e] = request[c].rules[e]
  BY <1>0, WithRuleIs DEF TypeInv
<1>2. /\ IsRequest(r) /\ SameCall(r, request[c]) /\ r.rules = request[c].rules
      /\ ReplyOK(site, P, r)
      /\ site[event] # << >> => r.actor \in Actor
      /\ Impersonated(r) <=> Impersonated(request[c])
  <2>1. CASE site[event] = << >>
    BY <2>1 DEF SameCall
  <2>2. CASE site[event] # << >>
    <3>1. r = WithActor(c, request[c])
      BY <2>2
    <3> QED BY <2>2, <3>1, WithActorIs, ReplyWithActor, WithActorImpersonates DEF TypeInv
  <2> QED BY <2>1, <2>2
<1> HIDE DEF q, r
<1>3. (Impersonated(q) <=> Impersonated(r)) /\ (Gated(site, q) <=> Gated(site, r))
  BY <1>1, <1>2 DEF Impersonated, Gated, SameCall
<1>4. ~ Impersonated(q) => RuleSound(site[event], q.rules[event], action, type, q.actor)
  <2> SUFFICES ASSUME ~ Impersonated(q)
               PROVE  RuleSound(site[event], q.rules[event], action, type, q.actor)
    OBVIOUS
  <2>1. RuleSound(site[event], q.rules[event], action, type, WithActor(c, r).actor)
    BY <1>1, <1>2, <1>3, RuleOfSound
  <2>2. r.actor \in Actor => WithActor(c, r).actor = q.actor
    BY <1>1, <1>2, WithActorIs, RequestAssumption DEF TypeInv
  <2>3. CASE site[event] = << >>
    BY <2>1, <2>3, NoRuleForAnyone
  <2>4. CASE site[event] # << >>
    BY <1>2, <2>1, <2>2, <2>4
  <2> QED BY <2>3, <2>4
<1>5. \A e \in DOMAIN q.rules : e = event \/ (e \in DOMAIN r.rules /\ q.rules[e] = r.rules[e])
  BY <1>1, <1>2
<1>6. ~ Impersonated(q) =>
        \A e \in DOMAIN q.rules : RuleSound(site[e], q.rules[e], e[1], e[2], q.actor)
  BY <1>0, <1>1, <1>2, <1>3, <1>4, <1>5 DEF ReplyOK
<1>7. q.actor = NoActor => \A e \in DOMAIN q.rules : site[e] = << >>
  BY <1>1, <1>2, <1>5, RequestAssumption DEF ReplyOK
<1>8. DOMAIN q.rules \subseteq ReadAction \X Type
  BY <1>0, <1>2, <1>5 DEF ReplyOK
<1>9. q.pc \in {"handler", "visible"} /\ q.shown = r.shown /\ q.status = r.status /\ q.id = r.id
      /\ q.held = r.held /\ q.pc = r.pc
  BY <1>1, <1>2 DEF SameCall
<1>10. ReplyOK(site, P, q)
  BY <1>2, <1>3, <1>6, <1>7, <1>8, <1>9 DEF ReplyOK
<1> QED
  BY <1>2, <1>3, <1>10 DEF q

-----------------------------------------------------------------------------
\* Masks.

\* The fields of a node in an answer.
ShownFields == {"id", "type", "fields", "expand"}

\* A node before it is masked: some row of the past, its references followed.
Presentable(P, s) ==
    /\ DOMAIN s = ShownFields /\ s.type \in Type
    /\ \A f \in DOMAIN s.expand : DOMAIN s.expand[f] = ShownFields /\ s.expand[f].type \in Type
    /\ \E N \in P : s.id \in Live(N) /\ N[s.id].type = s.type /\ s.fields = N[s.id].fields

\* Some row of the past with the id of s was the actor's to read.
WasReadable(S, P, action, a, s) ==
    \E N \in P : s.id \in Live(N) /\ MayRead(S[<<action, N[s.id].type>>], action, a, N[s.id])

\* The mask takes fields away from a row and from the rows it refers to, and leaves who
\* they are.
LEMMA MaskedFields ==
    ASSUME NEW rules, NEW s, DOMAIN s = ShownFields,
           \A f \in DOMAIN s.expand : DOMAIN s.expand[f] = ShownFields
    PROVE  /\ MaskNode(rules, s).id = s.id /\ MaskNode(rules, s).type = s.type
           /\ MaskNode(rules, s).fields = Without(s.fields, rules[s.type].hide)
           /\ \A f \in DOMAIN MaskNode(rules, s).expand :
                /\ f \in DOMAIN s.expand
                /\ rules[s.expand[f].type].status = "ok"
                /\ MaskNode(rules, s).expand[f].type = s.expand[f].type
                /\ DOMAIN MaskNode(rules, s).expand[f].fields \cap rules[s.expand[f].type].hide = {}
<1> DEFINE m == MaskNode(rules, s)
<1>1. /\ m.id = s.id /\ m.type = s.type /\ m.fields = Without(s.fields, rules[s.type].hide)
      /\ m.expand = MaskExpand(rules, s.expand)
  BY DEF MaskNode, ShownFields
<1>2. ASSUME NEW f \in DOMAIN MaskExpand(rules, s.expand)
      PROVE  /\ f \in DOMAIN s.expand
             /\ rules[s.expand[f].type].status = "ok"
             /\ MaskExpand(rules, s.expand)[f].type = s.expand[f].type
             /\ MaskExpand(rules, s.expand)[f].fields
                  = Without(s.expand[f].fields, rules[s.expand[f].type].hide)
  BY DEF MaskExpand, ShownFields
<1>3. ASSUME NEW fields, NEW hide PROVE DOMAIN Without(fields, hide) \cap hide = {}
  BY DEF Without, Restrict
<1> HIDE DEF m
<1>4. \A f \in DOMAIN m.expand :
        /\ f \in DOMAIN s.expand
        /\ rules[s.expand[f].type].status = "ok"
        /\ m.expand[f].type = s.expand[f].type
        /\ DOMAIN m.expand[f].fields \cap rules[s.expand[f].type].hide = {}
  BY <1>1, <1>2, <1>3
<1> QED
  BY <1>1, <1>4 DEF m

\* What is left of the nodes after the mask may be shown.
LEMMA MaskedOK ==
    ASSUME TypeInv, NEW c \in Visitor, NEW r, IsRequest(r), NEW P, ReplyOK(site, P, r), ~ Impersonated(r),
           NEW action \in ReadAction, NEW q, ReplyAction(q) = action, q.actor = WithActor(c, r).actor,
           NEW s, Presentable(P, s),
           q.op \in WriteAction \/ WasReadable(site, P, action, q.actor, s),
           RuleOf(c, r, action, s.type).status = "ok"
    PROVE  ShownOK(site, P, q, MaskNode([t \in Type |-> RuleOf(c, r, action, t)], s))
<1> DEFINE rules == [t \in Type |-> RuleOf(c, r, action, t)]
           m == MaskNode(rules, s)
<1>1. \A t \in Type : rules[t] = RuleOf(c, r, action, t)
  OBVIOUS
<1>2. ASSUME NEW t \in Type PROVE RuleSound(site[<<action, t>>], rules[t], action, t, q.actor)
  BY <1>1, RuleOfSound
<1>3. /\ m.id = s.id /\ m.type = s.type
      /\ m.fields = Without(s.fields, rules[s.type].hide)
      /\ \A f \in DOMAIN m.expand :
           /\ f \in DOMAIN s.expand
           /\ rules[s.expand[f].type].status = "ok"
           /\ m.expand[f].type = s.expand[f].type
           /\ DOMAIN m.expand[f].fields \cap rules[s.expand[f].type].hide = {}
  <2> HIDE DEF rules
  <2> QED BY MaskedFields DEF Presentable
<1> HIDE DEF rules, m
<1>4. \E N \in P : /\ m.id \in Live(N)
                   /\ \/ q.op \in WriteAction
                      \/ MayRead(site[<<action, N[m.id].type>>], action, q.actor, N[m.id])
  BY <1>3 DEF Presentable, WasReadable
<1>5. rules[s.type].hide = HiddenBy(site[<<action, s.type>>], q.actor)
  BY <1>1, <1>2 DEF RuleSound, Presentable
<1>6. \E N \in P : /\ m.id \in Live(N) /\ N[m.id].type = m.type
                   /\ m.fields = Without(N[m.id].fields, HiddenBy(site[<<action, m.type>>], q.actor))
  BY <1>3, <1>5 DEF Presentable
<1>7. ASSUME NEW f \in DOMAIN m.expand
      PROVE  /\ DOMAIN m.expand[f].fields
                  \cap HiddenBy(site[<<action, m.expand[f].type>>], q.actor) = {}
             /\ \A i \in DOMAIN site[<<action, m.expand[f].type>>] :
                   site[<<action, m.expand[f].type>>][i].end[q.actor.kind] = "ok"
  <2>1. /\ s.expand[f].type \in Type /\ rules[s.expand[f].type].status = "ok"
        /\ m.expand[f].type = s.expand[f].type
        /\ DOMAIN m.expand[f].fields \cap rules[s.expand[f].type].hide = {}
    BY <1>3 DEF Presentable
  <2> QED BY <1>2, <2>1 DEF RuleSound
<1> QED
  BY <1>4, <1>6, <1>7 DEF ShownOK, m, rules

\* A masked answer of readable rows keeps to the rules.
LEMMA ReplyMasked ==
    ASSUME TypeInv, NEW c \in Visitor, NEW r, IsRequest(r), r.pc # "done",
           NEW P, ReplyOK(site, P, r), ~ Gated(site, r),
           NEW action \in ReadAction, action = ReplyAction(r), NEW shown,
           \A s \in shown : s.type \in Type,
           ~ Impersonated(r) =>
             \A s \in shown :
               /\ Presentable(P, s)
               /\ r.op \in WriteAction \/ WasReadable(site, P, action, WithActor(c, r).actor, s),
           AnswerMasked(c, r, action, shown)
    PROVE  \E q : Goes(c, q) /\ ReplyOK(site, P, q)
<1> DEFINE rules == [t \in Type |-> RuleOf(c, r, action, t)]
           status == MaskStatus(rules, shown)
           left == IF status = "ok" THEN {MaskNode(rules, s) : s \in shown} ELSE {}
           q == Answered(WithActor(c, r), status, left)
<1>1. Goes(c, q)
  BY DEF AnswerMasked
<1>2. /\ IsRequest(WithActor(c, r)) /\ SameCall(WithActor(c, r), r)
      /\ DOMAIN WithActor(c, r) = RequestFields
  BY WithActorIs DEF TypeInv, IsRequest
<1>3. ReplyOK(site, P, WithActor(c, r)) /\ (Impersonated(WithActor(c, r)) <=> Impersonated(r))
  BY ReplyWithActor, WithActorImpersonates
<1>4. /\ q.op = r.op /\ q.action = r.action /\ q.route = r.route /\ q.type = r.type
      /\ q.actor = WithActor(c, r).actor /\ q.principal = WithActor(c, r).principal
      /\ q.rules = WithActor(c, r).rules
      /\ q.pc = "done" /\ q.status = status /\ q.shown = left
  <2> HIDE DEF status, left
  <2> QED BY <1>2, AnsweredSame DEF SameCall
<1>5. status = "ok" => \A s \in shown : rules[s.type].status = "ok"
  <2>1. ASSUME ~ \A s \in shown : rules[s.type].status = "ok"
        PROVE  status # "ok"
    <3> DEFINE statuses == {rules[n.type].status : n \in shown}
    <3>1. \E x \in statuses : x # "ok"
      BY <2>1
    <3>2. status = CHOOSE x \in statuses : x # "ok"
      BY <2>1 DEF MaskStatus
    <3> HIDE DEF statuses, status
    <3> QED BY <3>1, <3>2
  <2> QED BY <2>1
<1>6. \A s \in shown : rules[s.type] = RuleOf(c, r, action, s.type)
  OBVIOUS
<1> HIDE DEF q
<1>7. ASSUME ~ Impersonated(r), status = "ok", NEW s \in shown
      PROVE  ShownOK(site, P, q, MaskNode(rules, s))
  <2>1. RuleOf(c, r, action, s.type).status = "ok"
    BY <1>5, <1>6, <1>7
  <2>2. ReplyAction(q) = action
    BY <1>4 DEF ReplyAction
  <2>3. Presentable(P, s) /\ (q.op \in WriteAction \/ WasReadable(site, P, action, q.actor, s))
    BY <1>4, <1>7
  <2> QED BY <1>4, <1>7, <2>1, <2>2, <2>3, MaskedOK
<1>8. (Impersonated(q) <=> Impersonated(r)) /\ ~ Gated(site, q)
  BY <1>3, <1>4 DEF Impersonated, Gated
<1>9. ~ Impersonated(q) => \A s \in q.shown : ShownOK(site, P, q, s)
  <2> HIDE DEF status, rules
  <2> QED BY <1>4, <1>7, <1>8
<1>10. q.status # "ok" => q.shown = {}
  BY <1>4
<1> HIDE DEF status, left
<1>11. ReplyOK(site, P, q)
  BY <1>3, <1>4, <1>8, <1>9, <1>10 DEF ReplyOK
<1> QED
  BY <1>1, <1>11

-----------------------------------------------------------------------------
\* Replies.

\* The next state of a request keeps to the rules.
ReplyGoes(c) == \E q : Goes(c, q) /\ ReplyOK(site, past[c], q)

\* An answer that shows nothing is a step that keeps to the rules.
LEMMA AnswerReplies ==
    ASSUME NEW c, NEW r, DOMAIN r = RequestFields, ReplyOK(site, past[c], r), NEW status,
           Gated(site, r) => status \in {"unauthorized", "forbidden"}, Answer(c, r, status)
    PROVE  ReplyGoes(c)
<1>1. ReplyOK(site, past[c], Answered(r, status, {})) /\ Goes(c, Answered(r, status, {}))
  BY ReplyAnswered DEF Answer
<1> QED
  BY <1>1 DEF ReplyGoes

\* A request that goes on to its next call.
LEMMA ReplyNext ==
    ASSUME NEW S, NEW P, NEW r, ReplyOK(S, P, r), NEW q,
           q.op = r.op, q.action = r.action, q.route = r.route, q.type = r.type,
           q.actor = r.actor, q.principal = r.principal, q.rules = r.rules,
           q.pc # "done",
           q.pc = "expand" /\ ~ Impersonated(r) => \A s \in q.shown : RowOK(S, P, r, s),
           q.pc # "expand" => q.shown = {},
           q.pc = "visible" => \E N \in P : q.id \in Live(N) /\ N[q.id] = q.held,
           q.pc = "rows" => /\ <<r.action, r.type>> \in DOMAIN r.rules
                            /\ r.rules[<<r.action, r.type>>].status = "ok",
           q.pc # "handler" => ~ Gated(S, r)
    PROVE  ReplyOK(S, P, q)
<1>1. (Impersonated(q) <=> Impersonated(r)) /\ (Gated(S, q) <=> Gated(S, r))
  BY DEF Impersonated, Gated
<1>2. \A s : RowOK(S, P, r, s) <=> RowOK(S, P, q, s)
  BY DEF RowOK
<1> QED
  BY <1>1, <1>2 DEF ReplyOK

\* A reading request shows nothing before it has its answer, and passes no gate.
LEMMA NothingShown ==
    ASSUME NEW P, NEW r, IsRequest(r), ReplyOK(site, P, r), r.pc \notin {"expand", "done"}
    PROVE  r.shown = {} /\ (r.op \in ReadOp => ~ Gated(site, r))
<1>1. r.status = "none"
  BY DEF IsRequest
<1> QED
  BY <1>1 DEF ReplyOK, Gated, ReadOp, WriteAction

\* A row that the rule finds is the actor's to read.
LEMMA MatchingReadable ==
    ASSUME TypeInv, NEW c \in Visitor, NEW r, IsRequest(r), NEW P, ReplyOK(site, P, r), ~ Impersonated(r),
           r.action \in ReadAction, NEW type \in Type, NEW n \in Matching(c, r, type),
           RuleOf(c, r, r.action, type).status = "ok"
    PROVE  /\ n \in Live(nodes) /\ nodes[n].type = type
           /\ MayRead(site[<<r.action, type>>], r.action, WithActor(c, r).actor, nodes[n])
<1>1. RuleSound(site[<<r.action, type>>], RuleOf(c, r, r.action, type), r.action, type, WithActor(c, r).actor)
  BY RuleOfSound
<1>2. /\ n \in Live(nodes) /\ nodes[n].type = type
      /\ InScope(nodes[n], RuleOf(c, r, r.action, type).scope)
  BY DEF Matching
<1> QED
  BY <1>1, <1>2 DEF RuleSound

\* A rule that is cached has asked for the actor, unless the site has none.
LEMMA ReadableSame ==
    ASSUME TypeInv, NEW c \in Visitor, NEW r, IsRequest(r), NEW S, NEW action, NEW row,
           r.actor = NoActor => S = << >>
    PROVE  MayRead(S, action, WithActor(c, r).actor, row) <=> MayRead(S, action, r.actor, row)
<1>1. r.actor # NoActor => WithActor(c, r).actor = r.actor
  BY WithActorIs DEF TypeInv
<1>2. CASE r.actor # NoActor
  BY <1>1, <1>2
<1>3. CASE S = << >>
  BY <1>3 DEF MayRead
<1> QED
  BY <1>2, <1>3

-----------------------------------------------------------------------------
\* A rule asked for before the actor was loaded is cached for nobody or for the actor.
LEMMA EarlyRuleReplies ==
    ASSUME TypeInv, NEW c \in Visitor, ReplyOK(site, past[c], request[c]), EarlyRule(c)
    PROVE  ReplyGoes(c)
<1>1. /\ At(c, "handler") /\ request[c].op \in {"view", "list", "page"}
      /\ Goes(c, WithRule(c, request[c].action, request[c].type))
  BY DEF EarlyRule, Asks
<1>2. request[c] # Rest /\ IsRequest(request[c]) /\ request[c].pc = "handler" /\ request[c].type \in Type
  BY <1>1, AtIs DEF IsRequest
<1>3. request[c].action \in ReadAction
  BY <1>1, <1>2, RequestEvent DEF ReadOp
<1>4. ReplyOK(site, past[c], WithRule(c, request[c].action, request[c].type))
  BY <1>2, <1>3, ReplyWithRule
<1> QED
  BY <1>1, <1>4 DEF ReplyGoes

\* The rules go with the actor they were asked for.
LEMMA SetActorReplies ==
    ASSUME TypeInv, NEW c \in Visitor, ReplyOK(site, past[c], request[c]), NEW a \in OtherActor,
           SetActor(c, a)
    PROVE  ReplyGoes(c)
<1> DEFINE r == request[c]
           q == [r EXCEPT !.actor = a, !.rules = << >>]
<1>1. At(c, "handler") /\ Goes(c, q) /\ r.op \in ReadOp \cup WriteAction
  BY AtIs DEF SetActor, IsRequest
<1>2. IsRequest(r) /\ r.pc = "handler" /\ DOMAIN r = RequestFields
  BY <1>1, AtIs
<1>3. /\ q.op = r.op /\ q.route = r.route /\ q.type = r.type /\ q.pc = r.pc /\ q.actor = a
      /\ q.rules = << >> /\ q.status = r.status /\ q.shown = r.shown
  BY <1>2 DEF RequestFields
<1> HIDE DEF q
<1>4. r.shown = {} /\ a # NoActor /\ DOMAIN q.rules = {}
  BY <1>2, <1>3, NothingShown, RequestAssumption
<1>5. Gated(site, q) <=> Gated(site, r)
  BY <1>3 DEF Gated
<1>6. ReplyOK(site, past[c], q)
  BY <1>2, <1>3, <1>4, <1>5 DEF ReplyOK
<1> QED
  BY <1>1, <1>6 DEF ReplyGoes

\* The row of a view was found by the rule of its actor, or the answer shows nothing.
LEMMA GetNodeReplies ==
    ASSUME TypeInv, NEW c \in Visitor, ReplyOK(site, past[c], request[c]), GetNode(c)
    PROVE  ReplyGoes(c)
<1> DEFINE r == request[c]
           q == [r EXCEPT !.pc = "visible", !.held = nodes[r.id]]
<1>1. IsRequest(r) /\ DOMAIN r = RequestFields /\ r.pc = "handler" /\ r.op = "view" /\ nodes \in past[c]
  BY AtIs DEF GetNode, Asks
<1>2. r.shown = {} /\ ~ Gated(site, r)
  BY <1>1, NothingShown DEF ReadOp
<1>3. CASE Answer(c, r, "notfound")
  BY <1>1, <1>2, <1>3, AnswerReplies
<1>4. CASE r.id \in Live(nodes) /\ Goes(c, q)
  <2>1. /\ q.op = r.op /\ q.action = r.action /\ q.route = r.route /\ q.type = r.type
        /\ q.actor = r.actor /\ q.principal = r.principal /\ q.rules = r.rules
        /\ q.pc = "visible" /\ q.held = nodes[r.id] /\ q.id = r.id /\ q.shown = r.shown
    BY <1>1 DEF RequestFields
  <2> HIDE DEF q, r
  <2>2. ReplyOK(site, past[c], q)
    BY <1>1, <1>2, <1>4, <2>1, ReplyNext DEF r
  <2> QED BY <1>4, <2>2 DEF ReplyGoes
<1> QED
  BY <1>3, <1>4 DEF GetNode

\* The count under the rule finds that the row read before is one the actor may read.
LEMMA CheckVisibleReplies ==
    ASSUME TypeInv, NEW c \in Visitor, ReplyOK(site, past[c], request[c]), CheckVisible(c)
    PROVE  ReplyGoes(c)
<1> DEFINE type == request[c].held.type
           r == WithRule(c, request[c].action, type)
           rule == RuleOf(c, r, r.action, r.held.type)
           q == [r EXCEPT !.pc = "expand", !.shown = {Shown(r.id, r.held)}]
           P == past[c]
<1>1. /\ request[c] # Rest /\ IsRequest(request[c]) /\ nodes \in P
      /\ request[c].pc = "visible" /\ IsRow(request[c].held) /\ request[c].op = "view"
  BY AtIs DEF CheckVisible, IsRequest, IsCall
<1>2. type \in Type /\ request[c].action \in ReadAction /\ <<request[c].action, type>> \in Event
  BY <1>1, RequestEvent DEF IsRow, ReadOp
<1>3. /\ IsRequest(r) /\ SameCall(r, request[c])
      /\ <<request[c].action, type>> \in DOMAIN r.rules
  BY <1>1, <1>2, WithRuleIs DEF TypeInv
<1>4. ReplyOK(site, P, r)
  BY <1>1, <1>2, ReplyWithRule
<1>5. /\ r.pc = "visible" /\ r.op = "view" /\ DOMAIN r = RequestFields /\ r.held.type = type
      /\ r.action = request[c].action /\ r.held = request[c].held
  BY <1>1, <1>3 DEF SameCall, IsRequest
<1>6. r.shown = {} /\ ~ Gated(site, r)
  BY <1>3, <1>4, <1>5, NothingShown DEF ReadOp
<1>7. \/ Answer(c, r, rule.status)
      \/ rule.status = "ok" /\ r.id \in Matching(c, r, type) /\ Goes(c, q)
      \/ Answer(c, r, "notfound")
  BY <1>5 DEF CheckVisible
<1> HIDE DEF r, rule
<1>8. CASE Answer(c, r, rule.status) \/ Answer(c, r, "notfound")
  BY <1>4, <1>5, <1>6, <1>8, AnswerReplies
<1>9. CASE rule.status = "ok" /\ r.id \in Matching(c, r, type) /\ Goes(c, q)
  <2>1. /\ q.op = r.op /\ q.action = r.action /\ q.route = r.route /\ q.type = r.type
        /\ q.actor = r.actor /\ q.principal = r.principal /\ q.rules = r.rules
        /\ q.pc = "expand" /\ q.shown = {Shown(r.id, r.held)}
    BY <1>5 DEF RequestFields
  <2> HIDE DEF q, type
  <2>2. ASSUME ~ Impersonated(r) PROVE RowOK(site, P, r, Shown(r.id, r.held))
    <3> DEFINE s == Shown(r.id, r.held)
               S == site[<<r.action, type>>]
    <3>1. s.id = r.id /\ s.type = type
      BY <1>5 DEF Shown
    <3>2. \E N \in P : r.id \in Live(N) /\ N[r.id] = r.held
      BY <1>4, <1>5 DEF ReplyOK
    <3>3. RuleOf(c, r, r.action, type).status = "ok"
      BY <1>5, <1>9 DEF rule
    <3>4. /\ r.id \in Live(nodes) /\ nodes[r.id].type = type
          /\ MayRead(S, r.action, WithActor(c, r).actor, nodes[r.id])
      <4> HIDE DEF S
      <4> QED BY <1>2, <1>3, <1>4, <1>5, <1>9, <2>2, <3>3, MatchingReadable DEF S
    <3>5. r.actor = NoActor => S = << >>
      BY <1>3, <1>4, <1>5 DEF ReplyOK
    <3>6. MayRead(S, r.action, r.actor, nodes[r.id])
      <4> HIDE DEF S
      <4> QED BY <1>3, <3>4, <3>5, ReadableSame
    <3>7. \E N \in P : s.id \in Live(N) /\ s = Shown(s.id, N[s.id])
      BY <3>1, <3>2
    <3> HIDE DEF s
    <3>8. \E N \in P : /\ s.id \in Live(N) /\ N[s.id].type = s.type
                       /\ MayRead(site[<<r.action, s.type>>], r.action, r.actor, N[s.id])
      BY <1>1, <3>1, <3>4, <3>6
    <3> QED BY <3>1, <3>5, <3>7, <3>8 DEF RowOK, s
  <2>3. ReplyOK(site, P, q)
    BY <1>4, <1>6, <2>1, <2>2, ReplyNext
  <2> QED BY <1>9, <2>3 DEF ReplyGoes
<1> QED
  BY <1>7, <1>8, <1>9

\* The count of a page shows nothing.
LEMMA CountNodesReplies ==
    ASSUME TypeInv, NEW c \in Visitor, ReplyOK(site, past[c], request[c]), CountNodes(c)
    PROVE  ReplyGoes(c)
<1> DEFINE r == WithRule(c, request[c].action, request[c].type)
           rule == RuleOf(c, r, r.action, r.type)
           q == [r EXCEPT !.pc = "rows"]
           P == past[c]
<1>1. /\ request[c] # Rest /\ IsRequest(request[c]) /\ DOMAIN request[c] = RequestFields
      /\ request[c].pc = "handler" /\ request[c].op \in {"list", "page"}
  BY AtIs DEF CountNodes, Asks
<1>2. /\ request[c].type \in Type /\ request[c].action \in ReadAction
      /\ <<request[c].action, request[c].type>> \in Event
  BY <1>1, RequestEvent DEF IsRequest, ReadOp
<1>3. /\ IsRequest(r) /\ SameCall(r, request[c])
      /\ <<request[c].action, request[c].type>> \in DOMAIN r.rules
  BY <1>1, <1>2, WithRuleIs DEF TypeInv
<1>4. ReplyOK(site, P, r)
  BY <1>1, <1>2, ReplyWithRule
<1>5. /\ r.pc = "handler" /\ r.op \in {"list", "page"} /\ DOMAIN r = RequestFields
      /\ <<r.action, r.type>> \in DOMAIN r.rules
  BY <1>1, <1>3 DEF SameCall, IsRequest
<1>6. /\ r.shown = {} /\ ~ Gated(site, r) /\ ~ Gated(site, request[c])
  BY <1>1, <1>3, <1>4, <1>5, NothingShown DEF ReadOp
<1>7. \/ Answer(c, request[c], "notfound")
      \/ Answer(c, r, rule.status) \/ Answer(c, r, "ok")
      \/ rule.status = "ok" /\ Goes(c, q)
  BY DEF CountNodes
<1> HIDE DEF r
<1>8. CASE Answer(c, request[c], "notfound")
  BY <1>1, <1>6, <1>8, AnswerReplies
<1>9. CASE Answer(c, r, rule.status) \/ Answer(c, r, "ok")
  BY <1>4, <1>5, <1>6, <1>9, AnswerReplies
<1>10. CASE rule.status = "ok" /\ Goes(c, q)
  <2>1. /\ q.op = r.op /\ q.action = r.action /\ q.route = r.route /\ q.type = r.type
        /\ q.actor = r.actor /\ q.principal = r.principal /\ q.rules = r.rules
        /\ q.pc = "rows" /\ q.shown = r.shown
    BY <1>5 DEF RequestFields
  <2>2. r.rules[<<r.action, r.type>>].status = "ok"
    BY <1>5, <1>10 DEF RuleOf
  <2> HIDE DEF q
  <2>3. ReplyOK(site, P, q)
    BY <1>4, <1>5, <1>6, <2>1, <2>2, ReplyNext
  <2> QED BY <1>10, <2>3 DEF ReplyGoes
<1> QED
  BY <1>7, <1>8, <1>9, <1>10

\* A row as the engine returns it.
LEMMA ShownRow ==
    ASSUME NEW P, NEW N \in P, IsTable(N), NEW n \in Live(N)
    PROVE  /\ Presentable(P, Shown(n, N[n])) /\ Shown(n, N[n]).id = n /\ Shown(n, N[n]).type = N[n].type
           /\ Shown(n, N[n]).type \in Type
<1> DEFINE s == Shown(n, N[n])
<1>1. /\ DOMAIN s = ShownFields /\ s.id = n /\ s.type = N[n].type /\ s.fields = N[n].fields
      /\ DOMAIN s.expand = {}
  BY DEF Shown, ShownFields
<1>2. N[n].type \in Type
  BY DEF IsTable, IsRow
<1> HIDE DEF s
<1>3. Presentable(P, s)
  BY <1>1, <1>2 DEF Presentable
<1> QED
  BY <1>1, <1>2, <1>3 DEF s

\* Its references followed, as they are now.
LEMMA ExpandedRow ==
    ASSUME IsTable(nodes), NEW P, NEW N \in P, NEW n \in Live(N), N[n].type \in Type
    PROVE  /\ Presentable(P, Expanded(Shown(n, N[n])))
           /\ Expanded(Shown(n, N[n])).id = n /\ Expanded(Shown(n, N[n])).type = N[n].type
<1> DEFINE s == Shown(n, N[n])
           e == Expanded(s)
           targets == References(s.id, s.type)
           expand == [f \in targets |->
                        LET to == nodes[s.id].fields[f] IN Shown(to, nodes[to])]
<1>1. /\ DOMAIN s = ShownFields /\ s.id = n /\ s.type = N[n].type /\ s.fields = N[n].fields
  BY DEF Shown, ShownFields
<1>2. e = [s EXCEPT !.expand = expand]
  BY DEF Expanded
<1>3. ASSUME NEW f \in targets
      PROVE  DOMAIN expand[f] = ShownFields /\ expand[f].type \in Type
  <2> DEFINE to == nodes[s.id].fields[f]
  <2>1. expand[f] = Shown(to, nodes[to])
    OBVIOUS
  <2>2. to \in Live(nodes)
    BY DEF References
  <2>3. nodes[to].type \in Type
    BY <2>2 DEF IsTable, IsRow
  <2> HIDE DEF s, expand, targets, to
  <2> QED BY <2>1, <2>3 DEF Shown, ShownFields
<1>4. DOMAIN expand = targets
  OBVIOUS
<1> HIDE DEF s, expand, targets
<1>5. /\ DOMAIN e = ShownFields /\ e.id = n /\ e.type = N[n].type /\ e.fields = N[n].fields
      /\ e.expand = expand
  BY <1>1, <1>2 DEF ShownFields
<1> HIDE DEF e
<1>6. Presentable(P, e)
  BY <1>3, <1>4, <1>5 DEF Presentable
<1> QED
  BY <1>5, <1>6 DEF e, s

\* A masked answer of readable rows is a step that keeps to the rules.
LEMMA MaskedReplies ==
    ASSUME TypeInv, NEW c \in Visitor, NEW r, IsRequest(r), r.pc # "done",
           ReplyOK(site, past[c], r), ~ Gated(site, r),
           NEW action \in ReadAction, action = ReplyAction(r), NEW shown,
           \A s \in shown : s.type \in Type,
           ~ Impersonated(r) =>
             \A s \in shown :
               /\ Presentable(past[c], s)
               /\ r.op \in WriteAction \/ WasReadable(site, past[c], action, WithActor(c, r).actor, s),
           AnswerMasked(c, r, action, shown)
    PROVE  ReplyGoes(c)
BY ReplyMasked DEF ReplyGoes

\* The references a reply expands are masked under the rules of the types they lead to.
LEMMA ExpandAndMaskReplies ==
    ASSUME TypeInv, NEW c \in Visitor, ReplyOK(site, past[c], request[c]), ExpandAndMask(c)
    PROVE  ReplyGoes(c)
<1> DEFINE r == request[c]
           P == past[c]
           shown == {Expanded(s) : s \in r.shown}
<1>1. /\ IsRequest(r) /\ DOMAIN r = RequestFields /\ \A s \in r.shown : s.type \in Type
      /\ r.pc = "expand" /\ r.op \in ReadOp
  BY AtIs DEF ExpandAndMask, IsRequest, IsCall, ReadOp
<1>2. /\ ~ Gated(site, r) /\ r.action \in ReadAction /\ ReplyAction(r) = r.action
  <2>1. r.op \notin WriteAction
    BY <1>1 DEF ReadOp, WriteAction
  <2> QED BY <1>1, <2>1, RequestEvent, RequestAssumption DEF Gated, ReplyAction
<1>3. \A s \in shown : s.type \in Type
  <2> SUFFICES ASSUME NEW s \in r.shown PROVE Expanded(s).type \in Type
    OBVIOUS
  <2>1. s.type \in Type
    BY <1>1
  <2>2. Expanded(s).type = s.type
    BY DEF Expanded
  <2> QED BY <2>1, <2>2
<1>4. ASSUME ~ Impersonated(r), NEW s \in r.shown
      PROVE  /\ Presentable(P, Expanded(s))
             /\ WasReadable(site, P, r.action, WithActor(c, r).actor, Expanded(s))
  <2>1. RowOK(site, P, r, s) /\ s.type \in Type
    BY <1>1, <1>4 DEF ReplyOK
  <2>2. PICK N \in P : s.id \in Live(N) /\ s = Shown(s.id, N[s.id])
    BY <2>1 DEF RowOK
  <2>3. N[s.id].type = s.type
    BY <2>2 DEF Shown
  <2>4. Presentable(P, Expanded(s)) /\ Expanded(s).id = s.id
    BY <2>1, <2>2, <2>3, ExpandedRow DEF TypeInv
  <2>5. PICK M \in P : /\ s.id \in Live(M) /\ M[s.id].type = s.type
                       /\ MayRead(site[<<r.action, s.type>>], r.action, r.actor, M[s.id])
    BY <2>1 DEF RowOK
  <2>6. r.actor = NoActor => site[<<r.action, s.type>>] = << >>
    BY <2>1 DEF RowOK
  <2>7. MayRead(site[<<r.action, s.type>>], r.action, WithActor(c, r).actor, M[s.id])
    BY <1>1, <2>5, <2>6, ReadableSame
  <2> QED BY <2>4, <2>5, <2>7 DEF WasReadable
<1>5. CASE Answer(c, r, "notfound") \/ Answer(c, r, "internal")
  BY <1>1, <1>2, <1>5, AnswerReplies
<1>6. CASE AnswerMasked(c, r, r.action, shown)
  <2>1. ~ Impersonated(r) =>
          \A s \in shown :
            /\ Presentable(P, s)
            /\ r.op \in WriteAction \/ WasReadable(site, P, r.action, WithActor(c, r).actor, s)
    BY <1>4
  <2> HIDE DEF shown, r
  <2> QED BY <1>1, <1>2, <1>3, <1>6, <2>1, MaskedReplies DEF r
<1> QED
  BY <1>5, <1>6 DEF ExpandAndMask

\* The rows of a page were found by the rule of its actor.
LEMMA GetNodesReplies ==
    ASSUME TypeInv, NEW c \in Visitor, ReplyOK(site, past[c], request[c]), GetNodes(c)
    PROVE  ReplyGoes(c)
<1> DEFINE r == request[c]
           P == past[c]
           rows == {Shown(n, nodes[n]) : n \in Matching(c, r, r.type)}
           q == [r EXCEPT !.pc = "expand", !.shown = rows]
           S == site[<<r.action, r.type>>]
<1>1. /\ IsRequest(r) /\ DOMAIN r = RequestFields /\ nodes \in P
      /\ r.pc = "rows" /\ r.op \in {"list", "page"} /\ r.type \in Type
  BY AtIs DEF GetNodes, IsRequest, IsCall
<1>2. /\ r.action \in ReadAction /\ ReplyAction(r) = r.action /\ ~ Gated(site, r)
  <2>1. r.op \notin WriteAction /\ r.op \in ReadOp
    BY <1>1 DEF ReadOp, WriteAction
  <2> QED BY <1>1, <2>1, RequestEvent DEF Gated, ReplyAction
<1>3. /\ <<r.action, r.type>> \in DOMAIN r.rules
      /\ RuleOf(c, r, r.action, r.type).status = "ok"
      /\ r.actor = NoActor => S = << >>
  BY <1>1 DEF ReplyOK, RuleOf
<1>4. \A s \in rows : s.type \in Type
  BY MatchingAre DEF TypeInv
<1>5. ASSUME NEW n \in Matching(c, r, r.type)
      PROVE  /\ n \in Live(nodes) /\ nodes[n].type = r.type
             /\ Presentable(P, Shown(n, nodes[n])) /\ Shown(n, nodes[n]).id = n
             /\ Shown(n, nodes[n]).type = r.type
  <2>1. n \in Live(nodes) /\ nodes[n].type = r.type
    BY DEF Matching
  <2> QED BY <1>1, <2>1, ShownRow DEF TypeInv
<1>6. ASSUME ~ Impersonated(r), NEW n \in Matching(c, r, r.type)
      PROVE  MayRead(S, r.action, WithActor(c, r).actor, nodes[n])
  BY <1>1, <1>2, <1>3, <1>6, MatchingReadable
<1>7. \/ AnswerMasked(c, r, r.action, rows)
      \/ Goes(c, q)
  BY DEF GetNodes
<1>8. CASE AnswerMasked(c, r, r.action, rows)
  <2>1. ASSUME ~ Impersonated(r), NEW n \in Matching(c, r, r.type)
        PROVE  /\ Presentable(P, Shown(n, nodes[n]))
               /\ WasReadable(site, P, r.action, WithActor(c, r).actor, Shown(n, nodes[n]))
    BY <1>1, <1>5, <1>6, <2>1 DEF WasReadable
  <2>2. ~ Impersonated(r) =>
          \A s \in rows :
            /\ Presentable(P, s)
            /\ r.op \in WriteAction \/ WasReadable(site, P, r.action, WithActor(c, r).actor, s)
    BY <2>1
  <2> HIDE DEF rows, r
  <2> QED BY <1>1, <1>2, <1>4, <1>8, <2>2, MaskedReplies DEF r
<1>9. CASE Goes(c, q)
  <2>1. /\ q.op = r.op /\ q.action = r.action /\ q.route = r.route /\ q.type = r.type
        /\ q.actor = r.actor /\ q.principal = r.principal /\ q.rules = r.rules
        /\ q.pc = "expand" /\ q.shown = rows
    BY <1>1 DEF RequestFields
  <2>2. ASSUME ~ Impersonated(r), NEW n \in Matching(c, r, r.type)
        PROVE  RowOK(site, P, r, Shown(n, nodes[n]))
    <3>1. MayRead(S, r.action, r.actor, nodes[n])
      BY <1>1, <1>3, <1>6, <2>2, ReadableSame
    <3> QED BY <1>1, <1>3, <1>5, <3>1 DEF RowOK
  <2>3. ~ Impersonated(r) => \A s \in rows : RowOK(site, P, r, s)
    BY <2>2
  <2> HIDE DEF q, rows, r
  <2>4. ReplyOK(site, P, q)
    BY <1>2, <2>1, <2>3, ReplyNext DEF r
  <2> QED BY <1>9, <2>4 DEF ReplyGoes
<1> QED
  BY <1>7, <1>8, <1>9

\* What a search finds in several types was found by the rule of each.
LEMMA SearchReplies ==
    ASSUME TypeInv, NEW c \in Visitor, ReplyOK(site, past[c], request[c]), Search(c)
    PROVE  ReplyGoes(c)
<1> DEFINE r == WithActor(c, request[c])
           P == past[c]
           rules == [t \in Type |-> RuleOf(c, r, "search", t)]
           targets == {[type |-> t] : t \in Searchable}
           status == MaskStatus(rules, targets)
           rows == UNION {{Shown(n, nodes[n]) : n \in Matching(c, r, t)} : t \in Searchable}
<1>1. IsRequest(request[c]) /\ request[c].pc = "handler" /\ request[c].op = "search" /\ nodes \in P
  BY AtIs DEF Search, Asks
<1>2. IsRequest(r) /\ ReplyOK(site, P, r) /\ SameCall(r, request[c]) /\ r.actor \in Actor
  BY <1>1, WithActorIs, ReplyWithActor DEF TypeInv
<1>3. /\ r.pc = "handler" /\ r.op = "search" /\ r.action = "search" /\ DOMAIN r = RequestFields
      /\ "search" \in ReadAction /\ r.op \notin WriteAction
  BY <1>1, <1>2 DEF SameCall, IsRequest, IsCall, ReadAction, WriteAction
<1>4. ~ Gated(site, r) /\ ReplyAction(r) = "search"
  BY <1>3 DEF Gated, ReplyAction
<1>5. \/ Answer(c, r, status)
      \/ status = "ok" /\ AnswerMasked(c, r, "search", rows)
  BY DEF Search
<1>6. \A s \in rows : s.type \in Type
  BY MatchingAre DEF TypeInv
<1>7. ASSUME status = "ok", NEW t \in Searchable PROVE RuleOf(c, r, "search", t).status = "ok" /\ t \in Type
  <2> DEFINE statuses == {rules[x.type].status : x \in targets}
  <2>1. rules[t] = RuleOf(c, r, "search", t) /\ t \in Type
    BY RequestAssumption
  <2>2. (\A x \in targets : rules[x.type].status = "ok") \/ \E y \in statuses : y # "ok"
    OBVIOUS
  <2>3. [type |-> t] \in targets /\ [type |-> t].type = t
    OBVIOUS
  <2> HIDE DEF rules, r
  <2>4. ASSUME ~ \A x \in targets : rules[x.type].status = "ok" PROVE FALSE
    <3>1. status = CHOOSE y \in statuses : y # "ok"
      BY <2>4 DEF MaskStatus
    <3> HIDE DEF statuses, targets, status
    <3> QED BY <1>7, <2>2, <2>4, <3>1
  <2>5. rules[t].status = "ok"
    <3> HIDE DEF targets
    <3> QED BY <2>3, <2>4
  <2> QED BY <2>1, <2>5
<1> HIDE DEF status, rules
<1>8. ASSUME status = "ok", ~ Impersonated(r), NEW t \in Searchable, NEW n \in Matching(c, r, t)
      PROVE  /\ Presentable(P, Shown(n, nodes[n]))
             /\ WasReadable(site, P, "search", WithActor(c, r).actor, Shown(n, nodes[n]))
  <2>1. t \in Type /\ RuleOf(c, r, r.action, t).status = "ok"
    BY <1>3, <1>7, <1>8
  <2> HIDE DEF r
  <2>2. /\ n \in Live(nodes) /\ nodes[n].type = t
        /\ MayRead(site[<<"search", t>>], "search", WithActor(c, r).actor, nodes[n])
    BY <1>2, <1>3, <1>8, <2>1, MatchingReadable
  <2>3. Presentable(P, Shown(n, nodes[n])) /\ Shown(n, nodes[n]).id = n
    BY <1>1, <2>2, ShownRow DEF TypeInv
  <2> QED BY <1>1, <2>2, <2>3 DEF WasReadable
<1>9. status = "ok" /\ ~ Impersonated(r) =>
        \A s \in rows : /\ Presentable(P, s)
                        /\ WasReadable(site, P, "search", WithActor(c, r).actor, s)
  BY <1>8
<1> HIDE DEF rows, r
<1>10. CASE Answer(c, r, status)
  BY <1>2, <1>3, <1>4, <1>10, AnswerReplies
<1>11. CASE status = "ok" /\ AnswerMasked(c, r, "search", rows)
  BY <1>2, <1>3, <1>4, <1>6, <1>9, <1>11, MaskedReplies
<1> QED
  BY <1>5, <1>10, <1>11

\* A write shows the row it has written, without the fields hidden from its actor.
LEMMA ReadBackReplies ==
    ASSUME TypeInv, NEW c \in Visitor, ReplyOK(site, past[c], request[c]), ReadBack(c)
    PROVE  ReplyGoes(c)
<1> DEFINE r == request[c]
           P == past[c]
           shown == {Shown(r.id, nodes[r.id])}
<1>1. /\ IsRequest(r) /\ DOMAIN r = RequestFields /\ nodes \in P
      /\ r.pc = "readback" /\ r.op \in {"create", "update"}
  BY AtIs DEF ReadBack, IsRequest, IsCall
<1>2. /\ r.op \in WriteAction /\ ReplyAction(r) = "view" /\ "view" \in ReadAction /\ ~ Gated(site, r)
  BY <1>1 DEF WriteAction, ReplyAction, ReadAction, ReplyOK
<1>3. CASE Answer(c, r, "notfound")
  BY <1>1, <1>2, <1>3, AnswerReplies
<1>4. CASE r.id \in Live(nodes) /\ AnswerMasked(c, r, "view", shown)
  <2>1. \A s \in shown : Presentable(P, s) /\ s.type \in Type
    BY <1>1, <1>4, ShownRow DEF TypeInv
  <2> HIDE DEF shown, r
  <2> QED BY <1>1, <1>2, <1>4, <2>1, MaskedReplies DEF r
<1> QED
  BY <1>3, <1>4 DEF ReadBack

-----------------------------------------------------------------------------
\* The gate of a write, and the invariant of the replies.

\* The gate says no whether the node exists or not.
LEMMA DeniedReplies ==
    ASSUME TypeInv, NEW c \in Visitor, IsRequest(request[c]), request[c].pc # "done",
           ReplyOK(site, past[c], request[c]), Denied(c)
    PROVE  ReplyGoes(c)
<1>1. IsRequest(WithActor(c, request[c])) /\ ReplyOK(site, past[c], WithActor(c, request[c]))
  BY WithActorIs, ReplyWithActor DEF TypeInv
<1>2. DeniedWrite(WithActor(c, request[c]).actor.kind) \in {"unauthorized", "forbidden"}
  BY DEF DeniedWrite
<1> QED
  BY <1>1, <1>2, AnswerReplies DEF Denied, IsRequest

\* Looking up the node of a write shows nothing.
LEMMA FindReplies ==
    ASSUME TypeInv, NEW c \in Visitor, ReplyOK(site, past[c], request[c]), FindByPath(c) \/ FindById(c)
    PROVE  ReplyGoes(c)
<1> DEFINE r == request[c]
           q == [r EXCEPT !.pc = "fire", !.held = nodes[r.id]]
<1>1. IsRequest(r) /\ DOMAIN r = RequestFields /\ r.pc = "handler"
  BY AtIs DEF FindByPath, FindById
<1>2. r.shown = {}
  BY <1>1, NothingShown
<1>3. \/ Denied(c)
      \/ Answer(c, r, "notfound") /\ ~ Gated(site, r)
      \/ Goes(c, q) /\ ~ Gated(site, r)
  BY DEF FindByPath, FindById, Gated
<1>4. CASE Denied(c)
  BY <1>1, <1>4, DeniedReplies
<1>5. CASE Answer(c, r, "notfound") /\ ~ Gated(site, r)
  BY <1>1, <1>5, AnswerReplies
<1>6. CASE Goes(c, q) /\ ~ Gated(site, r)
  <2>1. /\ q.op = r.op /\ q.action = r.action /\ q.route = r.route /\ q.type = r.type
        /\ q.actor = r.actor /\ q.principal = r.principal /\ q.rules = r.rules
        /\ q.pc = "fire" /\ q.shown = r.shown
    BY <1>1 DEF RequestFields
  <2> HIDE DEF q
  <2>2. ReplyOK(site, past[c], q)
    BY <1>2, <1>6, <2>1, ReplyNext
  <2> QED BY <1>6, <2>2 DEF ReplyGoes
<1> QED
  BY <1>3, <1>4, <1>5, <1>6

\* A write that passes the gate shows nothing yet.
LEMMA ToCommitReplies ==
    ASSUME NEW c, NEW r, IsRequest(r), r.pc \in {"handler", "fire"}, r.op \in WriteAction, NEW fields,
           ReplyOK(site, past[c], r), ~ Gated(site, r),
           Goes(c, [r EXCEPT !.pc = "commit", !.fields = fields])
    PROVE  ReplyGoes(c)
<1> DEFINE q == [r EXCEPT !.pc = "commit", !.fields = fields]
<1>1. /\ q.op = r.op /\ q.action = r.action /\ q.route = r.route /\ q.type = r.type
      /\ q.actor = r.actor /\ q.principal = r.principal /\ q.rules = r.rules
      /\ q.pc = "commit" /\ q.shown = r.shown
  BY DEF IsRequest, RequestFields
<1>2. r.shown = {}
  BY NothingShown
<1> HIDE DEF q
<1>3. ReplyOK(site, past[c], q)
  BY <1>1, <1>2, ReplyNext
<1> QED
  BY <1>3 DEF ReplyGoes, q

\* The gate of a create shows nothing.
LEMMA FireCreateReplies ==
    ASSUME TypeInv, NEW c \in Visitor, ReplyOK(site, past[c], request[c]), FireCreate(c)
    PROVE  ReplyGoes(c)
<1> DEFINE r == WithActor(c, request[c])
           fired == Fired(r, r.type, << >>)
           status == WriteStatus(fired, DOMAIN r.submitted, r.route)
<1>1. IsRequest(request[c]) /\ request[c].pc = "handler" /\ request[c].op = "create"
  BY AtIs DEF FireCreate, Asks
<1>2. IsRequest(r) /\ SameCall(r, request[c]) /\ ReplyOK(site, past[c], r)
  BY <1>1, WithActorIs, ReplyWithActor DEF TypeInv
<1>3. r.pc = "handler" /\ r.op = "create" /\ r.op \in WriteAction /\ DOMAIN r = RequestFields
  BY <1>1, <1>2 DEF SameCall, WriteAction, IsRequest
<1>4. \/ Denied(c)
      \/ /\ site[<<"create", r.type>>] # << >>
         /\ \/ Answer(c, r, status)
            \/ Goes(c, [r EXCEPT !.pc = "commit", !.fields = fired.out.fields])
  BY DEF FireCreate
<1> HIDE DEF r, fired, status
<1>5. CASE Denied(c)
  BY <1>1, <1>5, DeniedReplies
<1>6. CASE site[<<"create", r.type>>] # << >> /\ Answer(c, r, status)
  BY <1>2, <1>3, <1>6, AnswerReplies DEF Gated
<1>7. CASE /\ site[<<"create", r.type>>] # << >>
           /\ Goes(c, [r EXCEPT !.pc = "commit", !.fields = fired.out.fields])
  <2>1. ~ Gated(site, r)
    BY <1>3, <1>7 DEF Gated
  <2> QED BY <1>2, <1>3, <1>7, <2>1, ToCommitReplies
<1> QED
  BY <1>4, <1>5, <1>6, <1>7

\* The gate of an update or a delete shows nothing.
LEMMA FireChangeReplies ==
    ASSUME TypeInv, NEW c \in Visitor, ReplyOK(site, past[c], request[c]), FireChange(c)
    PROVE  ReplyGoes(c)
<1> DEFINE r == WithActor(c, request[c])
           stored == IF r.id \in Live(nodes) THEN nodes[r.id].fields ELSE << >>
           fired == Fired(r, r.held.type, stored)
           status == IF r.op = "delete"
                     THEN (IF fired.end = "ok" THEN "ok" ELSE "refused")
                     ELSE WriteStatus(fired, DOMAIN r.submitted, r.route)
<1>1. IsRequest(request[c]) /\ request[c].pc = "fire" /\ request[c].op \in {"update", "delete"}
  BY AtIs DEF FireChange, IsRequest, IsCall
<1>2. IsRequest(r) /\ SameCall(r, request[c]) /\ ReplyOK(site, past[c], r)
  BY <1>1, WithActorIs, ReplyWithActor DEF TypeInv
<1>3. r.pc = "fire" /\ r.op \in WriteAction /\ DOMAIN r = RequestFields
  BY <1>1, <1>2 DEF SameCall, WriteAction, IsRequest
<1>4. ~ Gated(site, r)
  BY <1>2, <1>3 DEF ReplyOK
<1>5. \/ Answer(c, r, status)
      \/ Goes(c, [r EXCEPT !.pc = "commit", !.fields = fired.out.fields])
  BY DEF FireChange
<1> HIDE DEF r, fired, status
<1>6. CASE Answer(c, r, status)
  BY <1>2, <1>3, <1>4, <1>6, AnswerReplies
<1>7. CASE Goes(c, [r EXCEPT !.pc = "commit", !.fields = fired.out.fields])
  BY <1>2, <1>3, <1>4, <1>7, ToCommitReplies
<1> QED
  BY <1>5, <1>6, <1>7

-----------------------------------------------------------------------------
\* A write ends the request, or goes on to the read that shows it.
CommitLeaves(c, q) ==
    \/ q = Answered(request[c], "ok", {})
    \/ q.pc = "readback"
       /\ q.op = request[c].op /\ q.action = request[c].action /\ q.route = request[c].route
       /\ q.type = request[c].type /\ q.actor = request[c].actor /\ q.principal = request[c].principal
       /\ q.rules = request[c].rules /\ q.shown = request[c].shown
       /\ q.revision = request[c].revision /\ (q.op # "create" => q.id = request[c].id)

\* A commit answers, or goes on with its request, with or without a write.
LEMMA CommitKinds ==
    ASSUME TypeInv, NEW c \in Visitor, Commits(c)
    PROVE  \/ \E status : Answer(c, request[c], status)
           \/ \E q : Goes(c, q) /\ CommitLeaves(c, q)
           \/ \E N, q : Wrote(c, N, q) /\ CommitLeaves(c, q)
<1> DEFINE r == request[c]
           back == [r EXCEPT !.pc = "readback"]
           after == IF r.route THEN Answered(r, "ok", {}) ELSE back
<1>1. DOMAIN r = RequestFields
  BY AtIs DEF Commits, CommitCreate, CommitUpdate, CommitDelete
<1>2. CommitLeaves(c, after)
  <2>1. CommitLeaves(c, back)
    BY <1>1 DEF CommitLeaves, RequestFields
  <2>2. CommitLeaves(c, Answered(r, "ok", {}))
    BY DEF CommitLeaves
  <2> HIDE DEF r, back
  <2> QED BY <2>1, <2>2
<1>3. ASSUME r.op = "create", NEW id PROVE CommitLeaves(c, [r EXCEPT !.pc = "readback", !.id = id])
  BY <1>1, <1>3 DEF CommitLeaves, RequestFields
<1>4. CommitLeaves(c, Answered(r, "ok", {}))
  BY DEF CommitLeaves
<1> HIDE DEF after
<1>5. CASE CommitCreate(c)
  <2>1. \/ Answer(c, r, "invalid")
        \/ \E id \in NextIds(nodes) : Wrote(c, WithCreated(id, r.type, r.fields),
                                            [r EXCEPT !.pc = "readback", !.id = id])
    BY <1>5 DEF CommitCreate
  <2>2. r.op = "create"
    BY <1>5 DEF CommitCreate, Asks
  <2> QED BY <1>3, <2>1, <2>2, Zenon
<1>6. CASE CommitUpdate(c)
  <2>1. \/ \E status : Answer(c, r, status)
        \/ Goes(c, after)
        \/ Wrote(c, WithPatched(r.id, r.fields), after)
    BY <1>6, Zenon DEF CommitUpdate, after
  <2> QED BY <1>2, <2>1, Zenon
<1>7. CASE CommitDelete(c)
  <2>1. \/ \E status : Answer(c, r, status)
        \/ Wrote(c, [nodes EXCEPT ![r.id] = NoNode], Answered(r, "ok", {}))
    BY <1>7, Zenon DEF CommitDelete
  <2> QED BY <1>4, <2>1, Zenon
<1> QED
  BY <1>5, <1>6, <1>7 DEF Commits

\* What a commit leaves of its request keeps to the rules of replies.
LEMMA CommitLeavesOK ==
    ASSUME TypeInv, NEW c \in Visitor, IsRequest(request[c]), request[c].pc = "commit",
           NEW P, ReplyOK(site, P, request[c]), NEW q, CommitLeaves(c, q)
    PROVE  ReplyOK(site, P, q)
<1>1. DOMAIN request[c] = RequestFields /\ ~ Gated(site, request[c]) /\ request[c].shown = {}
  BY NothingShown DEF IsRequest, ReplyOK
<1>2. CASE q = Answered(request[c], "ok", {})
  BY <1>1, <1>2, ReplyAnswered
<1>3. CASE q # Answered(request[c], "ok", {})
  BY <1>1, <1>3, ReplyNext DEF CommitLeaves
<1> QED
  BY <1>2, <1>3

-----------------------------------------------------------------------------
\* A step of one request that keeps to the rules keeps the invariant.
LEMMA ReplyGoesNext ==
    ASSUME TypeInv, ReplyInv, NEW c \in Visitor, ReplyGoes(c)
    PROVE  ReplyInv'
<1>1. PICK q : Goes(c, q) /\ ReplyOK(site, past[c], q)
  BY DEF ReplyGoes
<1>2. /\ \A d \in Visitor : request'[d] = IF d = c THEN q ELSE request[d]
      /\ UNCHANGED <<site, past>>
  BY <1>1 DEF Goes, TypeInv
<1> QED
  BY <1>1, <1>2 DEF ReplyInv

\* What the others write makes the past of a request longer.
LEMMA ReplyStoresNext ==
    ASSUME TypeInv, ReplyInv, NEW N, Stores(N), UNCHANGED site,
           \A d \in Visitor : request'[d] # Rest =>
             request[d] # Rest /\ (request'[d] = request[d] \/ ReplyOK(site, past[d], request'[d]))
    PROVE  ReplyInv'
<1>1. \A d \in Visitor : past'[d] = IF request[d] = Rest THEN {} ELSE past[d] \cup {N}
  BY DEF Stores
<1>2. ASSUME NEW d \in Visitor, request'[d] # Rest
      PROVE  ReplyOK(site, past'[d], request'[d])
  <2>1. ReplyOK(site, past[d], request'[d])
    BY <1>2 DEF ReplyInv
  <2>2. past[d] \subseteq past'[d]
    BY <1>1, <1>2
  <2> QED BY <2>1, <2>2, ReplyStays
<1> QED
  BY <1>2 DEF ReplyInv

\* A request that begins or ends keeps the invariant.
LEMMA ReplyBegins ==
    ASSUME TypeInv, ReplyInv, NEW c \in Visitor, Begins(c) \/ EndRequest(c)
    PROVE  ReplyInv'
<1>1. CASE EndRequest(c)
  <2>1. /\ \A d \in Visitor : request'[d] = IF d = c THEN Rest ELSE request[d]
        /\ \A d \in Visitor : d # c => past'[d] = past[d]
        /\ UNCHANGED site
    BY <1>1 DEF EndRequest, TypeInv
  <2> QED BY <2>1 DEF ReplyInv
<1>2. CASE Begins(c)
  <2>1. PICK op, action, route, type, id, submitted, revision :
          Begin(c, op, action, route, type, id, submitted, revision)
    BY <1>2, Zenon DEF Begins
  <2> DEFINE q == NewRequest(op, action, route, type, id, submitted, revision)
  <2>2. /\ \A d \in Visitor : request'[d] = IF d = c THEN q ELSE request[d]
        /\ \A d \in Visitor : d # c => past'[d] = past[d]
        /\ UNCHANGED site
    BY <2>1 DEF Begin, TypeInv
  <2>3. /\ q.pc = "handler" /\ q.rules = << >> /\ q.shown = {} /\ q.actor = NoActor
    BY DEF NewRequest
  <2>4. ReplyOK(site, past'[c], q)
    <3>1. DOMAIN q.rules = {}
      BY <2>3
    <3> HIDE DEF q
    <3> QED BY <2>3, <3>1 DEF ReplyOK, Gated
  <2> HIDE DEF q
  <2> QED BY <2>2, <2>4 DEF ReplyInv
<1> QED
  BY <1>1, <1>2

\* Every step keeps the invariant of the replies.
LEMMA RepliesNext ==
    ASSUME NoneAreRecords, TypeInv, ReplyInv, [Next]_vars
    PROVE  ReplyInv'
<1>1. ASSUME UNCHANGED siteVars PROVE ReplyInv'
  BY <1>1 DEF siteVars, ReplyInv
<1>2. ASSUME NEW c \in Visitor, Reads(c) \/ Fires(c) \/ EarlyRule(c) PROVE ReplyGoes(c)
  <2>1. request[c] # Rest
    BY <1>2, AtIs DEF Reads, Fires, EarlyRule, GetNode, CheckVisible, ExpandAndMask, CountNodes, GetNodes,
                 Search, ReadBack, FindByPath, FindById, FireCreate, FireChange
  <2>2. ReplyOK(site, past[c], request[c])
    BY <2>1 DEF ReplyInv
  <2> QED BY <1>2, <2>2, GetNodeReplies, CheckVisibleReplies, ExpandAndMaskReplies, CountNodesReplies,
             GetNodesReplies, SearchReplies, ReadBackReplies, FindReplies, FireCreateReplies,
             FireChangeReplies, EarlyRuleReplies DEF Reads, Fires
<1>3. ASSUME NEW c \in Visitor, NEW a \in OtherActor, SetActor(c, a) PROVE ReplyGoes(c)
  BY <1>3, AtIs, SetActorReplies DEF SetActor, ReplyInv
<1>4. ASSUME NEW c \in Visitor, Commits(c) PROVE ReplyInv'
  <2>1. request[c] # Rest /\ IsRequest(request[c]) /\ request[c].pc = "commit" /\ DOMAIN request[c] = RequestFields
    BY <1>4, AtIs DEF Commits, CommitCreate, CommitUpdate, CommitDelete
  <2>2. ReplyOK(site, past[c], request[c])
    BY <2>1 DEF ReplyInv
  <2>3. ASSUME NEW status, Answer(c, request[c], status) PROVE ReplyInv'
    BY <2>1, <2>2, <2>3, AnswerReplies, ReplyGoesNext DEF ReplyOK
  <2>4. ASSUME NEW q, Goes(c, q), CommitLeaves(c, q) PROVE ReplyInv'
    BY <2>1, <2>2, <2>4, CommitLeavesOK, ReplyGoesNext DEF ReplyGoes
  <2>5. ASSUME NEW N, NEW q, Wrote(c, N, q), CommitLeaves(c, q) PROVE ReplyInv'
    <3>1. ReplyOK(site, past[c], q)
      BY <2>1, <2>2, <2>5, CommitLeavesOK
    <3>2. /\ Stores(N) /\ UNCHANGED site
          /\ \A d \in Visitor : request'[d] = IF d = c THEN q ELSE request[d]
      BY <2>5 DEF Wrote, TypeInv
    <3> QED BY <2>1, <3>1, <3>2, ReplyStoresNext
  <2> QED BY <1>4, <2>3, <2>4, <2>5, CommitKinds
<1>5. ASSUME Edits PROVE ReplyInv'
  <2>1. \E N : Stores(N) /\ UNCHANGED <<site, request>>
    BY <1>5, Zenon DEF Edits, EditorCreate, EditorPatch, EditorDelete, EditorWrote
  <2> QED BY <2>1, ReplyStoresNext
<1>6. CASE UNCHANGED vars
  BY <1>1, <1>6 DEF vars
<1>7. CASE AccountStep
  BY <1>1, <1>7 DEF AccountStep
<1>8. CASE Next /\ ~ AccountStep
  BY <1>2, <1>3, <1>4, <1>5, <1>8, ReplyBegins, ReplyGoesNext, StepKinds
<1> QED
  BY <1>6, <1>7, <1>8

\* Whatever handlers a site registers and whatever others write meanwhile, an answer to
\* an actor that SetActor has not exchanged shows a node only if at some moment of the
\* request the actor could read it (or the request has written it), with its content of
\* some moment but the fields hidden from the actor; a reference is expanded without its
\* hidden fields and only into types whose handlers all agree. An answer that fails shows
\* nothing, and a write of a type without a rule is answered by the gate. For any number
\* of visitors, nodes, types and handlers, and with every way the rules get into a
\* request's cache.
THEOREM RepliesAreReadable == NoneAreRecords => (Spec => []RepliesObeyRules)
<1> SUFFICES ASSUME NoneAreRecords PROVE Spec => []RepliesObeyRules
  OBVIOUS
<1> DEFINE Inv == TypeInv /\ ReplyInv
<1>1. Init => Inv
  <2> SUFFICES ASSUME Init PROVE ReplyInv
    BY TypesInitially
  <2> QED BY DEF Init, ReplyInv
<1>2. Inv /\ [Next]_vars => Inv'
  BY TypesNext, RepliesNext
<1>3. Inv => RepliesObeyRules
  <2> SUFFICES ASSUME Inv, NEW c \in Visitor, At(c, "done")
               PROVE  /\ ~ Impersonated(request[c]) =>
                            \A s \in request[c].shown : ShownIsReadable(c, s)
                      /\ request[c].status # "ok" => request[c].shown = {}
                      /\ Gated(site, request[c]) => request[c].status \in {"unauthorized", "forbidden"}
    BY DEF RepliesObeyRules, Gated, Asks
  <2>1. ReplyOK(site, past[c], request[c]) /\ request[c].pc = "done"
    BY DEF ReplyInv, At
  <2>2. ASSUME NEW s, ShownOK(site, past[c], request[c], s) PROVE ShownIsReadable(c, s)
    BY <2>2 DEF ShownOK, ShownIsReadable, ReplyAction, Readable, HiddenFields
  <2> QED BY <2>1, <2>2 DEF ReplyOK
<1> QED
  BY <1>1, <1>2, <1>3, PTL DEF Spec

-----------------------------------------------------------------------------
\* Write rules.

\* There are handlers, and all agree.
Agreed(hs, a) == hs # << >> /\ \A i \in DOMAIN hs : hs[i].end[a.kind] = "ok"

\* No handler asks whose the row is, or it is the actor's.
Unowned(hs, a) == \A i \in DOMAIN hs : a.kind \notin hs[i].own
Owned(hs, a, fields) == \A i \in DOMAIN hs : a.kind \in hs[i].own => Author(fields) = a.id

\* The fields that a handler has allowed.
AllowedBy(hs, a) == UNION {hs[i].allow[a.kind] : i \in DOMAIN hs}

\* What the handlers have made of the fields that were submitted.
FieldsFired(hs, r, type) ==
    \A f \in FieldNames(type) :
        IF Setters(hs, r.actor, f) # {}
        THEN f \in DOMAIN r.fields /\ r.fields[f] = SetTo(hs, r.actor, f)
        ELSE /\ f \in DOMAIN r.fields <=> f \in DOMAIN r.submitted
             /\ f \in DOMAIN r.submitted =>
                  r.fields[f] = r.submitted[f] /\ (r.route => f \in AllowedBy(hs, r.actor))

\* The type whose rule a write has to obey.
TypeWritten(r) == IF r.op = "create" THEN r.type ELSE r.held.type

\* Of a node that was there all the time, equal revisions are equal rows.
HistoryKept(P, T, r) ==
    (\A N \in P : N[r.id] # NoNode) =>
        \A N \in P :
            /\ N[r.id].type = T[r.id].type
            /\ N[r.id].revision <= T[r.id].revision
            /\ N[r.id].revision = T[r.id].revision => N[r.id] = T[r.id]

\* The handlers agree about the row in the table N of the past P, no older than the row held.
AgreedAbout(hs, P, N, r) ==
    /\ r.id \in Live(N) /\ Owned(hs, r.actor, N[r.id].fields)
    /\ (\A M \in P : M[r.id] # NoNode) => r.held.revision <= N[r.id].revision

\* At the commit: the rule has agreed about a row of the past.
RuleAgrees(S, P, r) ==
    LET hs == S[<<r.op, TypeWritten(r)>>]
    IN  /\ Agreed(hs, r.actor)
        /\ \/ Unowned(hs, r.actor)
           \/ /\ r.op # "create"
              /\ \E N \in P : AgreedAbout(hs, P, N, r)
        /\ r.op # "delete" => FieldsFired(hs, r, TypeWritten(r))

\* What holds of a request r with the past P over the table T.
WriteOK(S, P, T, r) ==
    /\ r.op \in {"update", "delete"} =>
         /\ r.id \in NodeId /\ r.revision \in Nat
         /\ HistoryKept(P, T, r)
         /\ r.pc \in {"fire", "commit"} =>
              /\ \E N \in P : r.id \in Live(N) /\ N[r.id] = r.held
              /\ S[<<r.op, r.held.type>>] # << >>
    /\ r.pc = "commit" /\ ~ Impersonated(r) => RuleAgrees(S, P, r)

\* The invariant of the writes.
WriteInv == \A c \in Visitor : request[c] # Rest => WriteOK(site, past[c], nodes, request[c])

\* And for the events of the write rules.
WB == INSTANCE HookBusProofs WITH Call <- CallWrite

\* The handler i is the last of the first k that sets the field f.
LastSetter(hs, kind, k, f, i) ==
    /\ i \in 1 .. k /\ f \in DOMAIN hs[i].set[kind]
    /\ \A j \in 1 .. k : f \in DOMAIN hs[j].set[kind] => j <= i

\* What the handlers 1 .. k leave in the fields.
FieldsAfter(hs, a, k, fields, new) ==
    \A f :
        /\ (\E i \in 1 .. k : f \in DOMAIN hs[i].set[a.kind]) =>
             /\ f \in DOMAIN new
             /\ \E i : /\ LastSetter(hs, a.kind, k, f, i)
                       /\ new[f] = SetValue(hs[i].set[a.kind][f], a.id)
        /\ ~ (\E i \in 1 .. k : f \in DOMAIN hs[i].set[a.kind]) =>
             /\ f \in DOMAIN new <=> f \in DOMAIN fields
             /\ f \in DOMAIN fields => new[f] = fields[f]

\* One handler more.
LEMMA FieldsAfterOne ==
    ASSUME NEW hs, NEW a, NEW k \in Nat, k # 0, NEW fields, NEW old, FieldsAfter(hs, a, k - 1, fields, old),
           NEW new, DOMAIN new = DOMAIN hs[k].set[a.kind] \cup DOMAIN old,
           \A f \in DOMAIN new :
             new[f] = IF f \in DOMAIN hs[k].set[a.kind] THEN SetValue(hs[k].set[a.kind][f], a.id)
                                                        ELSE old[f]
    PROVE  FieldsAfter(hs, a, k, fields, new)
<1> DEFINE Sets(i, f) == f \in DOMAIN hs[i].set[a.kind]
<1>0. \A i : i \in 1 .. k <=> i \in 1 .. k - 1 \/ i = k
  OBVIOUS
<1>a. \A i \in 1 .. k : i <= k
  OBVIOUS
<1> SUFFICES ASSUME NEW f
             PROVE  /\ (\E i \in 1 .. k : Sets(i, f)) =>
                          /\ f \in DOMAIN new
                          /\ \E i : /\ LastSetter(hs, a.kind, k, f, i)
                                    /\ new[f] = SetValue(hs[i].set[a.kind][f], a.id)
                    /\ ~ (\E i \in 1 .. k : Sets(i, f)) =>
                          /\ f \in DOMAIN new <=> f \in DOMAIN fields
                          /\ f \in DOMAIN fields => new[f] = fields[f]
  BY DEF FieldsAfter
<1>1. CASE Sets(k, f)
  <2>1. LastSetter(hs, a.kind, k, f, k)
    BY <1>0, <1>a, <1>1 DEF LastSetter
  <2> QED BY <1>0, <1>1, <2>1
<1>2. CASE ~ Sets(k, f) /\ \E i \in 1 .. k - 1 : Sets(i, f)
  <2>1. f \in DOMAIN old
    BY <1>2 DEF FieldsAfter
  <2>2. PICK i : /\ LastSetter(hs, a.kind, k - 1, f, i)
                 /\ old[f] = SetValue(hs[i].set[a.kind][f], a.id)
    BY <1>2 DEF FieldsAfter
  <2>3. LastSetter(hs, a.kind, k, f, i)
    BY <1>0, <1>2, <2>2 DEF LastSetter
  <2>4. f \in DOMAIN new /\ new[f] = old[f]
    BY <1>2, <2>1
  <2> QED BY <1>0, <1>2, <2>2, <2>3, <2>4
<1>3. CASE ~ Sets(k, f) /\ ~ \E i \in 1 .. k - 1 : Sets(i, f)
  <2>1. /\ f \in DOMAIN old <=> f \in DOMAIN fields
        /\ f \in DOMAIN fields => old[f] = fields[f]
    BY <1>3 DEF FieldsAfter
  <2> QED BY <1>0, <1>3, <2>1
<1> QED
  BY <1>1, <1>2, <1>3

\* All handlers have agreed, and the last of them to set a field has set it.
LEMMA WriteFired ==
    ASSUME NEW hs, Len(hs) \in Nat, DOMAIN hs = 1 .. Len(hs), NEW a, NEW p \in {Nobody, a.id},
           NEW stored, NEW fields, FireWrite(hs, a.kind, p, stored, fields).end = "ok"
    PROVE  /\ \A i \in DOMAIN hs : /\ hs[i].end[a.kind] = "ok"
                                   /\ a.kind \in hs[i].own => a.id # Nobody /\ Author(stored) = a.id
           /\ FireWrite(hs, a.kind, p, stored, fields).out.allow = AllowedBy(hs, a)
           /\ FieldsAfter(hs, a, Len(hs), fields, FireWrite(hs, a.kind, p, stored, fields).out.fields)
<1> DEFINE kind == a.kind
           L == Len(hs)
           who == [kind |-> kind, principal |-> p, stored |-> stored]
           args == [allow |-> {}, fields |-> fields]
           U == WB!FiredUpTo(hs, who, args)
           F == FireWrite(hs, kind, p, stored, fields)
<1>1. F = U[L] /\ F = WB!Fire(hs, who, args)
  BY DEF FireWrite, WriteBus!Fire, WriteBus!FiredUpTo, WB!Fire, WB!FiredUpTo, WriteBus!Ended, WB!Ended
<1>2. U[0] = [out |-> args, end |-> "ok"]
  BY WB!FiredUpToDef
<1>3. ASSUME NEW i \in 1 .. L
      PROVE  /\ U[i].out = CallWrite(who, U[i - 1].out, hs[i]).out
             /\ CallWrite(who, U[i - 1].out, hs[i]).end = "ok"
  BY <1>1, WB!FireOk
<1> HIDE DEF U
<1>4. ASSUME NEW i \in 1 .. L
      PROVE  /\ hs[i].end[kind] = "ok" /\ (kind \in hs[i].own => a.id # Nobody /\ Author(stored) = a.id)
             /\ U[i].out.allow = U[i - 1].out.allow \cup hs[i].allow[kind]
             /\ DOMAIN U[i].out.fields = DOMAIN hs[i].set[kind] \cup DOMAIN U[i - 1].out.fields
             /\ \A f \in DOMAIN U[i].out.fields :
                  U[i].out.fields[f] = IF f \in DOMAIN hs[i].set[kind] THEN SetValue(hs[i].set[kind][f], a.id)
                                       ELSE U[i - 1].out.fields[f]
  <2> DEFINE h == hs[i]
             before == U[i - 1].out
             set == h.set[kind]
             own == kind \in h.own
             asks == own \/ \E n \in DOMAIN set : set[n] = "self"
             new == [n \in DOMAIN set \cup DOMAIN before.fields |->
                       IF n \in DOMAIN set THEN SetValue(set[n], p) ELSE before.fields[n]]
  <2>1. /\ U[i].out = CallWrite(who, before, h).out
        /\ CallWrite(who, before, h).end = "ok"
    BY <1>3
  <2>2. who.kind = kind /\ who.principal = p /\ who.stored = stored
    OBVIOUS
  <2> HIDE DEF who
  <2>3. ~ (h.end[kind] = "refuse" \/ (asks /\ p = Nobody) \/ ~ (own => Author(stored) = p))
    BY <2>1, <2>2 DEF CallWrite
  <2>4. /\ h.end[kind] = "ok"
        /\ U[i].out = [allow |-> before.allow \cup h.allow[kind], fields |-> new]
    BY <2>1, <2>2, <2>3 DEF CallWrite
  <2>5. asks => p = a.id /\ a.id # Nobody
    BY <2>3
  <2>6. ASSUME NEW n \in DOMAIN set PROVE SetValue(set[n], p) = SetValue(set[n], a.id)
    BY <2>5 DEF SetValue
  <2>7. U[i].out.allow = before.allow \cup h.allow[kind] /\ U[i].out.fields = new
    BY <2>4
  <2>8. /\ DOMAIN new = DOMAIN set \cup DOMAIN before.fields
        /\ \A f \in DOMAIN new : new[f] = IF f \in DOMAIN set THEN SetValue(set[f], a.id) ELSE before.fields[f]
    BY <2>6
  <2> HIDE DEF new
  <2> QED BY <2>3, <2>4, <2>5, <2>7, <2>8
<1> DEFINE Upto(k) ==
             /\ \A f : f \in U[k].out.allow <=> \E i \in 1 .. k : f \in hs[i].allow[kind]
             /\ FieldsAfter(hs, a, k, fields, U[k].out.fields)
           Good == {k \in 0 .. L : Upto(k)}
<1>5. 0 .. L \subseteq Good
  <2>1. 0 \in Good
    <3>1. FieldsAfter(hs, a, 0, fields, fields)
      BY DEF FieldsAfter
    <3>2. U[0].out.allow = {} /\ U[0].out.fields = fields
      BY <1>2
    <3> QED BY <3>1, <3>2
  <2>2. ASSUME NEW k \in 1 .. L, k - 1 \in Good PROVE k \in Good
    <3>1. Upto(k - 1) /\ k \in Nat /\ k # 0
      BY <2>2
    <3>2. \A i : i \in 1 .. k <=> i \in 1 .. k - 1 \/ i = k
      OBVIOUS
    <3>3. \A f : f \in U[k].out.allow <=> \E i \in 1 .. k : f \in hs[i].allow[kind]
      BY <1>4, <3>1, <3>2
    <3>4. FieldsAfter(hs, a, k, fields, U[k].out.fields)
      <4> DEFINE old == U[k - 1].out.fields
                 new == U[k].out.fields
      <4>1. /\ DOMAIN new = DOMAIN hs[k].set[a.kind] \cup DOMAIN old
            /\ \A f \in DOMAIN new :
                 new[f] = IF f \in DOMAIN hs[k].set[a.kind] THEN SetValue(hs[k].set[a.kind][f], a.id)
                                                            ELSE old[f]
        BY <1>4
      <4>2. FieldsAfter(hs, a, k - 1, fields, old) /\ k \in Nat /\ k # 0
        BY <3>1
      <4> HIDE DEF old, new
      <4>3. FieldsAfter(hs, a, k, fields, new)
        BY <4>1, <4>2, FieldsAfterOne
      <4> QED BY <4>3 DEF new
    <3> QED BY <3>3, <3>4
  <2> HIDE DEF Good, L
  <2> QED BY <2>1, <2>2, InductionOn DEF L
<1>6. Upto(L)
  BY <1>5
<1>7. U[L].out.allow = AllowedBy(hs, a)
  BY <1>6 DEF AllowedBy
<1> QED
  BY <1>1, <1>4, <1>6, <1>7

\* The last setter is the one SetTo chooses.
LEMMA FiredSets ==
    ASSUME NEW hs, Len(hs) \in Nat, DOMAIN hs = 1 .. Len(hs), NEW a, NEW fields, NEW new,
           FieldsAfter(hs, a, Len(hs), fields, new), NEW f
    PROVE  IF Setters(hs, a, f) # {} THEN f \in DOMAIN new /\ new[f] = SetTo(hs, a, f)
           ELSE /\ f \in DOMAIN new <=> f \in DOMAIN fields
                /\ f \in DOMAIN fields => new[f] = fields[f]
<1>1. CASE Setters(hs, a, f) = {}
  BY <1>1 DEF Setters, FieldsAfter
<1>2. CASE Setters(hs, a, f) # {}
  <2>1. /\ f \in DOMAIN new
        /\ \E i : LastSetter(hs, a.kind, Len(hs), f, i) /\ new[f] = SetValue(hs[i].set[a.kind][f], a.id)
    BY <1>2 DEF Setters, FieldsAfter
  <2>2. PICK i : LastSetter(hs, a.kind, Len(hs), f, i) /\ new[f] = SetValue(hs[i].set[a.kind][f], a.id)
    BY <2>1
  <2> DEFINE last == CHOOSE j \in Setters(hs, a, f) : \A k \in Setters(hs, a, f) : k <= j
  <2>3. i \in Setters(hs, a, f) /\ \A k \in Setters(hs, a, f) : k <= i
    BY <2>2 DEF LastSetter, Setters
  <2>4. last \in Setters(hs, a, f) /\ \A k \in Setters(hs, a, f) : k <= last
    BY <2>3
  <2>5. Setters(hs, a, f) \subseteq 1 .. Len(hs)
    BY DEF Setters
  <2> HIDE DEF last
  <2>6. last = i
    BY <2>3, <2>4, <2>5
  <2> QED BY <1>2, <2>1, <2>2, <2>6 DEF SetTo, last
<1> QED
  BY <1>1, <1>2

-----------------------------------------------------------------------------
\* Histories of rows.

\* A step leaves a row alone, or makes or deletes it, or patches it once.
RowStep(old, new) ==
    \/ new = old \/ new = NoNode \/ old = NoNode
    \/ new.type = old.type /\ new.revision = old.revision + 1

\* What a step does to one row: nothing, create, delete, or a patch that raises the
\* revision.
LEMMA RowSteps ==
    ASSUME NoneAreRecords, TypeInv, [Next]_vars
    PROVE  \A n \in NodeId : RowStep(nodes[n], nodes'[n])
<1>0. DOMAIN nodes = NodeId
  BY DEF TypeInv, IsTable
<1>1. CASE UNCHANGED nodes
  BY <1>1 DEF RowStep
<1>2. ASSUME NEW id \in NextIds(nodes), NEW row, nodes' = [nodes EXCEPT ![id] = row]
      PROVE  \A n \in NodeId : RowStep(nodes[n], nodes'[n])
  <2>1. id \in NodeId /\ nodes[id] = NoNode
    BY DEF NextIds, Live, NodeId
  <2> QED BY <1>0, <1>2, <2>1 DEF RowStep
<1>3. ASSUME NEW m \in Live(nodes), NEW patch, nodes' = WithPatched(m, patch)
      PROVE  \A n \in NodeId : RowStep(nodes[n], nodes'[n])
  <2>1. /\ \A n \in NodeId \ {m} : nodes'[n] = nodes[n]
        /\ nodes'[m].type = nodes[m].type /\ nodes'[m].revision = nodes[m].revision + 1
    BY <1>3, PatchedRow DEF TypeInv
  <2> QED BY <2>1 DEF RowStep
<1>4. ASSUME NEW m \in Live(nodes), nodes' = [nodes EXCEPT ![m] = NoNode]
      PROVE  \A n \in NodeId : RowStep(nodes[n], nodes'[n])
  BY <1>0, <1>4 DEF RowStep
<1> QED
  BY <1>1, <1>2, <1>3, <1>4, NodesStep DEF WithCreated

\* The history of a request's row stays what it is when the table changes.
LEMMA HistoryGrows ==
    ASSUME NEW P, NEW T \in P, \A N \in P : IsTable(N), NEW U, IsTable(U), NEW r, r.id \in NodeId,
           HistoryKept(P, T, r), RowStep(T[r.id], U[r.id])
    PROVE  HistoryKept(P \cup {U}, U, r)
<1> DEFINE id == r.id
<1> SUFFICES ASSUME \A N \in P \cup {U} : N[id] # NoNode, NEW N \in P \cup {U}
             PROVE  /\ N[id].type = U[id].type
                    /\ N[id].revision <= U[id].revision
                    /\ N[id].revision = U[id].revision => N[id] = U[id]
  BY DEF HistoryKept
<1>1. /\ N[id].revision \in Nat /\ T[id].revision \in Nat /\ U[id].revision \in Nat
  <2>1. IsTable(N) /\ IsTable(T) /\ IsTable(U)
    OBVIOUS
  <2>2. N[id] # NoNode /\ T[id] # NoNode /\ U[id] # NoNode
    OBVIOUS
  <2>3. IsRow(N[id]) /\ IsRow(T[id]) /\ IsRow(U[id])
    BY <2>1, <2>2 DEF IsTable, Live
  <2> QED BY <2>3, RequestAssumption DEF IsRow
<1>2. /\ U[id].type = T[id].type
      /\ U[id] = T[id] \/ U[id].revision = T[id].revision + 1
  BY DEF RowStep
<1>3. N \in P => /\ N[id].type = T[id].type
                 /\ N[id].revision <= T[id].revision
                 /\ N[id].revision = T[id].revision => N[id] = T[id]
  BY DEF HistoryKept
<1> HIDE DEF id
<1>4. CASE N = U
  BY <1>1, <1>2, <1>3, <1>4
<1>5. CASE N # U
  BY <1>1, <1>2, <1>3, <1>5
<1> QED
  BY <1>4, <1>5

\* What the others write takes nothing away from what a rule has agreed to.
LEMMA WriteStays ==
    ASSUME NEW S, NEW P, NEW T \in P, \A N \in P : IsTable(N), NEW U, IsTable(U), NEW r,
           r.op \in {"update", "delete"} => RowStep(T[r.id], U[r.id]), WriteOK(S, P, T, r)
    PROVE  WriteOK(S, P \cup {U}, U, r)
<1>1. r.op \in {"update", "delete"} => HistoryKept(P \cup {U}, U, r)
  BY HistoryGrows DEF WriteOK
<1>2. ASSUME RuleAgrees(S, P, r) PROVE RuleAgrees(S, P \cup {U}, r)
  <2>1. \A hs, N : N \in P /\ AgreedAbout(hs, P, N, r) => AgreedAbout(hs, P \cup {U}, N, r)
    BY DEF AgreedAbout
  <2> QED BY <1>2, <2>1 DEF RuleAgrees
<1> QED
  BY <1>1, <1>2 DEF WriteOK

\* A call other than the gate of a write.
KeepsWrite(r, q) == q.op = r.op /\ q.id = r.id /\ q.revision = r.revision /\ q.pc \notin {"fire", "commit"}

\* A call other than the gate keeps what the rule of a write has agreed to.
LEMMA WriteNext ==
    ASSUME NEW S, NEW P, NEW T, NEW r, WriteOK(S, P, T, r), NEW q, KeepsWrite(r, q)
    PROVE  WriteOK(S, P, T, q)
BY DEF WriteOK, HistoryKept, KeepsWrite

\* An answer is a call other than the gate.
LEMMA AnswerKeeps ==
    ASSUME NEW r, DOMAIN r = RequestFields, NEW status, NEW shown
    PROVE  KeepsWrite(r, Answered(r, status, shown))
BY AnsweredSame DEF KeepsWrite

\* The state of a request after a call other than the gate of a write.
Kept(c) == \E q : Goes(c, q) /\ KeepsWrite(request[c], q)

\* A request that goes on or answers without passing the gate.
LEMMA KeptGoes ==
    ASSUME NEW c, NEW r, DOMAIN r = RequestFields, r = request[c] \/ SameCall(r, request[c])
    PROVE  /\ \A status : Answer(c, r, status) => Kept(c)
           /\ \A q : Goes(c, q) /\ KeepsWrite(r, q) => Kept(c)
<1>1. r.op = request[c].op /\ r.id = request[c].id /\ r.revision = request[c].revision
  BY DEF SameCall
<1>2. ASSUME NEW q, Goes(c, q), KeepsWrite(r, q) PROVE Kept(c)
  BY <1>1, <1>2 DEF Kept, KeepsWrite
<1>3. ASSUME NEW status, Answer(c, r, status) PROVE Kept(c)
  BY <1>2, <1>3, AnswerKeeps DEF Answer
<1> QED
  BY <1>2, <1>3

\* A masked answer is a call other than the gate.
LEMMA MaskedKept ==
    ASSUME TypeInv, NEW c \in Visitor, NEW r, IsRequest(r), r = request[c] \/ SameCall(r, request[c]),
           NEW action, NEW shown, AnswerMasked(c, r, action, shown)
    PROVE  Kept(c)
<1> DEFINE q == WithActor(c, r)
<1>1. SameCall(q, r) /\ DOMAIN q = RequestFields
  BY WithActorIs DEF TypeInv, IsRequest
<1>2. SameCall(q, request[c])
  BY <1>1 DEF SameCall
<1>3. \E status, left : Goes(c, Answered(q, status, left))
  BY Zenon DEF AnswerMasked
<1> HIDE DEF q
<1> QED
  BY <1>1, <1>2, <1>3, AnswerKeeps, KeptGoes

\* Asking for a read rule is a call other than the gate.
LEMMA WithRuleKept ==
    ASSUME TypeInv, NEW c \in Visitor, IsRequest(request[c]), request[c].op \in ReadOp, NEW type \in Type
    PROVE  LET r == WithRule(c, request[c].action, type)
           IN  IsRequest(r) /\ SameCall(r, request[c]) /\ DOMAIN r = RequestFields
<1>1. <<request[c].action, type>> \in Event
  BY RequestEvent
<1>2. IsRequest(WithRule(c, request[c].action, type)) /\ SameCall(WithRule(c, request[c].action, type), request[c])
  BY <1>1, WithRuleIs DEF TypeInv
<1> QED
  BY <1>2 DEF IsRequest

\* The calls of the reading operations are calls other than the gate.
LEMMA ReadsKept ==
    ASSUME TypeInv, NEW c \in Visitor, Reads(c) \/ EarlyRule(c) \/ \E a : SetActor(c, a)
    PROVE  Kept(c)
<1> DEFINE r == request[c]
<1>1. r # Rest /\ IsRequest(r) /\ DOMAIN r = RequestFields
  BY AtIs DEF Reads, GetNode, CheckVisible, ExpandAndMask, CountNodes, GetNodes, Search, ReadBack,
              EarlyRule, SetActor
<1>2. CASE GetNode(c)
  <2>1. KeepsWrite(r, [r EXCEPT !.pc = "visible", !.held = nodes[r.id]])
    BY <1>1 DEF KeepsWrite, RequestFields
  <2>2. \/ Answer(c, r, "notfound")
        \/ Goes(c, [r EXCEPT !.pc = "visible", !.held = nodes[r.id]])
    BY <1>2 DEF GetNode
  <2> QED BY <1>1, <2>1, <2>2, KeptGoes
<1>3. CASE CheckVisible(c)
  <2> DEFINE q == WithRule(c, r.action, r.held.type)
             next == [q EXCEPT !.pc = "expand", !.shown = {Shown(q.id, q.held)}]
  <2>1. r.op \in ReadOp /\ r.held.type \in Type
    BY <1>1, <1>3 DEF CheckVisible, At, IsRequest, IsCall, IsRow, ReadOp
  <2>2. SameCall(q, r) /\ DOMAIN q = RequestFields
    BY <1>1, <2>1, WithRuleKept
  <2>3. KeepsWrite(q, next)
    <3> HIDE DEF q
    <3> QED BY <2>2 DEF KeepsWrite, RequestFields
  <2>4. (\E status : Answer(c, q, status)) \/ Goes(c, next)
    BY <1>3, Zenon DEF CheckVisible
  <2> HIDE DEF q, next
  <2> QED BY <2>2, <2>3, <2>4, KeptGoes
<1>4. CASE ExpandAndMask(c)
  <2>1. \/ Answer(c, r, "notfound") \/ Answer(c, r, "internal")
        \/ \E shown : AnswerMasked(c, r, r.action, shown)
    BY <1>4, Zenon DEF ExpandAndMask
  <2> QED BY <1>1, <2>1, KeptGoes, MaskedKept
<1>5. CASE CountNodes(c)
  <2> DEFINE q == WithRule(c, r.action, r.type)
             next == [q EXCEPT !.pc = "rows"]
  <2>1. r.op \in ReadOp /\ r.type \in Type
    BY <1>1, <1>5 DEF CountNodes, Asks, IsRequest, ReadOp
  <2>2. SameCall(q, r) /\ DOMAIN q = RequestFields
    BY <1>1, <2>1, WithRuleKept
  <2>3. KeepsWrite(q, next)
    <3> HIDE DEF q
    <3> QED BY <2>2 DEF KeepsWrite, RequestFields
  <2>4. Answer(c, r, "notfound") \/ (\E status : Answer(c, q, status)) \/ Goes(c, next)
    BY <1>5, Zenon DEF CountNodes
  <2> HIDE DEF q, next
  <2> QED BY <1>1, <2>2, <2>3, <2>4, KeptGoes
<1>6. CASE GetNodes(c)
  <2>1. \/ \E shown : AnswerMasked(c, r, r.action, shown)
        \/ \E shown : Goes(c, [r EXCEPT !.pc = "expand", !.shown = shown])
    BY <1>6, Zenon DEF GetNodes
  <2>2. \A shown : KeepsWrite(r, [r EXCEPT !.pc = "expand", !.shown = shown])
    BY <1>1 DEF KeepsWrite, RequestFields
  <2> QED BY <1>1, <2>1, <2>2, KeptGoes, MaskedKept
<1>7. CASE Search(c)
  <2> DEFINE q == WithActor(c, r)
  <2>1. IsRequest(q) /\ SameCall(q, r) /\ DOMAIN q = RequestFields
    BY <1>1, WithActorIs DEF TypeInv, IsRequest
  <2>2. (\E status : Answer(c, q, status)) \/ \E shown : AnswerMasked(c, q, "search", shown)
    BY <1>7, Zenon DEF Search
  <2> HIDE DEF q
  <2> QED BY <2>1, <2>2, KeptGoes, MaskedKept
<1>8. CASE ReadBack(c)
  <2>1. Answer(c, r, "notfound") \/ \E shown : AnswerMasked(c, r, "view", shown)
    BY <1>8, Zenon DEF ReadBack
  <2> QED BY <1>1, <2>1, KeptGoes, MaskedKept
<1>9. CASE EarlyRule(c)
  <2> DEFINE q == WithRule(c, r.action, r.type)
  <2>1. r.op \in ReadOp /\ r.type \in Type /\ r.pc = "handler" /\ Goes(c, q)
    BY <1>1, <1>9 DEF EarlyRule, At, Asks, IsRequest, ReadOp
  <2>2. SameCall(q, r) /\ DOMAIN q = RequestFields
    BY <1>1, <2>1, WithRuleKept
  <2> HIDE DEF q
  <2>3. KeepsWrite(q, q)
    BY <2>1, <2>2 DEF KeepsWrite, SameCall
  <2> QED BY <2>1, <2>2, <2>3, KeptGoes
<1>10. ASSUME NEW a, SetActor(c, a) PROVE Kept(c)
  <2>1. r.pc = "handler" /\ Goes(c, [r EXCEPT !.actor = a, !.rules = << >>])
    BY <1>10 DEF SetActor, At
  <2>2. KeepsWrite(r, [r EXCEPT !.actor = a, !.rules = << >>])
    BY <1>1, <2>1 DEF KeepsWrite, RequestFields
  <2> QED BY <1>1, <2>1, <2>2, KeptGoes
<1> QED
  BY <1>2, <1>3, <1>4, <1>5, <1>6, <1>7, <1>8, <1>9, <1>10 DEF Reads

-----------------------------------------------------------------------------
\* The gate of a write.

\* The next state of a request has its rule's agreement.
WriteGoes(c) == \E q : Goes(c, q) /\ WriteOK(site, past[c], nodes, q)

\* A call other than the gate keeps what the rule of a write has agreed to.
LEMMA KeptWrites ==
    ASSUME NEW c, WriteOK(site, past[c], nodes, request[c]), Kept(c)
    PROVE  WriteGoes(c)
BY WriteNext DEF Kept, WriteGoes

\* The handlers of a write have been through the fields submitted, for the
\* actor a and the row stored.
RuleFired(hs, a, stored, submitted, fired) ==
    /\ Agreed(hs, a)
    /\ Owned(hs, a, stored)
    /\ stored = << >> => Unowned(hs, a)
    /\ fired.out.allow = AllowedBy(hs, a)
    /\ \A f : IF Setters(hs, a, f) # {}
             THEN f \in DOMAIN fired.out.fields /\ fired.out.fields[f] = SetTo(hs, a, f)
             ELSE /\ f \in DOMAIN fired.out.fields <=> f \in DOMAIN submitted
                  /\ f \in DOMAIN submitted => fired.out.fields[f] = submitted[f]

\* A write event that ends well: every handler has agreed with the actor and the row.
LEMMA FiredAgrees ==
    ASSUME TypeInv, NEW c \in Visitor, IsRequest(request[c]), ~ Impersonated(request[c]),
           NEW r, r = WithActor(c, request[c]), r.op \in WriteAction, NEW type \in Type,
           site[<<r.op, type>>] # << >>, NEW stored, Fired(r, type, stored).end = "ok"
    PROVE  RuleFired(site[<<r.op, type>>], r.actor, stored, r.submitted, Fired(r, type, stored))
<1> DEFINE hs == site[<<r.op, type>>]
           a == r.actor
           p == PrincipalOf(r)
           fired == FireWrite(hs, a.kind, p, stored, r.submitted)
<1>1. Fired(r, type, stored) = fired
  BY DEF Fired
<1>2. p \in {Nobody, a.id} /\ a \in Actor
  BY WithActorImpersonates, WithActorIs DEF TypeInv
<1>3. Len(hs) \in Nat /\ DOMAIN hs = 1 .. Len(hs) /\ hs # << >>
  <2>1. <<r.op, type>> \in Event
    BY DEF Event
  <2> QED BY <2>1 DEF TypeInv, IsSite
<1>4. fired.end = "ok"
  BY <1>1
<1>5. a.id \in NodeId \cup {Nobody}
  BY <1>2 DEF Actor
<1> HIDE DEF hs, a, p
<1>6. /\ \A i \in DOMAIN hs : /\ hs[i].end[a.kind] = "ok"
                              /\ a.kind \in hs[i].own => a.id # Nobody /\ Author(stored) = a.id
      /\ fired.out.allow = AllowedBy(hs, a)
      /\ FieldsAfter(hs, a, Len(hs), r.submitted, fired.out.fields)
  BY <1>2, <1>3, <1>4, WriteFired
<1> HIDE DEF fired
<1>7. \A f : IF Setters(hs, a, f) # {}
             THEN f \in DOMAIN fired.out.fields /\ fired.out.fields[f] = SetTo(hs, a, f)
             ELSE /\ f \in DOMAIN fired.out.fields <=> f \in DOMAIN r.submitted
                  /\ f \in DOMAIN r.submitted => fired.out.fields[f] = r.submitted[f]
  BY <1>3, <1>6, FiredSets
<1>8. Agreed(hs, a) /\ Owned(hs, a, stored)
  BY <1>3, <1>6 DEF Agreed, Owned
<1>9. stored = << >> => Unowned(hs, a)
  <2>1. stored = << >> => Author(stored) = Nil
    BY DEF Author
  <2> QED BY <1>5, <1>6, <2>1, RequestAssumption DEF Unowned
<1> QED
  BY <1>1, <1>6, <1>7, <1>8, <1>9 DEF hs, a, RuleFired

\* What the gate lets through has only fields that were allowed.
LEMMA GateAllows ==
    ASSUME NEW fired, NEW submitted, NEW decoded, WriteStatus(fired, submitted, decoded) = "ok"
    PROVE  fired.end = "ok" /\ (decoded => submitted \subseteq fired.out.allow)
BY DEF WriteStatus, RejectFields

\* A create that passes its gate goes to its commit with its rule's agreement.
LEMMA FireCreateWrites ==
    ASSUME TypeInv, NEW c \in Visitor, WriteOK(site, past[c], nodes, request[c]), FireCreate(c)
    PROVE  WriteGoes(c)
<1> DEFINE r == WithActor(c, request[c])
           fired == Fired(r, r.type, << >>)
           status == WriteStatus(fired, DOMAIN r.submitted, r.route)
           q == [r EXCEPT !.pc = "commit", !.fields = fired.out.fields]
           hs == site[<<"create", r.type>>]
<1>1. IsRequest(request[c]) /\ request[c].pc = "handler" /\ request[c].op = "create"
  BY AtIs DEF FireCreate, Asks
<1>2. IsRequest(r) /\ SameCall(r, request[c])
  BY <1>1, WithActorIs DEF TypeInv
<1>3. /\ r.pc = "handler" /\ r.op = "create" /\ r.op \in WriteAction /\ DOMAIN r = RequestFields
      /\ r.type \in Type
  BY <1>1, <1>2 DEF SameCall, WriteAction, IsRequest
<1>4. \/ \E s : Answer(c, r, s)
      \/ hs # << >> /\ status = "ok" /\ Goes(c, q)
  BY Zenon DEF FireCreate, Denied
<1>5. CASE \E s : Answer(c, r, s)
  <2> HIDE DEF r
  <2> QED BY <1>2, <1>3, <1>5, KeptGoes, KeptWrites
<1>6. CASE hs # << >> /\ status = "ok" /\ Goes(c, q)
  <2>1. fired.end = "ok" /\ (r.route => DOMAIN r.submitted \subseteq fired.out.allow)
    BY <1>6, GateAllows
  <2>2. /\ q.op = "create" /\ q.type = r.type /\ q.actor = r.actor /\ q.route = r.route
        /\ q.submitted = r.submitted /\ q.fields = fired.out.fields /\ q.principal = r.principal
        /\ q.pc = "commit"
    <3> HIDE DEF r, fired
    <3> QED BY <1>3, ToCommit DEF RequestFields
  <2> HIDE DEF q, status
  <2>3. Impersonated(q) <=> Impersonated(request[c])
    <3>1. Impersonated(r) <=> Impersonated(request[c])
      BY <1>1, WithActorImpersonates
    <3> QED BY <2>2, <3>1 DEF Impersonated
  <2>4. ASSUME ~ Impersonated(q) PROVE RuleAgrees(site, past[c], q)
    <3>1. RuleFired(hs, r.actor, << >>, r.submitted, fired)
      <4>1. r = WithActor(c, request[c]) /\ site[<<r.op, r.type>>] = hs
        BY <1>3
      <4> HIDE DEF r, hs
      <4> QED BY <1>1, <1>3, <1>6, <2>1, <2>3, <2>4, <4>1, FiredAgrees
    <3>2. FieldsFired(hs, q, r.type)
      <4> HIDE DEF r, fired, hs
      <4> QED BY <2>1, <2>2, <3>1 DEF FieldsFired, RuleFired
    <3>3. TypeWritten(q) = r.type /\ site[<<q.op, r.type>>] = hs
      BY <2>2 DEF TypeWritten
    <3> HIDE DEF hs, r
    <3> QED BY <2>2, <3>1, <3>2, <3>3 DEF RuleAgrees, RuleFired
  <2>5. WriteOK(site, past[c], nodes, q)
    BY <2>2, <2>4 DEF WriteOK
  <2> QED BY <1>6, <2>5 DEF WriteGoes
<1> QED
  BY <1>4, <1>5, <1>6

\* An update or a delete that passes its gate goes to its commit with its rule's
\* agreement about the row it has read.
LEMMA FireChangeWrites ==
    ASSUME TypeInv, NEW c \in Visitor, WriteOK(site, past[c], nodes, request[c]), FireChange(c)
    PROVE  WriteGoes(c)
<1> DEFINE r == WithActor(c, request[c])
           type == request[c].held.type
           stored == IF r.id \in Live(nodes) THEN nodes[r.id].fields ELSE << >>
           fired == Fired(r, type, stored)
           status == IF r.op = "delete"
                     THEN (IF fired.end = "ok" THEN "ok" ELSE "refused")
                     ELSE WriteStatus(fired, DOMAIN r.submitted, r.route)
           q == [r EXCEPT !.pc = "commit", !.fields = fired.out.fields]
           hs == site[<<r.op, type>>]
<1>1. /\ IsRequest(request[c]) /\ request[c].pc = "fire" /\ request[c].op \in {"update", "delete"}
      /\ nodes \in past[c] /\ type \in Type
  BY AtIs DEF FireChange, IsRequest, IsCall, IsRow
<1>2. IsRequest(r) /\ SameCall(r, request[c])
  BY <1>1, WithActorIs DEF TypeInv
<1>3. /\ r.pc = "fire" /\ r.op \in WriteAction /\ DOMAIN r = RequestFields
      /\ r.op = request[c].op /\ r.id = request[c].id /\ r.held = request[c].held
      /\ r.revision = request[c].revision
  BY <1>1, <1>2 DEF SameCall, WriteAction, IsRequest
<1>4. (\E s : Answer(c, r, s)) \/ (status = "ok" /\ Goes(c, q))
  <2>1. r.held.type = type
    BY <1>3
  <2> QED BY <2>1 DEF FireChange
<1>5. CASE \E s : Answer(c, r, s)
  <2> HIDE DEF r
  <2> QED BY <1>2, <1>3, <1>5, KeptGoes, KeptWrites
<1>6. CASE status = "ok" /\ Goes(c, q)
  <2>1. fired.end = "ok" /\ (r.op # "delete" /\ r.route => DOMAIN r.submitted \subseteq fired.out.allow)
    <3> HIDE DEF fired, r
    <3> QED BY <1>6, GateAllows
  <2>2. /\ q.op = r.op /\ q.type = r.type /\ q.actor = r.actor /\ q.route = r.route /\ q.id = r.id
        /\ q.submitted = r.submitted /\ q.fields = fired.out.fields /\ q.principal = r.principal
        /\ q.pc = "commit" /\ q.held = r.held /\ q.revision = r.revision
    <3> HIDE DEF r, fired
    <3> QED BY <1>3 DEF RequestFields
  <2> HIDE DEF q, status
  <2>3. Impersonated(q) <=> Impersonated(request[c])
    <3>1. Impersonated(r) <=> Impersonated(request[c])
      BY <1>1, WithActorImpersonates
    <3> QED BY <2>2, <3>1 DEF Impersonated
  <2>4. hs # << >>
    BY <1>1, <1>3 DEF WriteOK
  <2>5. ASSUME ~ Impersonated(q) PROVE RuleAgrees(site, past[c], q)
    <3>1. RuleFired(hs, r.actor, stored, r.submitted, fired)
      <4>1. r = WithActor(c, request[c])
        OBVIOUS
      <4> HIDE DEF r, stored, type
      <4> QED BY <1>1, <1>3, <2>1, <2>3, <2>4, <2>5, <4>1, FiredAgrees
    <3>2. r.op # "delete" => FieldsFired(hs, q, type)
      <4> HIDE DEF r, fired, hs, type
      <4> QED BY <2>1, <2>2, <3>1 DEF FieldsFired, RuleFired
    <3>3. TypeWritten(q) = type /\ site[<<q.op, type>>] = hs
      <4>1. q.op # "create"
        BY <1>1, <1>3, <2>2
      <4> QED BY <1>3, <2>2, <4>1 DEF TypeWritten
    <3>4. Unowned(hs, r.actor) \/ AgreedAbout(hs, past[c], nodes, r)
      <4>1. (\A M \in past[c] : M[r.id] # NoNode) => r.held.revision <= nodes[r.id].revision
        <5> HIDE DEF r, hs
        <5> QED BY <1>1, <1>3 DEF WriteOK, HistoryKept
      <4> HIDE DEF hs, r
      <4> QED BY <1>1, <3>1, <4>1 DEF RuleFired, AgreedAbout
    <3>5. r.op # "create"
      BY <1>1, <1>3
    <3>6. \A N : AgreedAbout(hs, past[c], N, q) <=> AgreedAbout(hs, past[c], N, r)
      <4> HIDE DEF hs, r
      <4> QED BY <2>2 DEF AgreedAbout
    <3> HIDE DEF hs, r, type
    <3> QED BY <1>1, <2>2, <3>1, <3>2, <3>3, <3>4, <3>5, <3>6 DEF RuleAgrees, RuleFired
  <2>6. WriteOK(site, past[c], nodes, q)
    <3> HIDE DEF r
    <3>1. /\ q.op = request[c].op /\ q.id = request[c].id /\ q.revision = request[c].revision
          /\ q.held = request[c].held /\ q.pc = "commit"
      BY <1>3, <2>2
    <3> QED BY <1>1, <2>5, <3>1 DEF WriteOK, HistoryKept
  <2> QED BY <1>6, <2>6 DEF WriteGoes
<1> QED
  BY <1>4, <1>5, <1>6

\* The node that is looked up has the type whose rule the gate has found.
LEMMA FindWrites ==
    ASSUME TypeInv, NEW c \in Visitor, WriteOK(site, past[c], nodes, request[c]),
           FindByPath(c) \/ FindById(c)
    PROVE  WriteGoes(c)
<1> DEFINE r == request[c]
           x == WithActor(c, r)
           q == [r EXCEPT !.pc = "fire", !.held = nodes[r.id]]
<1>1. /\ IsRequest(r) /\ DOMAIN r = RequestFields /\ r.pc = "handler" /\ nodes \in past[c]
      /\ r.op \in {"update", "delete"}
  BY AtIs DEF FindByPath, FindById, Asks
<1>2. \/ \E s : Answer(c, x, s)
      \/ Answer(c, r, "notfound")
      \/ r.id \in Live(nodes) /\ site[<<r.op, nodes[r.id].type>>] # << >> /\ Goes(c, q)
  BY DEF FindByPath, FindById, Denied
<1>3. IsRequest(x) /\ SameCall(x, r) /\ DOMAIN x = RequestFields
  BY <1>1, WithActorIs DEF TypeInv, IsRequest
<1>4. CASE (\E s : Answer(c, x, s)) \/ Answer(c, r, "notfound")
  <2> HIDE DEF x
  <2> QED BY <1>1, <1>3, <1>4, KeptGoes, KeptWrites
<1>5. CASE r.id \in Live(nodes) /\ site[<<r.op, nodes[r.id].type>>] # << >> /\ Goes(c, q)
  <2>1. /\ q.op = r.op /\ q.id = r.id /\ q.revision = r.revision /\ q.held = nodes[r.id] /\ q.pc = "fire"
    BY <1>1 DEF RequestFields
  <2> HIDE DEF q
  <2>2. WriteOK(site, past[c], nodes, q)
    BY <1>1, <1>5, <2>1 DEF WriteOK, HistoryKept
  <2> QED BY <1>5, <2>2 DEF WriteGoes
<1> QED
  BY <1>2, <1>4, <1>5

-----------------------------------------------------------------------------
\* The invariant of the writes.

\* A step of one request keeps the invariant of the writes.
LEMMA WriteGoesNext ==
    ASSUME TypeInv, WriteInv, NEW c \in Visitor, WriteGoes(c)
    PROVE  WriteInv'
<1>1. PICK q : Goes(c, q) /\ WriteOK(site, past[c], nodes, q)
  BY DEF WriteGoes
<1>2. /\ \A d \in Visitor : request'[d] = IF d = c THEN q ELSE request[d]
      /\ UNCHANGED <<site, past, nodes>>
  BY <1>1 DEF Goes, TypeInv
<1> QED
  BY <1>1, <1>2 DEF WriteInv

\* What one writer writes keeps the invariant for the requests of the others.
LEMMA WriteStoresNext ==
    ASSUME NoneAreRecords, TypeInv, WriteInv, [Next]_vars, NEW N, Stores(N), UNCHANGED site,
           \A d \in Visitor : request'[d] # Rest =>
             /\ request[d] # Rest
             /\ request'[d] = request[d] \/ WriteOK(site, past[d], nodes, request'[d])
    PROVE  WriteInv'
<1>1. /\ nodes' = N
      /\ \A d \in Visitor : past'[d] = IF request[d] = Rest THEN {} ELSE past[d] \cup {N}
  BY DEF Stores
<1>2. IsTable(nodes')
  BY TypesNext DEF TypeInv
<1>3. ASSUME NEW d \in Visitor, request'[d] # Rest
      PROVE  WriteOK(site, past'[d], nodes', request'[d])
  <2>1. WriteOK(site, past[d], nodes, request'[d])
    BY <1>3 DEF WriteInv
  <2>2. nodes \in past[d] /\ \A M \in past[d] : IsTable(M)
    BY <1>3 DEF TypeInv
  <2>3. request'[d].op \in {"update", "delete"} => RowStep(nodes[request'[d].id], nodes'[request'[d].id])
    BY <2>1, RowSteps DEF WriteOK
  <2> DEFINE r == request'[d]
             P == past[d]
  <2> HIDE DEF r
  <2>4. WriteOK(site, P \cup {nodes'}, nodes', r)
    BY <1>2, <2>1, <2>2, <2>3, WriteStays DEF r
  <2> QED BY <1>1, <1>3, <2>4 DEF r
<1> QED
  BY <1>3 DEF WriteInv

\* A request that begins or ends keeps the invariant of the writes.
LEMMA WriteBegins ==
    ASSUME TypeInv, WriteInv, NEW c \in Visitor, Begins(c) \/ EndRequest(c)
    PROVE  WriteInv'
<1>1. CASE EndRequest(c)
  <2>1. /\ \A d \in Visitor : request'[d] = IF d = c THEN Rest ELSE request[d]
        /\ \A d \in Visitor : d # c => past'[d] = past[d]
        /\ UNCHANGED <<site, nodes>>
    BY <1>1 DEF EndRequest, TypeInv
  <2> QED BY <2>1 DEF WriteInv
<1>2. CASE Begins(c)
  <2>1. PICK op, action, route, type, id, submitted, revision :
          /\ op \in {"update", "delete"} => id \in NodeId /\ revision \in Nat
          /\ Begin(c, op, action, route, type, id, submitted, revision)
    BY <1>2, Zenon DEF Begins
  <2> DEFINE q == NewRequest(op, action, route, type, id, submitted, revision)
  <2>2. /\ \A d \in Visitor : request'[d] = IF d = c THEN q ELSE request[d]
        /\ \A d \in Visitor : past'[d] = IF d = c THEN {nodes} ELSE past[d]
        /\ UNCHANGED <<site, nodes>>
    BY <2>1 DEF Begin, TypeInv
  <2>3. q.op = op /\ q.id = id /\ q.revision = revision /\ q.pc = "handler"
    BY DEF NewRequest
  <2> HIDE DEF q
  <2>4. WriteOK(site, {nodes}, nodes, q)
    <3>1. ASSUME q.op \in {"update", "delete"}
          PROVE  q.id \in NodeId /\ q.revision \in Nat /\ HistoryKept({nodes}, nodes, q)
      <4>1. q.id \in NodeId /\ q.revision \in Nat
        BY <2>1, <2>3, <3>1
      <4>2. q.id \in Live(nodes) => nodes[q.id].revision \in Nat
        BY RequestAssumption DEF TypeInv, IsTable, IsRow
      <4>3. HistoryKept({nodes}, nodes, q)
        BY <4>1, <4>2 DEF HistoryKept, Live
      <4> QED BY <4>1, <4>3
    <3> QED BY <2>3, <3>1 DEF WriteOK
  <2> QED BY <2>2, <2>4 DEF WriteInv
<1> QED
  BY <1>1, <1>2

\* What a commit leaves of its request is past the gate.
LEMMA CommitKept ==
    ASSUME TypeInv, NEW c \in Visitor, IsRequest(request[c]), WriteOK(site, past[c], nodes, request[c]),
           NEW q, CommitLeaves(c, q)
    PROVE  WriteOK(site, past[c], nodes, q)
<1>0. DOMAIN request[c] = RequestFields
  BY DEF IsRequest
<1>1. CASE q = Answered(request[c], "ok", {})
  BY <1>0, <1>1, AnswerKeeps, WriteNext
<1>2. CASE q # Answered(request[c], "ok", {}) /\ request[c].op # "create"
  BY <1>2, WriteNext DEF CommitLeaves, KeepsWrite
<1>3. CASE q # Answered(request[c], "ok", {}) /\ request[c].op = "create"
  BY <1>3 DEF CommitLeaves, WriteOK
<1> QED
  BY <1>1, <1>2, <1>3

\* Every step keeps the invariant of the writes.
LEMMA WritesNext ==
    ASSUME NoneAreRecords, TypeInv, WriteInv, [Next]_vars
    PROVE  WriteInv'
<1>1. ASSUME UNCHANGED siteVars PROVE WriteInv'
  BY <1>1 DEF siteVars, WriteInv
<1>2. ASSUME NEW c \in Visitor,
             Reads(c) \/ Fires(c) \/ EarlyRule(c) \/ (\E a \in OtherActor : SetActor(c, a))
      PROVE  WriteGoes(c)
  <2>1. request[c] # Rest
    BY <1>2, AtIs DEF Reads, Fires, EarlyRule, GetNode, CheckVisible, ExpandAndMask, CountNodes, GetNodes,
                 Search, ReadBack, FindByPath, FindById, FireCreate, FireChange, SetActor
  <2>2. WriteOK(site, past[c], nodes, request[c])
    BY <2>1 DEF WriteInv
  <2>3. ASSUME Kept(c) PROVE WriteGoes(c)
    BY <2>2, <2>3, KeptWrites
  <2> QED BY <1>2, <2>2, <2>3, ReadsKept, FindWrites, FireCreateWrites, FireChangeWrites DEF Fires
<1>3. ASSUME NEW c \in Visitor, Commits(c) PROVE WriteInv'
  <2>1. request[c] # Rest /\ IsRequest(request[c]) /\ DOMAIN request[c] = RequestFields
    BY <1>3, AtIs DEF Commits, CommitCreate, CommitUpdate, CommitDelete
  <2>2. WriteOK(site, past[c], nodes, request[c])
    BY <2>1 DEF WriteInv
  <2>3. ASSUME NEW status, Answer(c, request[c], status) PROVE WriteInv'
    BY <2>1, <2>2, <2>3, KeptGoes, KeptWrites, WriteGoesNext
  <2>4. ASSUME NEW q, Goes(c, q), CommitLeaves(c, q) PROVE WriteInv'
    BY <2>1, <2>2, <2>4, CommitKept, WriteGoesNext DEF WriteGoes
  <2>5. ASSUME NEW N, NEW q, Wrote(c, N, q), CommitLeaves(c, q) PROVE WriteInv'
    <3>1. WriteOK(site, past[c], nodes, q)
      BY <2>1, <2>2, <2>5, CommitKept
    <3>2. /\ Stores(N) /\ UNCHANGED site
          /\ \A d \in Visitor : request'[d] = IF d = c THEN q ELSE request[d]
      BY <2>5 DEF Wrote, TypeInv
    <3> QED BY <2>1, <3>1, <3>2, WriteStoresNext
  <2> QED BY <1>3, <2>3, <2>4, <2>5, CommitKinds
<1>4. ASSUME Edits PROVE WriteInv'
  <2>1. \E N : Stores(N) /\ UNCHANGED <<site, request>>
    BY <1>4, Zenon DEF Edits, EditorCreate, EditorPatch, EditorDelete, EditorWrote
  <2> QED BY <2>1, WriteStoresNext
<1>5. CASE UNCHANGED vars
  BY <1>1, <1>5 DEF vars
<1>6. CASE AccountStep
  BY <1>1, <1>6 DEF AccountStep
<1>7. CASE Next /\ ~ AccountStep
  BY <1>2, <1>3, <1>4, <1>7, WriteBegins, WriteGoesNext, StepKinds
<1> QED
  BY <1>5, <1>6, <1>7

-----------------------------------------------------------------------------
\* The fields of a row that a request has written, by what its rule has made
\* of those that were submitted.
LEMMA FiredObey ==
    ASSUME NEW hs, NEW r, NEW type, FieldsFired(hs, r, type), NEW q, q.held.type = type,
           q.actor = r.actor, q.submitted = r.submitted, q.route = r.route,
           NEW old, NEW new,
           \A f \in FieldNames(type) :
             ValueOf(new, f) = IF f \in DOMAIN r.fields THEN r.fields[f] ELSE ValueOf(old, f)
    PROVE  FieldsObey(hs, q, old, new)
BY DEF FieldsObey, FieldsFired, AllowedBy

\* A field of a patched row: what the patch says, or what it was.
LEMMA MergedValue ==
    ASSUME NEW old, NEW patch, NEW f
    PROVE  ValueOf(Merged(old, patch), f) = IF f \in DOMAIN patch THEN patch[f] ELSE ValueOf(old, f)
<1> DEFINE new == Merged(old, patch)
<1>1. \A g : g \in DOMAIN new <=> g \in DOMAIN old \cup DOMAIN patch /\ ~ (g \in DOMAIN patch /\ patch[g] = Nil)
  BY DEF Merged
<1>2. \A g \in DOMAIN new : new[g] = IF g \in DOMAIN patch THEN patch[g] ELSE old[g]
  BY DEF Merged
<1> HIDE DEF new
<1>3. ValueOf(new, f) = IF f \in DOMAIN patch THEN patch[f] ELSE ValueOf(old, f)
  BY <1>1, <1>2 DEF ValueOf
<1> QED
  BY <1>3 DEF new

\* A field of a created row: what was given, or the default of the type.
LEMMA DefaultedValue ==
    ASSUME NEW type, NEW fields, NEW f \in FieldNames(type)
    PROVE  ValueOf(ApplyDefaults(type, fields), f) =
             IF f \in DOMAIN fields THEN fields[f] ELSE ValueOf(ApplyDefaults(type, << >>), f)
<1>1. ASSUME NEW given
      PROVE  ValueOf(ApplyDefaults(type, given), f) =
               IF f \in DOMAIN given THEN given[f] ELSE FieldDef[type][f].default
  <2> DEFINE new == ApplyDefaults(type, given)
             missing == {n \in FieldNames(type) \ DOMAIN given : FieldDef[type][n].default # Nil}
  <2>1. DOMAIN new = DOMAIN given \cup missing
    BY DEF ApplyDefaults
  <2>2. \A n \in DOMAIN new : new[n] = IF n \in missing THEN FieldDef[type][n].default ELSE given[n]
    BY DEF ApplyDefaults
  <2> HIDE DEF new
  <2>3. ValueOf(new, f) = IF f \in DOMAIN given THEN given[f] ELSE FieldDef[type][f].default
    BY <2>1, <2>2 DEF ValueOf
  <2> QED BY <2>3 DEF new
<1>2. DOMAIN << >> = {}
  OBVIOUS
<1>3. f \notin DOMAIN << >>
  BY <1>2
<1>4. ValueOf(ApplyDefaults(type, << >>), f) = FieldDef[type][f].default
  BY <1>1, <1>3
<1> QED
  BY <1>1, <1>4

-----------------------------------------------------------------------------
\* A commit does what its rule has agreed to.

\* Only a commit changes both the table and a request.
LEMMA OnlyCommits ==
    ASSUME TypeInv, Next, NEW c \in Visitor, ~ UNCHANGED nodes, request'[c] # request[c]
    PROVE  Commits(c)
<1>1. ASSUME NEW d, NEW q, Goes(d, q) PROVE UNCHANGED nodes
  BY <1>1 DEF Goes
<1>2. ASSUME NEW d \in Visitor, Begins(d) \/ EndRequest(d) PROVE UNCHANGED nodes
  BY <1>2 DEF Begins, Begin, EndRequest
<1>3. ASSUME NEW d \in Visitor, Reads(d) \/ EarlyRule(d) \/ \E a : SetActor(d, a) PROVE UNCHANGED nodes
  BY <1>1, <1>3, ReadsKept DEF Kept
<1>4. ASSUME NEW d \in Visitor, Fires(d) PROVE UNCHANGED nodes
  BY <1>1, <1>4 DEF Fires, FindByPath, FindById, FireCreate, FireChange, Denied, Answer
<1>5. ASSUME NEW d \in Visitor, Commits(d) PROVE UNCHANGED nodes \/ d = c
  <2>1. ASSUME NEW N, NEW q, Wrote(d, N, q) PROVE d = c
    BY <2>1 DEF Wrote, TypeInv
  <2> QED BY <1>1, <1>5, <2>1 DEF Commits, CommitCreate, CommitUpdate, CommitDelete, Answer
<1>6. ASSUME Edits PROVE UNCHANGED request
  BY <1>6, Zenon DEF Edits, EditorCreate, EditorPatch, EditorDelete, EditorWrote
<1>7. ASSUME AccountStep PROVE UNCHANGED nodes
  BY <1>7 DEF AccountStep, siteVars
<1> QED
  BY <1>2, <1>3, <1>4, <1>5, <1>6, <1>7, StepKinds

\* A created row is one the rule of its type has agreed to, in the form it is stored in.
LEMMA CreateObeys ==
    ASSUME TypeInv, WriteInv, NEW c \in Visitor, NEW n \in NodeId, ~ Impersonated(request[c]),
           CommitCreate(c), nodes'[n] # nodes[n]
    PROVE  RuleObeyed(c, n)
<1> DEFINE r == request[c]
           hs == site[<<"create", r.type>>]
           new == ApplyDefaults(r.type, r.fields)
           row == [type |-> r.type, fields |-> new, revision |-> 1]
           q == [r EXCEPT !.held = nodes'[n]]
<1>1. r # Rest /\ IsRequest(r) /\ r.pc = "commit" /\ r.op = "create" /\ DOMAIN r = RequestFields
  BY AtIs DEF CommitCreate, Asks
<1>2. RuleAgrees(site, past[c], r) /\ TypeWritten(r) = r.type
  BY <1>1 DEF WriteInv, WriteOK, TypeWritten
<1>3. nodes[n] = NoNode /\ nodes'[n] = row
  <2>1. PICK id \in NextIds(nodes) : nodes' = WithCreated(id, r.type, r.fields)
    BY DEF CommitCreate, Answer, Goes, Wrote, Stores
  <2>2. id \in NodeId /\ nodes[id] = NoNode
    BY DEF NextIds, Live, NodeId
  <2> HIDE DEF r
  <2> QED BY <2>1, <2>2 DEF WithCreated, TypeInv, IsTable
<1>4. /\ Agreed(hs, r.actor) /\ Unowned(hs, r.actor) /\ FieldsFired(hs, r, r.type)
  BY <1>1, <1>2 DEF RuleAgrees
<1>5. Entitled(hs, r.actor, nodes'[n])
  BY <1>4 DEF Agreed, Unowned, Entitled
<1>6. /\ q.held = nodes'[n] /\ q.actor = r.actor /\ q.submitted = r.submitted /\ q.route = r.route
  BY <1>1 DEF RequestFields
<1>7. row.type = r.type /\ row.fields = new
  OBVIOUS
<1> HIDE DEF q, row
<1>8. FieldsObey(hs, q, ApplyDefaults(r.type, << >>), new)
  <2>1. \A f \in FieldNames(r.type) :
          ValueOf(new, f) = IF f \in DOMAIN r.fields THEN r.fields[f]
                            ELSE ValueOf(ApplyDefaults(r.type, << >>), f)
    BY DefaultedValue
  <2> HIDE DEF new, hs, r
  <2> QED BY <1>3, <1>4, <1>6, <1>7, <2>1, FiredObey
<1> QED
  BY <1>1, <1>3, <1>5, <1>7, <1>8 DEF RuleObeyed, q

\* The rule of an update or a delete has agreed about some row of the request's past; when
\* the id was there all the time, about one of the same type that is no older than the row
\* held, and the row is the same as long as the revision is.
LEMMA ChangeAgreed ==
    ASSUME TypeInv, NEW c \in Visitor, NEW r, r = request[c], r # Rest, r.pc = "commit",
           r.op \in {"update", "delete"}, ~ Impersonated(r), WriteOK(site, past[c], nodes, r),
           NEW n, n = r.id, NEW hs, hs = site[<<r.op, r.held.type>>]
    PROVE  /\ WasEntitled(c, hs, n)
           /\ ~ Replaced(c, n) => nodes[n].type = r.held.type
           /\ ~ Replaced(c, n) /\ nodes[n].revision <= r.held.revision => Entitled(hs, r.actor, nodes[n])
<1>1. RuleAgrees(site, past[c], r) /\ TypeWritten(r) = r.held.type
  BY DEF WriteOK, TypeWritten
<1>2. /\ Agreed(hs, r.actor)
      /\ Unowned(hs, r.actor) \/ \E N \in past[c] : AgreedAbout(hs, past[c], N, r)
  BY <1>1 DEF RuleAgrees
<1>3. PICK M \in past[c] : n \in Live(M) /\ M[n] = r.held
  BY DEF WriteOK
<1>4. \A row : Unowned(hs, r.actor) \/ Owned(hs, r.actor, row.fields) => Entitled(hs, r.actor, row)
  BY <1>2 DEF Agreed, Unowned, Owned, Entitled
<1>5. WasEntitled(c, hs, n)
  <2>1. \E N \in past[c] : n \in Live(N) /\ (Unowned(hs, r.actor) \/ Owned(hs, r.actor, N[n].fields))
    BY <1>2, <1>3 DEF AgreedAbout
  <2> QED BY <1>4, <2>1 DEF WasEntitled
<1>6. CASE Replaced(c, n)
  BY <1>5, <1>6
<1>7. CASE ~ Replaced(c, n)
  <2>1. \A N \in past[c] : N[n] # NoNode
    BY <1>7 DEF Replaced
  <2>2. \A N \in past[c] : /\ N[n].type = nodes[n].type /\ N[n].revision <= nodes[n].revision
                           /\ N[n].revision = nodes[n].revision => N[n] = nodes[n]
    BY <2>1 DEF WriteOK, HistoryKept
  <2>3. \A N \in past[c] : N[n].revision \in Nat /\ nodes[n].revision \in Nat
    <3>1. IsTable(nodes) /\ nodes \in past[c] /\ \A N \in past[c] : IsTable(N)
      BY DEF TypeInv
    <3>2. n \in NodeId
      BY DEF WriteOK
    <3> QED BY <2>1, <3>1, <3>2, RequestAssumption DEF IsTable, IsRow, Live
  <2>4. ASSUME nodes[n].revision <= r.held.revision, NEW N \in past[c], AgreedAbout(hs, past[c], N, r)
        PROVE  N[n] = nodes[n]
    <3>1. r.held.revision <= N[n].revision /\ r.held.revision \in Nat
      BY <1>3, <2>1, <2>3, <2>4 DEF AgreedAbout
    <3> QED BY <2>2, <2>3, <2>4, <3>1
  <2>5. ASSUME nodes[n].revision <= r.held.revision
        PROVE  Entitled(hs, r.actor, nodes[n])
    <3>1. Unowned(hs, r.actor) \/ Owned(hs, r.actor, nodes[n].fields)
      BY <1>2, <2>4, <2>5 DEF AgreedAbout
    <3> QED BY <1>4, <3>1
  <2>6. nodes[n].type = r.held.type
    BY <1>3, <2>2
  <2> QED BY <1>5, <2>5, <2>6
<1> QED
  BY <1>6, <1>7

\* An update does what its rule has agreed to; a revision that the row had reached when it
\* was looked up ties the row the rule has seen to the row that is written.
LEMMA UpdateObeys ==
    ASSUME NoneAreRecords, TypeInv, WriteInv, NEW c \in Visitor, NEW n \in NodeId,
           ~ Impersonated(request[c]), CommitUpdate(c), nodes'[n] # nodes[n]
    PROVE  RuleObeyed(c, n)
<1> DEFINE r == request[c]
           hs == site[<<"update", r.held.type>>]
<1>1. r # Rest /\ r.pc = "commit" /\ r.op = "update"
  BY AtIs DEF CommitUpdate, Asks
<1>2. /\ r.id \in Live(nodes) /\ nodes[r.id].revision = r.revision
      /\ nodes' = WithPatched(r.id, r.fields)
  BY DEF CommitUpdate, Answer, Goes, Wrote, Stores
<1>3. n = r.id /\ nodes'[n].fields = Merged(nodes[n].fields, r.fields)
  <2>1. /\ \A m \in NodeId \ {r.id} : nodes'[m] = nodes[m]
        /\ nodes'[r.id].fields = Merged(nodes[r.id].fields, r.fields)
    BY <1>2, PatchedRow DEF TypeInv
  <2> QED BY <2>1
<1>4. WriteOK(site, past[c], nodes, r)
  BY <1>1 DEF WriteInv
<1>5. /\ WasEntitled(c, hs, n)
      /\ ~ Replaced(c, n) => nodes[n].type = r.held.type
      /\ ~ Replaced(c, n) /\ nodes[n].revision <= r.held.revision => Entitled(hs, r.actor, nodes[n])
  <2>1. hs = site[<<r.op, r.held.type>>]
    BY <1>1
  <2> HIDE DEF hs
  <2> QED BY <1>1, <1>3, <1>4, <2>1, ChangeAgreed
<1>6. Reached(r) => nodes[n].revision <= r.held.revision
  BY <1>2, <1>3 DEF Reached
<1>7. FieldsFired(hs, r, r.held.type)
  BY <1>1, <1>4 DEF WriteOK, RuleAgrees, TypeWritten
<1>8. FieldsObey(hs, r, nodes[n].fields, nodes'[n].fields)
  BY <1>3, <1>7, MergedValue, FiredObey
<1> QED
  BY <1>1, <1>5, <1>6, <1>8 DEF RuleObeyed

\* A deleted row is one the delete rule has agreed to, as the request has read it.
LEMMA DeleteObeys ==
    ASSUME TypeInv, WriteInv, NEW c \in Visitor, NEW n \in NodeId,
           ~ Impersonated(request[c]), CommitDelete(c), nodes'[n] # nodes[n]
    PROVE  RuleObeyed(c, n)
<1> DEFINE r == request[c]
           hs == site[<<"delete", r.held.type>>]
<1>1. r # Rest /\ r.pc = "commit" /\ r.op = "delete"
  BY AtIs DEF CommitDelete, Asks
<1>2. n = r.id
  <2>1. nodes' = [nodes EXCEPT ![r.id] = NoNode]
    BY DEF CommitDelete, Answer, Goes, Wrote, Stores
  <2> QED BY <2>1 DEF TypeInv, IsTable
<1>3. WriteOK(site, past[c], nodes, r)
  BY <1>1 DEF WriteInv
<1>4. WasEntitled(c, hs, n) /\ (~ Replaced(c, n) => nodes[n].type = r.held.type)
  <2>1. hs = site[<<r.op, r.held.type>>]
    BY <1>1
  <2> HIDE DEF hs
  <2> QED BY <1>1, <1>2, <1>3, <2>1, ChangeAgreed
<1> QED
  BY <1>1, <1>4 DEF RuleObeyed

\* Unless SetActor has exchanged its actor, a request changes a node only if every
\* handler of the rule agrees: about the row it creates, or about some row of the node
\* during the request when it is patched or deleted; and about the row as it is when it is
\* patched, provided that the patch carries a revision the row had reached when the request
\* looked it up. Only the fields that were submitted and allowed, or that the rule sets, are
\* different afterwards. The gate and the commit are two calls, with any number of writes by
\* others in between. Left out of the last promise are a client that makes up a revision the
\* node has yet to reach, and an id that was free meanwhile and is another node's.
THEOREM WritesAreAllowed == NoneAreRecords => (Spec => WritesObeyRules)
<1> SUFFICES ASSUME NoneAreRecords PROVE Spec => WritesObeyRules
  OBVIOUS
<1> DEFINE Inv == TypeInv /\ WriteInv
           Obeys == \A c \in Visitor, n \in NodeId :
                      At(c, "commit") /\ request'[c] # request[c] /\ nodes'[n] # nodes[n]
                        /\ ~ Impersonated(request[c]) => RuleObeyed(c, n)
<1>1. Init => Inv
  <2> SUFFICES ASSUME Init PROVE WriteInv
    BY TypesInitially
  <2> QED BY DEF Init, WriteInv
<1>2. Inv /\ [Next]_vars => Inv'
  BY TypesNext, WritesNext
<1>3. Inv /\ [Next]_vars => [Obeys]_vars
  <2> SUFFICES ASSUME Inv, Next PROVE Obeys
    OBVIOUS
  <2> SUFFICES ASSUME NEW c \in Visitor, NEW n \in NodeId, request'[c] # request[c],
                      nodes'[n] # nodes[n], ~ Impersonated(request[c])
               PROVE  RuleObeyed(c, n)
    OBVIOUS
  <2>1. Commits(c)
    BY OnlyCommits
  <2> QED BY <2>1, CreateObeys, UpdateObeys, DeleteObeys DEF Commits
<1> QED
  BY <1>1, <1>2, <1>3, PTL DEF Spec, WritesObeyRules
=============================================================================
