----------------------------- MODULE ReadPolicy -----------------------------
(***************************************************************************)
(* The rules of a site (web/policy.go) and the field mask (web/mask.go).   *)
(* A rule is a sequence of handlers on the event of an action and a type;  *)
(* what a handler does depends on who asks.                                *)
(*                                                                         *)
(* A handler of a read event has narrow, the set of conditions of which    *)
(* its filter accepts any one ({} leaves the filter alone), and hide, the  *)
(* fields it takes out of answers.  A handler of a write event has own     *)
(* (the kinds it asks whether the node is theirs), allow and set, values    *)
(* it writes into the fields.  Both have end, how they return; narrow,     *)
(* hide, allow, set and end are functions of the kind of actor.            *)
(***************************************************************************)
EXTENDS FieldValues

CONSTANTS
    Publication,  \* the types that declare the publication capability
    Nobody        \* no principal: the actor is not backed by a node

ActorKind == {"anonymous", "node", "api_key", "admin"}
SystemReadAction == {"list", "view", "search", "export"}

Author(fields) == IF "author" \in DOMAIN fields THEN fields.author ELSE Nil

\* What a filter asks of a row.
Condition == {"anything", "nothing", "published", "mine"}

\* The principal must be a known node where a handler asks for it.
NeedsPrincipal(h, kind) == "mine" \in h.narrow[kind]

\* The call of a read handler for an actor (who.kind) with a principal.
CallRead(who, args, h) ==
    LET narrow == h.narrow[who.kind]
    IN  IF h.end[who.kind] = "refuse" \/ (NeedsPrincipal(h, who.kind) /\ who.principal = Nobody)
        THEN [out |-> args, end |-> "refuse"]
        ELSE [out |-> [scope |-> args.scope \cup
                          (IF narrow = {} THEN {}
                           ELSE {{<<cond, who.principal>> : cond \in narrow}}),
                       hide |-> args.hide \cup h.hide[who.kind]],
              end |-> h.end[who.kind]]

ReadBus == INSTANCE HookBus WITH Call <- CallRead

\* defaultScope: published records, and nothing of a type without states.
DefaultScope(type) ==
    {{<<IF type \in Publication THEN "published" ELSE "nothing", Nobody>>}}

NoRule(status) == [status |-> status, scope |-> {}, hide |-> {}]

(***************************************************************************)
(* resolveReadRule: a filter that no handler has narrowed, and a hidden    *)
(* field that is not declared, are errors and not an open door.            *)
(***************************************************************************)
ResolveReadRule(handlers, action, type, kind, principal) ==
    LET fired == ReadBus!Fire(handlers, [kind |-> kind, principal |-> principal],
                              [scope |-> {}, hide |-> {}])
    IN  CASE handlers = <<>> /\ action \in SystemReadAction ->
               [NoRule("ok") EXCEPT !.scope = DefaultScope(type)]
          [] handlers = <<>> /\ action \notin SystemReadAction -> NoRule("internal")
          [] handlers # <<>> /\ fired.end # "ok" -> NoRule("refused")
          [] handlers # <<>> /\ fired.end = "ok" /\ fired.out.scope = {} -> NoRule("internal")
          [] handlers # <<>> /\ fired.end = "ok" /\ fired.out.scope # {} ->
               IF fired.out.hide \subseteq FieldNames(type)
               THEN [status |-> "ok", scope |-> fired.out.scope, hide |-> fired.out.hide]
               ELSE NoRule("internal")

\* A row meets one condition of a filter.
Meets(row, cond) ==
    CASE cond[1] = "anything" -> TRUE
      [] cond[1] = "nothing" -> FALSE
      [] cond[1] = "published" -> /\ "state" \in DOMAIN row.fields
                                  /\ row.fields.state = "published"
      [] cond[1] = "mine" -> Author(row.fields) = cond[2]

\* The filters of all handlers are joined by And.
InScope(row, scope) == \A clause \in scope : \E cond \in clause : Meets(row, cond)

-----------------------------------------------------------------------------
(***************************************************************************)
(* A node on its way out has id, type, fields and expand, the nodes its    *)
(* references have been expanded to.  rules[type] is the read rule of the  *)
(* action.                                                                 *)
(***************************************************************************)
Without(fields, hide) == Restrict(fields, DOMAIN fields \ hide)

\* maskExpand: a target whose type has no usable rule is not sent at all.
MaskExpand(rules, expand) ==
    LET sent == {f \in DOMAIN expand : rules[expand[f].type].status = "ok"}
    IN  [f \in sent |-> [expand[f] EXCEPT
                            !.fields = Without(@, rules[expand[f].type].hide)]]

MaskNode(rules, node) ==
    [node EXCEPT !.fields = Without(@, rules[node.type].hide),
                 !.expand = MaskExpand(rules, @)]

\* MaskNodes fails as a whole when the rule of one node's type fails.
MaskStatus(rules, nodes) ==
    IF \A n \in nodes : rules[n.type].status = "ok" THEN "ok"
    ELSE (CHOOSE s \in {rules[n.type].status : n \in nodes} : s # "ok")

-----------------------------------------------------------------------------
\* The value a rule writes: "self" is the id of the principal.
SetValue(v, principal) == IF v = "self" THEN principal ELSE v

(***************************************************************************)
(* A write handler refuses, or declares fields the client may write and    *)
(* works on the fields in place.  who.stored is the row the event is about *)
(* (a create has none): the handler reads it to see whose it is.           *)
(***************************************************************************)
CallWrite(who, args, h) ==
    LET own == who.kind \in h.own
        set == h.set[who.kind]
        asks == own \/ \E n \in DOMAIN set : set[n] = "self"
        mine == own => Author(who.stored) = who.principal
    IN  IF h.end[who.kind] = "refuse" \/ (asks /\ who.principal = Nobody) \/ ~ mine
        THEN [out |-> args, end |-> "refuse"]
        ELSE [out |-> [allow |-> args.allow \cup h.allow[who.kind],
                       fields |-> [n \in DOMAIN set \cup DOMAIN args.fields |->
                                     IF n \in DOMAIN set THEN SetValue(set[n], who.principal)
                                     ELSE args.fields[n]]],
              end |-> h.end[who.kind]]

WriteBus == INSTANCE HookBus WITH Call <- CallWrite

FireWrite(handlers, kind, principal, stored, fields) ==
    WriteBus!Fire(handlers, [kind |-> kind, principal |-> principal, stored |-> stored],
                  [allow |-> {}, fields |-> fields])

\* deniedWrite: an action without a rule is refused, with 401 or 403.
DeniedWrite(kind) == IF kind = "anonymous" THEN "unauthorized" ELSE "forbidden"

\* rejectFields: what the client submitted and no handler declared.
RejectFields(submitted, allow) == submitted \ allow

\* The outcome of the gate that a write passes before the engine: the event
\* is fired, something must be allowed, and the client (unless a handler of
\* the site chose the fields) may submit nothing else.
WriteStatus(fired, submitted, decoded) ==
    CASE fired.end # "ok" -> "refused"
      [] fired.end = "ok" /\ fired.out.allow = {} -> "forbidden"
      [] fired.end = "ok" /\ fired.out.allow # {} ->
           IF decoded /\ RejectFields(submitted, fired.out.allow) # {}
           THEN "invalid" ELSE "ok"
=============================================================================
