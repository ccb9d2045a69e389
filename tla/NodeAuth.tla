------------------------------ MODULE NodeAuth ------------------------------
(***************************************************************************)
(* Frontend accounts: the credentials (auth_methods) and sessions that     *)
(* hang on nodes (core/auth.go), driven as the password plugin and         *)
(* web.AuthSession drive them.                                             *)
(*                                                                         *)
(* Unlike the node writes these operations are not one transaction each:   *)
(* they read on the pool, decide, and write with a statement of its own.   *)
(* Every statement is a step here, and calls keeps what a request carries  *)
(* from one to the next.  What the database itself guarantees is in the    *)
(* guards of the writes: UNIQUE(type, method, identifier), and foreign     *)
(* keys with ON DELETE CASCADE on both tables.                             *)
(*                                                                         *)
(* As in NodeGraph, generation tells the nodes with one id apart, and a    *)
(* definition called a slip is a mistake kept to show that a property      *)
(* notices.                                                                *)
(***************************************************************************)
EXTENDS Integers, FiniteSets

CONSTANTS
    Client,         \* requests in flight
    Type,           \* node types
    AuthEnabled,    \* the types with the authentication capability
    Credential,     \* pairs of a method and an identifier
    Token,          \* the random tokens that will be drawn
    NoNode,         \* no row with this id
    Unbound,        \* no auth_methods row with this key
    NotIssued,      \* a token not drawn yet
    Ended,          \* a token whose session row is gone
    Idle,           \* no request in progress
    MaxNode,        \* bound: ids
    MaxGeneration   \* bound: nodes that get the same id one after another

NodeId == 1 .. MaxNode

\* The unique key of auth_methods.
Key == [type : AuthEnabled, credential : Credential]

\* What is left of a session's lifetime: all of it, less than half (it is
\* renewed when it is next used), nothing.
Fresh == 2
Aging == 1
Expired == 0
Session == [type : AuthEnabled, node : NodeId, left : Expired .. Fresh]

ASSUME AuthAssumption ==
    /\ AuthEnabled \subseteq Type
    /\ MaxNode \in Nat
    /\ MaxGeneration \in Nat
    /\ NoNode \notin Type
    /\ Unbound \notin NodeId
    /\ NotIssued \notin Session
    /\ Ended \notin Session \cup {NotIssued}

VARIABLES
    nodes,        \* the type of every node, or NoNode
    methods,      \* auth_methods: the node every key is bound to, or Unbound
    sessions,     \* the sessions table by token
    calls,        \* what each request knows between two statements
    generation,   \* history: how many nodes were created with each id
    crossed       \* history: keys bound to another node than the one the
                  \* request had looked up or created

vars == <<nodes, methods, sessions, calls, generation, crossed>>

\* A request that is about to: create the node it registers; bind a key to a
\* node, having yet to find it free or not; look up the node it logs in, twice,
\* and insert its session; delete a key; act on the session it read.
Registering == [op : {"register"}, key : Key]
Binding == [op : {"bindNew", "find", "bind"}, key : Key, id : NodeId, read : 1 .. MaxGeneration]
LoggingIn == [op : {"login", "create", "openSession"}, type : AuthEnabled, id : NodeId]
Removing == [op : {"remove"}, key : Key]
Resolving == [op : {"resolve"}, token : Token, row : Session]

TypeOK ==
    /\ nodes \in [NodeId -> Type \cup {NoNode}]
    /\ methods \in [Key -> NodeId \cup {Unbound}]
    /\ sessions \in [Token -> Session \cup {NotIssued, Ended}]
    /\ calls \in [Client -> Registering \cup Binding \cup LoggingIn
                              \cup Removing \cup Resolving \cup {Idle}]
    /\ generation \in [NodeId -> 0 .. MaxGeneration]
    /\ crossed \in SUBSET Key

-----------------------------------------------------------------------------
Live == {n \in NodeId : nodes[n] # NoNode}
MethodsOf(n) == {k \in Key : methods[k] = n}
SessionsOf(n) == {t \in Token : sessions[t] \in Session /\ sessions[t].node = n}

In(c, op) == calls[c] # Idle /\ calls[c].op = op

\* The rowid SQLite picks: one more than the largest.
NextIds == {id \in NodeId : /\ \A n \in Live : n < id
                            /\ id = 1 \/ id - 1 \in Live
                            /\ generation[id] < MaxGeneration}

Init ==
    /\ nodes = [n \in NodeId |-> NoNode]
    /\ methods = [k \in Key |-> Unbound]
    /\ sessions = [t \in Token |-> NotIssued]
    /\ calls = [c \in Client |-> Idle]
    /\ generation = [n \in NodeId |-> 0]
    /\ crossed = {}

-----------------------------------------------------------------------------
(***************************************************************************)
(* The nodes table, written by the node API.                               *)
(***************************************************************************)
AddNode(id, type) ==
    /\ id \in NextIds
    /\ nodes' = [nodes EXCEPT ![id] = type]
    /\ generation' = [generation EXCEPT ![id] = @ + 1]

CreateNode(id, type) ==
    /\ AddNode(id, type)
    /\ UNCHANGED <<methods, sessions, calls, crossed>>

\* Slip: the sessions table without its foreign key.
DeleteNodeKeepSessions(n) ==
    /\ n \in Live
    /\ nodes' = [nodes EXCEPT ![n] = NoNode]
    /\ methods' = [k \in Key |-> IF methods[k] = n THEN Unbound ELSE methods[k]]
    /\ crossed' = crossed \ MethodsOf(n)
    /\ UNCHANGED <<sessions, calls, generation>>

\* DeleteNode, with the cascades of both tables.
DeleteNode(n) ==
    /\ n \in Live
    /\ nodes' = [nodes EXCEPT ![n] = NoNode]
    /\ methods' = [k \in Key |-> IF methods[k] = n THEN Unbound ELSE methods[k]]
    /\ sessions' = [t \in Token |-> IF t \in SessionsOf(n) THEN Ended ELSE sessions[t]]
    /\ crossed' = crossed \ MethodsOf(n)
    /\ UNCHANGED <<calls, generation>>

-----------------------------------------------------------------------------
(***************************************************************************)
(* Credentials.                                                            *)
(***************************************************************************)

\* RegisterAuth: FindAuth finds nothing.
RegisterFind(c, k) ==
    /\ calls[c] = Idle
    /\ methods[k] = Unbound
    /\ calls' = [calls EXCEPT ![c] = [op |-> "register", key |-> k]]
    /\ UNCHANGED <<nodes, methods, sessions, generation, crossed>>

\* RegisterAuth: CreateNode, which opens and commits a transaction of its own
\* on the pool inside the callback of the outer one.
RegisterNode(c, id) ==
    /\ In(c, "register")
    /\ AddNode(id, calls[c].key.type)
    /\ calls' = [calls EXCEPT ![c] = [op |-> "bindNew", key |-> calls[c].key,
                                      id |-> id, read |-> generation'[id]]]
    /\ UNCHANGED <<methods, sessions, crossed>>

\* Slip: the type of the node is not compared with the key's.
AddReadAnyType(c, k, n) ==
    /\ calls[c] = Idle
    /\ n \in Live
    /\ calls' = [calls EXCEPT ![c] = [op |-> "find", key |-> k, id |-> n,
                                      read |-> generation[n]]]
    /\ UNCHANGED <<nodes, methods, sessions, generation, crossed>>

\* AddAuthMethod: the node exists and has the type.
AddRead(c, k, n) ==
    /\ calls[c] = Idle
    /\ n \in Live /\ nodes[n] = k.type
    /\ calls' = [calls EXCEPT ![c] = [op |-> "find", key |-> k, id |-> n,
                                      read |-> generation[n]]]
    /\ UNCHANGED <<nodes, methods, sessions, generation, crossed>>

\* AddAuthMethod: FindAuth finds nothing.
AddFind(c) ==
    /\ In(c, "find")
    /\ methods[calls[c].key] = Unbound
    /\ calls' = [calls EXCEPT ![c].op = "bind"]
    /\ UNCHANGED <<nodes, methods, sessions, generation, crossed>>

\* Slip: INSERT OR REPLACE, FindAuth having found the key free.
Replaceable(k, n) == n \in Live

\* INSERT INTO auth_methods goes through.
Bindable(k, n) == methods[k] = Unbound /\ n \in Live

\* The INSERT of RegisterAuth and of AddAuthMethod.  A registration goes on
\* to open a session for the new node.
BindMethod(c) ==
    LET p == calls[c]
    IN  /\ In(c, "bind") \/ In(c, "bindNew")
        /\ Bindable(p.key, p.id)
        /\ methods' = [methods EXCEPT ![p.key] = p.id]
        /\ crossed' = IF p.read = generation[p.id] THEN crossed \ {p.key}
                                                   ELSE crossed \cup {p.key}
        /\ calls' = [calls EXCEPT ![c] =
             IF p.op = "bindNew"
             THEN [op |-> "login", type |-> p.key.type, id |-> p.id]
             ELSE Idle]
        /\ UNCHANGED <<nodes, sessions, generation>>

\* RemoveAuthMethod: the count of the node's methods.
RemoveCount(c, k) ==
    /\ calls[c] = Idle
    /\ methods[k] # Unbound
    /\ Cardinality({l \in MethodsOf(methods[k]) : l.type = k.type}) > 1
    /\ calls' = [calls EXCEPT ![c] = [op |-> "remove", key |-> k]]
    /\ UNCHANGED <<nodes, methods, sessions, generation, crossed>>

\* RemoveAuthMethod: the DELETE, by key.
RemoveDelete(c) ==
    /\ In(c, "remove")
    /\ methods' = [methods EXCEPT ![calls[c].key] = Unbound]
    /\ crossed' = crossed \ {calls[c].key}
    /\ calls' = [calls EXCEPT ![c] = Idle]
    /\ UNCHANGED <<nodes, sessions, generation>>

-----------------------------------------------------------------------------
(***************************************************************************)
(* Sessions.                                                               *)
(***************************************************************************)

\* Slip: the credential that was not found is used all the same.
LoginFindUnchecked(c, k) ==
    /\ calls[c] = Idle
    /\ calls' = [calls EXCEPT ![c] =
         [op |-> "login", type |-> k.type, id |-> methods[k]]]
    /\ UNCHANGED <<nodes, methods, sessions, generation, crossed>>

\* login: FindAuth finds the credential and the secret fits.
LoginFind(c, k) ==
    /\ calls[c] = Idle
    /\ methods[k] # Unbound
    /\ calls' = [calls EXCEPT ![c] =
         [op |-> "login", type |-> k.type, id |-> methods[k]]]
    /\ UNCHANGED <<nodes, methods, sessions, generation, crossed>>

\* AuthSession: the node is there and is of the realm's type.
SessionCheck(c) ==
    /\ In(c, "login")
    /\ calls[c].id \in Live /\ nodes[calls[c].id] = calls[c].type
    /\ calls' = [calls EXCEPT ![c].op = "create"]
    /\ UNCHANGED <<nodes, methods, sessions, generation, crossed>>

\* CreateSession: the node is there and is of an authentication type.
CreateRead(c) ==
    /\ In(c, "create")
    /\ calls[c].id \in Live /\ nodes[calls[c].id] \in AuthEnabled
    /\ calls' = [calls EXCEPT ![c].op = "openSession"]
    /\ UNCHANGED <<nodes, methods, sessions, generation, crossed>>

\* CreateSession: the INSERT, with a token never drawn before.
SessionInsert(c, t) ==
    LET p == calls[c]
    IN  /\ In(c, "openSession")
        /\ p.id \in Live
        /\ sessions[t] = NotIssued
        /\ sessions' = [sessions EXCEPT ![t] =
                          [type |-> p.type, node |-> p.id, left |-> Fresh]]
        /\ calls' = [calls EXCEPT ![c] = Idle]
        /\ UNCHANGED <<nodes, methods, generation, crossed>>

\* ValidSession: the SELECT.
SessionRead(c, t) ==
    /\ calls[c] = Idle
    /\ sessions[t] \in Session
    /\ calls' = [calls EXCEPT ![c] =
         [op |-> "resolve", token |-> t, row |-> sessions[t]]]
    /\ UNCHANGED <<nodes, methods, sessions, generation, crossed>>

\* Slip: the record that was read is written back, its row being there or not.
RenewedFromRead(t, row) == [row EXCEPT !.left = Fresh]

\* UPDATE sessions SET expires_at: nothing when the row is gone.
Renewed(t, row) ==
    IF sessions[t] \in Session THEN [sessions[t] EXCEPT !.left = Fresh] ELSE sessions[t]

\* ValidSession: delete what has expired, renew what is past its half.
SessionSettle(c) ==
    LET p == calls[c]
    IN  /\ In(c, "resolve")
        /\ sessions' = [sessions EXCEPT ![p.token] =
                          CASE p.row.left = Expired -> Ended
                            [] p.row.left = Aging -> Renewed(p.token, p.row)
                            [] p.row.left = Fresh -> @]
        /\ calls' = [calls EXCEPT ![c] = Idle]
        /\ UNCHANGED <<nodes, methods, generation, crossed>>

\* DeleteSession (logout) and DeleteNodeSessions.
EndSessions(T) ==
    /\ T # {} /\ \A t \in T : sessions[t] \in Session
    /\ sessions' = [t \in Token |-> IF t \in T THEN Ended ELSE sessions[t]]
    /\ UNCHANGED <<nodes, methods, calls, generation, crossed>>

DeleteSession(t) == EndSessions({t})
DeleteNodeSessions(n) == EndSessions(SessionsOf(n))

\* Half a session lifetime goes by.
Tick ==
    /\ \E t \in Token : sessions[t] \in Session /\ sessions[t].left # Expired
    /\ sessions' = [t \in Token |->
         IF sessions[t] \in Session /\ sessions[t].left # Expired
         THEN [sessions[t] EXCEPT !.left = @ - 1] ELSE sessions[t]]
    /\ UNCHANGED <<nodes, methods, calls, generation, crossed>>

\* A request ends early: a statement fails, the client goes, the process dies.
Abort(c) ==
    /\ calls[c] # Idle
    /\ calls' = [calls EXCEPT ![c] = Idle]
    /\ UNCHANGED <<nodes, methods, sessions, generation, crossed>>

Next ==
    \/ \E id \in NodeId, type \in Type : CreateNode(id, type)
    \/ \E n \in NodeId : DeleteNode(n)
    \/ \E c \in Client, k \in Key : RegisterFind(c, k)
    \/ \E c \in Client, id \in NodeId : RegisterNode(c, id)
    \/ \E c \in Client, k \in Key, n \in NodeId : AddRead(c, k, n)
    \/ \E c \in Client : AddFind(c)
    \/ \E c \in Client : BindMethod(c)
    \/ \E c \in Client, k \in Key : RemoveCount(c, k)
    \/ \E c \in Client : RemoveDelete(c)
    \/ \E c \in Client, k \in Key : LoginFind(c, k)
    \/ \E c \in Client : SessionCheck(c)
    \/ \E c \in Client : CreateRead(c)
    \/ \E c \in Client, t \in Token : SessionInsert(c, t)
    \/ \E c \in Client, t \in Token : SessionRead(c, t)
    \/ \E c \in Client : SessionSettle(c)
    \/ \E t \in Token : DeleteSession(t)
    \/ \E n \in NodeId : DeleteNodeSessions(n)
    \/ Tick
    \/ \E c \in Client : Abort(c)

Spec == Init /\ [][Next]_vars

-----------------------------------------------------------------------------
\* A credential is bound to a node of the type it was registered for, unless
\* the id was handed to another node before the row was inserted.
CredentialFitsNode ==
    \A k \in Key \ crossed :
        methods[k] # Unbound => methods[k] \in Live /\ nodes[methods[k]] = k.type

\* No credential and no session outlives its node: whoever is given the id
\* next starts with none, logged in nowhere.
NewNodeStartsClean ==
    \A n \in NodeId \ Live : MethodsOf(n) = {} /\ SessionsOf(n) = {}

\* A bound key never passes to another node in one step, whatever two requests
\* that both found it free do.
CredentialNeverMoves ==
    [][\A k \in Key : methods[k] # Unbound => methods'[k] \in {methods[k], Unbound}]_vars

\* A session that was ended is not brought back by a request that had read it.
EndedSessionStaysEnded ==
    [][\A t \in Token : sessions[t] = Ended => sessions'[t] = Ended]_vars

\* RegisterAuth "atomically creates" the node and binds the credential: when
\* the request is over, the node it created has the credential, or is gone.
RegisterIsAtomic ==
    [][\A c \in Client :
         LET p == calls[c]
         IN  (In(c, "bindNew") /\ calls'[c] # p)
             => \/ methods'[p.key] = p.id
                \/ nodes'[p.id] = NoNode
                \/ generation'[p.id] # p.read]_vars

\* RemoveAuthMethod retains "at least one method": a node that has some is not
\* left with none while it exists.
LastMethodStays ==
    [][\A n \in NodeId :
         (MethodsOf(n) # {} /\ nodes'[n] # NoNode) => \E k \in Key : methods'[k] = n]_vars
=============================================================================
