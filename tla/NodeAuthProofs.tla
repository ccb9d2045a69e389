-------------------------- MODULE NodeAuthProofs ----------------------------
(***************************************************************************)
(* The accounts, for every number of requests, nodes, keys and tokens.     *)
(***************************************************************************)
EXTENDS NodeAuth, TLAPS

-----------------------------------------------------------------------------
(***************************************************************************)
(* Types.  A live node has been created once; without that, what AddFind   *)
(* notes of it would have no type.                                         *)
(***************************************************************************)
LiveIsGenerated == \A n \in Live : generation[n] \in 1 .. MaxGeneration

TypeInv == TypeOK /\ LiveIsGenerated

LEMMA TypeInit == Init => TypeInv
  BY AuthAssumption DEF Init, TypeInv, TypeOK, LiveIsGenerated, Live

\* What a new row changes in the nodes table.
LEMMA AddNodeRow ==
    ASSUME TypeInv, NEW id \in NodeId, NEW type \in Type, AddNode(id, type)
    PROVE  /\ nodes' \in [NodeId -> Type \cup {NoNode}]
           /\ generation' \in [NodeId -> 0 .. MaxGeneration]
           /\ id \notin Live /\ Live' = Live \cup {id}
           /\ nodes'[id] = type
           /\ \A n \in NodeId \ {id} : nodes'[n] = nodes[n]
           /\ generation'[id] = generation[id] + 1
           /\ generation'[id] \in 1 .. MaxGeneration
           /\ \A n \in NodeId \ {id} : generation'[n] = generation[n]
           /\ LiveIsGenerated'
<1>1. /\ nodes \in [NodeId -> Type \cup {NoNode}]
      /\ generation \in [NodeId -> 0 .. MaxGeneration]
  BY DEF TypeInv, TypeOK
<1>2. id \notin Live /\ generation[id] < MaxGeneration
  BY DEF AddNode, NextIds, NodeId
<1>3. nodes' = [nodes EXCEPT ![id] = type]
  BY DEF AddNode
<1>4. generation' = [generation EXCEPT ![id] = @ + 1]
  BY DEF AddNode
<1>5. generation[id] + 1 \in 1 .. MaxGeneration /\ generation[id] + 1 \in 0 .. MaxGeneration
  BY <1>1, <1>2, AuthAssumption
<1>6. Live' = Live \cup {id}
  BY <1>1, <1>3, AuthAssumption DEF Live
<1>7. LiveIsGenerated'
  <2>1. \A n \in Live' : n = id \/ generation[n] \in 1 .. MaxGeneration
    BY <1>6 DEF TypeInv, LiveIsGenerated
  <2>2. \A n \in Live' : n \in NodeId
    BY <1>6 DEF Live
  <2> QED
    BY <1>1, <1>4, <1>5, <2>1, <2>2 DEF LiveIsGenerated
<1> QED
  BY <1>1, <1>2, <1>3, <1>4, <1>5, <1>6, <1>7

LEMMA TypeNext == TypeInv /\ [Next]_vars => TypeInv'
<1> SUFFICES ASSUME TypeInv, [Next]_vars PROVE TypeInv'
  OBVIOUS
<1> USE DEF TypeInv, TypeOK, LiveIsGenerated
<1>1. ASSUME NEW id \in NodeId, NEW type \in Type, CreateNode(id, type)
      PROVE TypeInv'
  <2>1. AddNode(id, type) /\ UNCHANGED <<methods, sessions, calls, crossed>>
    BY <1>1 DEF CreateNode
  <2> HIDE DEF LiveIsGenerated
  <2> QED
    BY <2>1, AddNodeRow
<1>2. ASSUME NEW n \in NodeId, DeleteNode(n) PROVE TypeInv'
  BY <1>2 DEF DeleteNode, Live
<1>3. ASSUME NEW c \in Client, NEW k \in Key, RegisterFind(c, k) PROVE TypeInv'
  <2>1. [op |-> "register", key |-> k] \in Registering
    BY DEF Registering
  <2> QED
    BY <1>3, <2>1 DEF RegisterFind, Live
<1>4. ASSUME NEW c \in Client, NEW id \in NodeId, RegisterNode(c, id) PROVE TypeInv'
  <2>1. calls[c] \in Registering
    BY <1>4 DEF RegisterNode, In, Registering, Binding, LoggingIn, Removing, Resolving
  <2>2. calls[c].key \in Key /\ calls[c].key.type \in Type
    BY <2>1, AuthAssumption DEF Registering, Key
  <2>3. AddNode(id, calls[c].key.type)
    BY <1>4 DEF RegisterNode
  <2>4. [op |-> "bindNew", key |-> calls[c].key, id |-> id, read |-> generation'[id]]
           \in Binding
    BY <2>2, <2>3, AddNodeRow DEF Binding
  <2>5. /\ nodes' \in [NodeId -> Type \cup {NoNode}]
        /\ generation' \in [NodeId -> 0 .. MaxGeneration]
        /\ LiveIsGenerated'
    BY <2>2, <2>3, AddNodeRow
  <2> QED
    BY <1>4, <2>4, <2>5 DEF RegisterNode
<1>5. ASSUME NEW c \in Client, NEW k \in Key, NEW n \in NodeId, AddRead(c, k, n)
      PROVE TypeInv'
  <2>1. [op |-> "find", key |-> k, id |-> n, read |-> generation[n]] \in Binding
    BY <1>5 DEF AddRead, Binding
  <2> QED
    BY <1>5, <2>1 DEF AddRead, Live
<1>18. ASSUME NEW c \in Client, AddFind(c) PROVE TypeInv'
  <2>1. calls[c] \in Binding
    BY <1>18 DEF AddFind, In, Registering, Binding, LoggingIn, Removing, Resolving
  <2>2. [calls[c] EXCEPT !.op = "bind"] \in Binding
    BY <2>1 DEF Binding
  <2> QED
    BY <1>18, <2>2 DEF AddFind, Live
<1>6. ASSUME NEW c \in Client, BindMethod(c) PROVE TypeInv'
  <2>1. calls[c] \in Binding
    BY <1>6 DEF BindMethod, In, Registering, Binding, LoggingIn, Removing, Resolving
  <2>2. [op |-> "login", type |-> calls[c].key.type, id |-> calls[c].id] \in LoggingIn
    BY <2>1 DEF Binding, LoggingIn, Key
  <2>3. calls[c].key \in Key /\ calls[c].id \in NodeId
    BY <2>1 DEF Binding
  <2> QED
    BY <1>6, <2>2, <2>3 DEF BindMethod, Live
<1>7. ASSUME NEW c \in Client, NEW k \in Key, RemoveCount(c, k) PROVE TypeInv'
  <2>1. [op |-> "remove", key |-> k] \in Removing
    BY DEF Removing
  <2> QED
    BY <1>7, <2>1 DEF RemoveCount, Live
<1>8. ASSUME NEW c \in Client, RemoveDelete(c) PROVE TypeInv'
  BY <1>8 DEF RemoveDelete, Live
<1>9. ASSUME NEW c \in Client, NEW k \in Key, LoginFind(c, k) PROVE TypeInv'
  <2>1. [op |-> "login", type |-> k.type, id |-> methods[k]] \in LoggingIn
    BY <1>9 DEF LoginFind, LoggingIn, Key
  <2> QED
    BY <1>9, <2>1 DEF LoginFind, Live
<1>10. ASSUME NEW c \in Client, SessionCheck(c) PROVE TypeInv'
  <2>1. calls[c] \in LoggingIn
    BY <1>10 DEF SessionCheck, In, Registering, Binding, LoggingIn, Removing, Resolving
  <2>2. [calls[c] EXCEPT !.op = "create"] \in LoggingIn
    BY <2>1 DEF LoggingIn
  <2> QED
    BY <1>10, <2>2 DEF SessionCheck, Live
<1>19. ASSUME NEW c \in Client, CreateRead(c) PROVE TypeInv'
  <2>1. calls[c] \in LoggingIn
    BY <1>19 DEF CreateRead, In, Registering, Binding, LoggingIn, Removing, Resolving
  <2>2. [calls[c] EXCEPT !.op = "openSession"] \in LoggingIn
    BY <2>1 DEF LoggingIn
  <2> QED
    BY <1>19, <2>2 DEF CreateRead, Live
<1>11. ASSUME NEW c \in Client, NEW t \in Token, SessionInsert(c, t) PROVE TypeInv'
  <2>1. calls[c] \in LoggingIn
    BY <1>11 DEF SessionInsert, In, Registering, Binding, LoggingIn, Removing, Resolving
  <2>2. [type |-> calls[c].type, node |-> calls[c].id, left |-> Fresh] \in Session
    BY <2>1 DEF LoggingIn, Session, Fresh, Expired
  <2> QED
    BY <1>11, <2>2 DEF SessionInsert, Live
<1>12. ASSUME NEW c \in Client, NEW t \in Token, SessionRead(c, t) PROVE TypeInv'
  <2>1. [op |-> "resolve", token |-> t, row |-> sessions[t]] \in Resolving
    BY <1>12 DEF SessionRead, Resolving
  <2> QED
    BY <1>12, <2>1 DEF SessionRead, Live
<1>13. ASSUME NEW c \in Client, SessionSettle(c) PROVE TypeInv'
  <2>1. calls[c] \in Resolving
    BY <1>13 DEF SessionSettle, In, Registering, Binding, LoggingIn, Removing, Resolving
  <2>2. calls[c].row.left \in {Expired, Aging, Fresh} /\ calls[c].token \in Token
    BY <2>1 DEF Resolving, Session, Expired, Aging, Fresh
  <2>3. Renewed(calls[c].token, calls[c].row) \in Session \cup {NotIssued, Ended}
    BY <2>2 DEF Renewed, Session, Expired, Fresh
  <2> QED
    BY <1>13, <2>2, <2>3 DEF SessionSettle, Live
<1>14. ASSUME NEW T \in SUBSET Token, EndSessions(T) PROVE TypeInv'
  BY <1>14 DEF EndSessions, Live
<1>15. ASSUME Tick PROVE TypeInv'
  <2>1. ASSUME NEW t \in Token, sessions[t] \in Session, sessions[t].left # Expired
        PROVE  [sessions[t] EXCEPT !.left = @ - 1] \in Session
    BY <2>1 DEF Session, Expired, Fresh
  <2> QED
    BY <1>15, <2>1 DEF Tick, Live
<1>16. ASSUME NEW c \in Client, Abort(c) PROVE TypeInv'
  BY <1>16 DEF Abort, Live
<1>17. CASE UNCHANGED vars
  BY <1>17 DEF vars, Live
<1> QED
  BY <1>1, <1>2, <1>3, <1>4, <1>5, <1>6, <1>7, <1>8, <1>9, <1>10, <1>11, <1>12,
     <1>13, <1>14, <1>15, <1>16, <1>17, <1>18, <1>19
     DEF Next, DeleteSession, DeleteNodeSessions, SessionsOf

\* Every row and every request in flight has its type at every step: no
\* request goes on with a credential or a session it did not find.
THEOREM Typing == Spec => []TypeOK
<1>1. TypeInv => TypeOK
  BY DEF TypeInv
<1> QED
  BY <1>1, TypeInit, TypeNext, PTL DEF Spec

-----------------------------------------------------------------------------
(***************************************************************************)
(* Rows go with their node.  NewNodeStartsClean is proved as what the      *)
(* foreign keys say: every row refers to a live node.                      *)
(***************************************************************************)
RowsHaveNode ==
    /\ \A k \in Key : methods[k] # Unbound => methods[k] \in Live
    /\ \A t \in Token : sessions[t] \in Session => sessions[t].node \in Live

LEMMA RowsInit == Init => RowsHaveNode
  BY AuthAssumption DEF Init, RowsHaveNode

LEMMA RowsNext == TypeInv /\ RowsHaveNode /\ [Next]_vars => RowsHaveNode'
<1> SUFFICES ASSUME TypeInv, RowsHaveNode, [Next]_vars PROVE RowsHaveNode'
  OBVIOUS
<1>0. TypeOK
  BY DEF TypeInv
<1>1. ASSUME NEW id \in NodeId, NEW type \in Type, AddNode(id, type),
             UNCHANGED <<methods, sessions>>
      PROVE RowsHaveNode'
  <2>1. Live' = Live \cup {id}
    BY <1>1, AddNodeRow
  <2> QED
    BY <1>1, <2>1 DEF RowsHaveNode
<1>2. ASSUME NEW c \in Client, NEW id \in NodeId, RegisterNode(c, id)
      PROVE RowsHaveNode'
  <2>1. calls[c] \in Registering
    BY <1>0, <1>2 DEF TypeOK, RegisterNode, In, Registering, Binding, LoggingIn,
                      Removing, Resolving
  <2>2. calls[c].key.type \in Type
    BY <2>1, AuthAssumption DEF Registering, Key
  <2> QED
    BY <1>1, <1>2, <2>2 DEF RegisterNode
<1>3. ASSUME NEW n \in NodeId, DeleteNode(n) PROVE RowsHaveNode'
  <2>1. Live' = Live \ {n}
    BY <1>0, <1>3 DEF DeleteNode, TypeOK, Live
  <2>2. \A k \in Key : methods'[k] = IF methods[k] = n THEN Unbound ELSE methods[k]
    BY <1>3 DEF DeleteNode
  <2>3. \A t \in Token : sessions'[t] =
           IF sessions[t] \in Session /\ sessions[t].node = n THEN Ended ELSE sessions[t]
    BY <1>3 DEF DeleteNode, SessionsOf
  <2> QED
    BY <2>1, <2>2, <2>3, AuthAssumption DEF RowsHaveNode
<1>4. ASSUME NEW c \in Client, BindMethod(c) PROVE RowsHaveNode'
  <2>1. /\ calls[c].id \in Live
        /\ methods' = [methods EXCEPT ![calls[c].key] = calls[c].id]
        /\ UNCHANGED <<nodes, sessions>>
    BY <1>4 DEF BindMethod, Bindable
  <2> QED
    BY <1>0, <2>1 DEF RowsHaveNode, Live, TypeOK
<1>5. ASSUME NEW c \in Client, RemoveDelete(c) PROVE RowsHaveNode'
  BY <1>0, <1>5 DEF RemoveDelete, RowsHaveNode, Live, TypeOK
<1>6. ASSUME NEW c \in Client, NEW t \in Token, SessionInsert(c, t)
      PROVE RowsHaveNode'
  <2>1. /\ calls[c].id \in Live
        /\ sessions' = [sessions EXCEPT ![t] =
                          [type |-> calls[c].type, node |-> calls[c].id, left |-> Fresh]]
        /\ UNCHANGED <<nodes, methods>>
    BY <1>6 DEF SessionInsert
  <2> QED
    BY <1>0, <2>1 DEF RowsHaveNode, Live, TypeOK
<1>7. ASSUME UNCHANGED <<nodes, methods>>,
             \A t \in Token : sessions'[t] \in Session =>
                /\ sessions[t] \in Session
                /\ sessions'[t].node = sessions[t].node
      PROVE RowsHaveNode'
  BY <1>7 DEF RowsHaveNode, Live
<1>8. ASSUME NEW c \in Client, SessionSettle(c) PROVE RowsHaveNode'
  <2>1. calls[c] \in Resolving
    BY <1>0, <1>8 DEF TypeOK, SessionSettle, In, Registering, Binding, LoggingIn,
                      Removing, Resolving
  <2>2. calls[c].row.left \in {Expired, Aging, Fresh}
    BY <2>1 DEF Resolving, Session, Expired, Aging, Fresh
  <2>3. \A t \in Token :
           \/ sessions'[t] = sessions[t]
           \/ sessions'[t] = Ended
           \/ sessions[t] \in Session /\ sessions'[t] = [sessions[t] EXCEPT !.left = Fresh]
    BY <1>0, <1>8, <2>2 DEF SessionSettle, Renewed, TypeOK
  <2>4. ASSUME NEW t \in Token, sessions[t] \in Session
        PROVE  [sessions[t] EXCEPT !.left = Fresh].node = sessions[t].node
    BY <2>4 DEF Session
  <2> QED
    BY <1>7, <1>8, <2>3, <2>4, AuthAssumption DEF SessionSettle
<1>9. ASSUME NEW T \in SUBSET Token, EndSessions(T) PROVE RowsHaveNode'
  BY <1>7, <1>9, AuthAssumption DEF EndSessions
<1>10. ASSUME Tick PROVE RowsHaveNode'
  <2>1. ASSUME NEW t \in Token, sessions[t] \in Session
        PROVE  [sessions[t] EXCEPT !.left = @ - 1].node = sessions[t].node
    BY <2>1 DEF Session
  <2> QED
    BY <1>7, <1>10, <2>1 DEF Tick
<1>11. ASSUME UNCHANGED <<nodes, methods, sessions>> PROVE RowsHaveNode'
  BY <1>7, <1>11
<1> QED
  BY <1>1, <1>2, <1>3, <1>4, <1>5, <1>6, <1>8, <1>9, <1>10, <1>11
     DEF Next, vars, CreateNode, RegisterFind, AddRead, AddFind, RemoveCount, LoginFind,
         SessionCheck, CreateRead, SessionRead, DeleteSession, DeleteNodeSessions,
         SessionsOf, Abort

\* A deleted node takes its credentials and sessions with it, so the node that
\* is given its id next has none: a request that was about to add one inserts
\* it for a node that exists, or not at all.
THEOREM NoInheritedLogin == Spec => []NewNodeStartsClean
<1>1. TypeInv /\ RowsHaveNode => NewNodeStartsClean
  BY AuthAssumption DEF RowsHaveNode, NewNodeStartsClean, MethodsOf, SessionsOf, Live
<1> QED
  BY <1>1, TypeInit, TypeNext, RowsInit, RowsNext, PTL DEF Spec

-----------------------------------------------------------------------------
(***************************************************************************)
(* Credentials fit their node: a request that is about to bind a key knows *)
(* the type of the node it has looked up or created.                       *)
(***************************************************************************)
BindOps == {"bindNew", "find", "bind"}

BindingIsPast(p) ==
    (p # Idle /\ p.op \in BindOps) =>
        /\ p.read <= generation[p.id]
        /\ (p.read = generation[p.id] /\ p.id \in Live) => nodes[p.id] = p.key.type

BindingsArePast == \A c \in Client : BindingIsPast(calls[c])

LEMMA BindingType ==
    ASSUME TypeOK, NEW c \in Client, calls[c] # Idle, calls[c].op \in BindOps
    PROVE  calls[c] \in Binding
  BY DEF BindOps, TypeOK, Registering, Binding, LoggingIn, Removing, Resolving

LEMMA BindingInit == Init => BindingsArePast
  BY DEF Init, BindingsArePast, BindingIsPast

LEMMA BindingNext == TypeInv /\ BindingsArePast /\ [Next]_vars => BindingsArePast'
<1> SUFFICES ASSUME TypeInv, BindingsArePast, [Next]_vars PROVE BindingsArePast'
  OBVIOUS
<1>0. /\ TypeOK
      /\ \A n \in NodeId : generation[n] \in Int
  BY AuthAssumption DEF TypeInv, TypeOK
\* A row added under an id leaves what is known of the nodes before it true.
<1>1. ASSUME NEW id \in NodeId, NEW type \in Type, AddNode(id, type),
             NEW c \in Client, calls[c] # Idle, calls[c].op \in BindOps,
             calls'[c] = calls[c]
      PROVE BindingIsPast(calls[c])'
  <2>1. calls[c].id \in NodeId /\ calls[c].read \in Int
    BY <1>0, <1>1, BindingType, AuthAssumption DEF Binding
  <2>2. BindingIsPast(calls[c])
    BY DEF BindingsArePast
  <2>3. /\ Live' = Live \cup {id}
        /\ generation'[id] = generation[id] + 1
        /\ \A n \in NodeId \ {id} : nodes'[n] = nodes[n] /\ generation'[n] = generation[n]
    BY <1>1, AddNodeRow
  <2> QED
    BY <1>0, <1>1, <2>1, <2>2, <2>3 DEF BindingIsPast
<1>2. ASSUME NEW id \in NodeId, NEW type \in Type, CreateNode(id, type)
      PROVE BindingsArePast'
  <2>1. AddNode(id, type) /\ calls' = calls
    BY <1>2 DEF CreateNode
  <2>2. ASSUME NEW c \in Client, calls[c] # Idle, calls[c].op \in BindOps
        PROVE BindingIsPast(calls[c])'
    BY <1>1, <2>1, <2>2
  <2> QED
    BY <2>1, <2>2 DEF BindingsArePast, BindingIsPast
<1>3. ASSUME NEW c \in Client, NEW id \in NodeId, RegisterNode(c, id)
      PROVE BindingsArePast'
  <2>1. calls[c] \in Registering
    BY <1>0, <1>3 DEF TypeOK, RegisterNode, In, Registering, Binding, LoggingIn,
                      Removing, Resolving
  <2>2. calls[c].key.type \in Type
    BY <2>1, AuthAssumption DEF Registering, Key
  <2>3. AddNode(id, calls[c].key.type)
    BY <1>3 DEF RegisterNode
  <2>4. /\ calls'[c] = [op |-> "bindNew", key |-> calls[c].key, id |-> id,
                        read |-> generation'[id]]
        /\ \A d \in Client \ {c} : calls'[d] = calls[d]
    BY <1>0, <1>3 DEF RegisterNode, TypeOK
  <2>5. generation'[id] \in Int /\ nodes'[id] = calls[c].key.type
    BY <2>2, <2>3, AddNodeRow, AuthAssumption
  <2>6. BindingIsPast(calls[c])'
    BY <2>4, <2>5 DEF BindingIsPast
  <2>7. ASSUME NEW d \in Client \ {c}, calls[d] # Idle, calls[d].op \in BindOps
        PROVE BindingIsPast(calls[d])'
    BY <1>1, <2>2, <2>3, <2>4, <2>7
  <2>8. ASSUME NEW d \in Client \ {c} PROVE BindingIsPast(calls[d])'
    BY <2>4, <2>7 DEF BindingIsPast
  <2> QED
    BY <2>6, <2>8 DEF BindingsArePast
<1>4. ASSUME NEW n \in NodeId, DeleteNode(n) PROVE BindingsArePast'
  <2>1. UNCHANGED <<calls, generation>>
    BY <1>4 DEF DeleteNode
  <2>2. Live' \subseteq Live /\ \A m \in Live' : nodes'[m] = nodes[m]
    BY <1>0, <1>4, AuthAssumption DEF DeleteNode, TypeOK, Live
  <2> QED
    BY <2>1, <2>2 DEF BindingsArePast, BindingIsPast
<1>5. ASSUME NEW c \in Client, NEW k \in Key, NEW n \in NodeId, AddRead(c, k, n)
      PROVE BindingsArePast'
  <2>1. /\ calls'[c] = [op |-> "find", key |-> k, id |-> n, read |-> generation[n]]
        /\ \A d \in Client \ {c} : calls'[d] = calls[d]
        /\ UNCHANGED <<nodes, generation>>
        /\ nodes[n] = k.type
    BY <1>0, <1>5 DEF AddRead, TypeOK
  <2>2. BindingIsPast(calls[c])'
    BY <1>0, <2>1 DEF BindingIsPast
  <2> QED
    BY <2>1, <2>2 DEF BindingsArePast, BindingIsPast, Live
<1>10. ASSUME NEW c \in Client, AddFind(c) PROVE BindingsArePast'
  <2>1. calls[c] \in Binding /\ calls[c] # Idle
    BY <1>0, <1>10, BindingType DEF AddFind, In, BindOps
  <2>2. /\ calls'[c].read = calls[c].read
        /\ calls'[c].id = calls[c].id
        /\ calls'[c].key = calls[c].key
        /\ \A d \in Client \ {c} : calls'[d] = calls[d]
        /\ UNCHANGED <<nodes, generation>>
    BY <1>0, <1>10, <2>1 DEF AddFind, TypeOK, Binding
  <2>3. BindingIsPast(calls[c]) /\ calls[c].op \in BindOps
    BY <1>10 DEF BindingsArePast, AddFind, In, BindOps
  <2>4. BindingIsPast(calls[c])'
    BY <2>1, <2>2, <2>3 DEF BindingIsPast, Live
  <2> QED
    BY <2>2, <2>4 DEF BindingsArePast, BindingIsPast, Live
<1>6. ASSUME UNCHANGED <<nodes, generation>>,
             \A d \in Client :
                \/ calls'[d] = calls[d]
                \/ calls'[d] = Idle
                \/ calls'[d].op \notin BindOps
      PROVE BindingsArePast'
  BY <1>6 DEF BindingsArePast, BindingIsPast, Live
<1>7. ASSUME NEW c \in Client,
             \/ \E k \in Key : RegisterFind(c, k) \/ RemoveCount(c, k) \/ LoginFind(c, k)
             \/ BindMethod(c) \/ RemoveDelete(c) \/ SessionSettle(c) \/ Abort(c)
             \/ \E t \in Token : SessionInsert(c, t) \/ SessionRead(c, t)
      PROVE BindingsArePast'
  <2>1. /\ UNCHANGED <<nodes, generation>>
        /\ \E v : calls' = [calls EXCEPT ![c] = v]
    BY <1>7 DEF RegisterFind, RemoveCount, LoginFind, BindMethod, RemoveDelete,
                SessionSettle, Abort, SessionInsert, SessionRead
  <2>2. \A d \in Client \ {c} : calls'[d] = calls[d]
    BY <1>0, <2>1 DEF TypeOK
  <2>3. calls'[c] = Idle \/ calls'[c].op \notin BindOps
    <3>1. CASE BindMethod(c) \/ RemoveDelete(c) \/ SessionSettle(c) \/ Abort(c)
      BY <1>0, <3>1 DEF BindOps, BindMethod, RemoveDelete, SessionSettle, Abort, TypeOK
    <3>2. CASE \E k \in Key : RegisterFind(c, k) \/ RemoveCount(c, k) \/ LoginFind(c, k)
      BY <1>0, <3>2 DEF BindOps, RegisterFind, RemoveCount, LoginFind, TypeOK
    <3>3. CASE \E t \in Token : SessionInsert(c, t) \/ SessionRead(c, t)
      BY <1>0, <3>3 DEF BindOps, SessionInsert, SessionRead, TypeOK
    <3> QED
      BY <1>7, <3>1, <3>2, <3>3
  <2> QED
    BY <1>6, <2>1, <2>2, <2>3
<1>8. ASSUME NEW c \in Client, SessionCheck(c) \/ CreateRead(c) PROVE BindingsArePast'
  <2>1. calls[c] \in LoggingIn
    BY <1>0, <1>8 DEF SessionCheck, CreateRead, In, TypeOK, Registering, Binding,
                      LoggingIn, Removing, Resolving
  <2>2. \A o \in {"create", "openSession"} : [calls[c] EXCEPT !.op = o].op \notin BindOps
    BY <2>1 DEF LoggingIn, BindOps
  <2> QED
    BY <1>0, <1>6, <1>8, <2>2 DEF SessionCheck, CreateRead, TypeOK
<1>9. ASSUME UNCHANGED <<nodes, generation, calls>> PROVE BindingsArePast'
  BY <1>6, <1>9
<1> QED
  BY <1>2, <1>3, <1>4, <1>5, <1>7, <1>8, <1>9, <1>10
     DEF Next, vars, DeleteSession, DeleteNodeSessions, EndSessions, Tick

LEMMA FitNext ==
    TypeInv /\ RowsHaveNode /\ BindingsArePast /\ CredentialFitsNode /\ [Next]_vars
        => CredentialFitsNode'
<1> SUFFICES ASSUME TypeInv, RowsHaveNode, BindingsArePast, CredentialFitsNode, [Next]_vars
             PROVE  CredentialFitsNode'
  OBVIOUS
<1>0. TypeOK
  BY DEF TypeInv
<1>1. ASSUME NEW id \in NodeId, NEW type \in Type, AddNode(id, type),
             UNCHANGED <<methods, crossed>>
      PROVE CredentialFitsNode'
  <2>1. /\ id \notin Live /\ Live' = Live \cup {id}
        /\ \A n \in NodeId \ {id} : nodes'[n] = nodes[n]
    BY <1>1, AddNodeRow
  <2>2. \A n \in Live : n \in NodeId
    BY DEF Live
  <2> QED
    BY <1>1, <2>1, <2>2 DEF CredentialFitsNode
<1>2. ASSUME NEW c \in Client, NEW id \in NodeId, RegisterNode(c, id)
      PROVE CredentialFitsNode'
  <2>1. calls[c] \in Registering
    BY <1>0, <1>2 DEF TypeOK, RegisterNode, In, Registering, Binding, LoggingIn,
                      Removing, Resolving
  <2>2. calls[c].key.type \in Type
    BY <2>1, AuthAssumption DEF Registering, Key
  <2> QED
    BY <1>1, <1>2, <2>2 DEF RegisterNode
<1>3. ASSUME NEW n \in NodeId, DeleteNode(n) PROVE CredentialFitsNode'
  <2>1. Live' = Live \ {n} /\ \A m \in NodeId \ {n} : nodes'[m] = nodes[m]
    BY <1>0, <1>3 DEF DeleteNode, TypeOK, Live
  <2>2. \A k \in Key : methods'[k] = IF methods[k] = n THEN Unbound ELSE methods[k]
    BY <1>3 DEF DeleteNode
  <2>3. \A k \in Key \ crossed' : methods[k] = n \/ k \notin crossed
    BY <1>3 DEF DeleteNode, MethodsOf
  <2> QED
    BY <2>1, <2>2, <2>3 DEF CredentialFitsNode, Live
<1>4. ASSUME NEW c \in Client, BindMethod(c) PROVE CredentialFitsNode'
  <2> DEFINE p == calls[c]
  <2>1. p \in Binding /\ p # Idle /\ p.op \in BindOps
    BY <1>0, <1>4, BindingType DEF BindMethod, In, BindOps
  <2>2. /\ p.id \in Live
        /\ methods' = [methods EXCEPT ![p.key] = p.id]
        /\ UNCHANGED nodes
        /\ crossed' = IF p.read = generation[p.id] THEN crossed \ {p.key}
                                                   ELSE crossed \cup {p.key}
    BY <1>4 DEF BindMethod, Bindable
  <2>3. p.key \notin crossed' => nodes[p.id] = p.key.type
    BY <2>1, <2>2 DEF BindingsArePast, BindingIsPast
  <2>4. p.key \in Key
    BY <2>1 DEF Binding
  <2> HIDE DEF p
  <2>5. methods'[p.key] = p.id /\ \A k \in Key \ {p.key} : methods'[k] = methods[k]
    BY <1>0, <2>2, <2>4 DEF TypeOK
  <2>6. \A k \in Key \ {p.key} : k \notin crossed' => k \notin crossed
    BY <2>2
  <2> QED
    BY <2>2, <2>3, <2>5, <2>6 DEF CredentialFitsNode, Live
<1>5. ASSUME NEW c \in Client, RemoveDelete(c) PROVE CredentialFitsNode'
  <2>1. /\ methods' = [methods EXCEPT ![calls[c].key] = Unbound]
        /\ crossed' = crossed \ {calls[c].key}
        /\ UNCHANGED nodes
    BY <1>5 DEF RemoveDelete
  <2> QED
    BY <1>0, <2>1 DEF CredentialFitsNode, Live, TypeOK
<1>6. ASSUME UNCHANGED <<nodes, methods, crossed>> PROVE CredentialFitsNode'
  BY <1>6 DEF CredentialFitsNode, Live
<1> QED
  BY <1>1, <1>2, <1>3, <1>4, <1>5, <1>6
     DEF Next, vars, CreateNode, RegisterFind, AddRead, AddFind, RemoveCount, LoginFind,
         SessionCheck, CreateRead, SessionInsert, SessionRead, SessionSettle, DeleteSession,
         DeleteNodeSessions, EndSessions, Tick, Abort

\* A credential is bound to a node of its own type, though the type is looked
\* up in a statement before the one that binds it, unless the id changed hands
\* in between.
THEOREM CredentialsFit == Spec => []CredentialFitsNode
<1>1. Init => CredentialFitsNode
  BY DEF Init, CredentialFitsNode
<1> QED
  BY <1>1, TypeInit, TypeNext, RowsInit, RowsNext, BindingInit, BindingNext, FitNext, PTL
     DEF Spec

-----------------------------------------------------------------------------
(***************************************************************************)
(* What a step may never do.                                               *)
(***************************************************************************)
LEMMA EndedStep ==
    TypeInv /\ [Next]_vars => \A t \in Token : sessions[t] = Ended => sessions'[t] = Ended
<1> SUFFICES ASSUME TypeInv, [Next]_vars, NEW t \in Token, sessions[t] = Ended
             PROVE  sessions'[t] = Ended
  OBVIOUS
<1>0. TypeOK
  BY DEF TypeInv
<1>1. ASSUME NEW n \in NodeId, DeleteNode(n) PROVE sessions'[t] = Ended
  BY <1>1 DEF DeleteNode
<1>2. ASSUME NEW c \in Client, NEW u \in Token, SessionInsert(c, u)
      PROVE sessions'[t] = Ended
  BY <1>0, <1>2, AuthAssumption DEF SessionInsert, TypeOK
<1>3. ASSUME NEW c \in Client, SessionSettle(c) PROVE sessions'[t] = Ended
  <2>1. calls[c] \in Resolving
    BY <1>0, <1>3 DEF TypeOK, SessionSettle, In, Registering, Binding, LoggingIn,
                      Removing, Resolving
  <2>2. calls[c].row.left \in {Expired, Aging, Fresh}
    BY <2>1 DEF Resolving, Session, Expired, Aging, Fresh
  <2> QED
    BY <1>0, <1>3, <2>2, AuthAssumption DEF SessionSettle, Renewed, TypeOK
<1>4. ASSUME NEW T \in SUBSET Token, EndSessions(T) PROVE sessions'[t] = Ended
  BY <1>4 DEF EndSessions
<1>5. ASSUME Tick PROVE sessions'[t] = Ended
  BY <1>5, AuthAssumption DEF Tick
<1>6. ASSUME UNCHANGED sessions PROVE sessions'[t] = Ended
  BY <1>6
<1> QED
  BY <1>1, <1>2, <1>3, <1>4, <1>5, <1>6
     DEF Next, vars, CreateNode, RegisterFind, RegisterNode, AddRead, AddFind,
         BindMethod, RemoveCount, RemoveDelete, LoginFind, SessionCheck, CreateRead,
         SessionRead, DeleteSession, DeleteNodeSessions, SessionsOf, Abort

\* A logout, an expiry or the deletion of the node is final: a request that
\* had read the session before cannot renew it afterwards.
THEOREM EndedIsFinal == Spec => EndedSessionStaysEnded
  BY TypeInit, TypeNext, EndedStep, PTL DEF Spec, EndedSessionStaysEnded

-----------------------------------------------------------------------------
(***************************************************************************)
(* The unique key of auth_methods is looked at by the insert itself, so    *)
(* the answer of an earlier lookup is not relied on.                       *)
(***************************************************************************)
LEMMA KeyStep ==
    TypeInv /\ [Next]_vars
        => \A k \in Key : methods[k] # Unbound => methods'[k] \in {methods[k], Unbound}
<1> SUFFICES ASSUME TypeInv, [Next]_vars, NEW k \in Key, methods[k] # Unbound
             PROVE  methods'[k] \in {methods[k], Unbound}
  OBVIOUS
<1>0. TypeOK
  BY DEF TypeInv
<1>1. ASSUME NEW n \in NodeId, DeleteNode(n) PROVE methods'[k] \in {methods[k], Unbound}
  BY <1>1 DEF DeleteNode
<1>2. ASSUME NEW c \in Client, BindMethod(c) PROVE methods'[k] \in {methods[k], Unbound}
  BY <1>0, <1>2 DEF BindMethod, Bindable, TypeOK
<1>3. ASSUME NEW c \in Client, RemoveDelete(c) PROVE methods'[k] \in {methods[k], Unbound}
  BY <1>0, <1>3 DEF RemoveDelete, TypeOK
<1>4. ASSUME UNCHANGED methods PROVE methods'[k] \in {methods[k], Unbound}
  BY <1>4
<1> QED
  BY <1>1, <1>2, <1>3, <1>4
     DEF Next, vars, CreateNode, RegisterFind, RegisterNode, AddRead, AddFind,
         RemoveCount, LoginFind, SessionCheck, CreateRead, SessionInsert, SessionRead,
         SessionSettle, DeleteSession, DeleteNodeSessions, EndSessions, Tick, Abort

\* Two requests that both found a credential free bind it once: the second
\* insert fails, and a bound credential is only ever released.
THEOREM KeyStaysWithNode == Spec => CredentialNeverMoves
  BY TypeInit, TypeNext, KeyStep, PTL DEF Spec, CredentialNeverMoves
=============================================================================
