--------------------------- MODULE ServiceProofs ----------------------------
(***************************************************************************)
(* For any connections, ports and number of handlers, whatever requests    *)
(* are under way together: the sessions are well formed, the handlers      *)
(* implement Sessions with a port for a party, and a connection that has   *)
(* its port to itself has its session to itself.                           *)
(***************************************************************************)
EXTENDS ServiceHistory, TLAPS

USE NoneAssumption, NoEngineAssumption

LEMMA InitWellFormed == Init => TypeOK /\ Linked
  <1> SUFFICES ASSUME Init PROVE TypeOK /\ Linked
    OBVIOUS
  <1>1. TypeOK
    BY DEF Init, TypeOK, PC
  <1>2. Linked
    BY DEF Init, Linked
  <1> QED
    BY <1>1, <1>2

\* The peer of a request has a port, and a request is one of the six.
LEMMA Peer ==
    ASSUME TypeOK, Linked, NEW k \in Call, pc[k] # "idle"
    PROVE  /\ conn[k] \in Conn
           /\ GetConnID(k) \in Port
           /\ req[k].op \in DataOp \cup {"CONNECT", "CLOSE"}
  BY DEF TypeOK, Linked, GetConnID, Request

\* An answer ends the handler and leaves the connections alone.
LEMMA ReturnType ==
    ASSUME TypeOK, Linked, NEW k \in Call, pc[k] # "idle",
           NEW c \in {0, 1, 404}, NEW e \in Engine \cup {NoEngine}, Return(k, c, e),
           sessionMap' \in [Port -> Engine \cup {NoEngine}]
    PROVE  TypeOK' /\ Linked'
  <1>1. conn[k] \in Conn /\ req[k].op \in DataOp \cup {"CONNECT", "CLOSE"}
    BY Peer
  <1>2. TypeOK'
    BY <1>1 DEF TypeOK, Return, PC, netVars
  <1>3. Linked'
    BY DEF TypeOK, Linked, Return, netVars
  <1> QED
    BY <1>2, <1>3

\* Every action keeps the types, and a handler its connection's port.
LEMMA WellFormedStep ==
    ASSUME TypeOK, Linked, [Next]_vars
    PROVE  TypeOK' /\ Linked'
  <1>1. CASE UNCHANGED vars \/ Rest
    BY <1>1 DEF Rest, TypeOK, Linked, vars, netVars, callVars
  <1>2. ASSUME NEW n \in Conn, NEW p \in Port, Open(n, p)
        PROVE  TypeOK' /\ Linked'
    BY <1>2 DEF Open, TypeOK, Linked, callVars
  <1>3. ASSUME NEW n \in Conn, HangUp(n)
        PROVE  TypeOK' /\ Linked'
    BY <1>3 DEF HangUp, TypeOK, Linked, callVars
  <1>4. ASSUME NEW k \in Call, NEW n \in Conn, NEW r \in Request, Ask(k, n, r)
        PROVE  TypeOK' /\ Linked'
    BY <1>4 DEF Ask, TypeOK, Linked, PC, netVars
  <1>5. ASSUME NEW k \in Call, Connect(k)
        PROVE  TypeOK' /\ Linked'
    <2>1. pc[k] # "idle"
      BY <1>5 DEF Connect
    <2>2. sessionMap' \in [Port -> Engine \cup {NoEngine}]
      BY <1>5 DEF Connect, IsValidType, TypeOK
    <2>3. Return(k, 1, NoEngine) \/ Return(k, 0, NoEngine)
      BY <1>5 DEF Connect
    <2> QED
      BY <2>1, <2>2, <2>3, ReturnType
  <1>6. ASSUME NEW k \in Call, GetSessionStoreType(k)
        PROVE  TypeOK' /\ Linked'
    <2>1. pc[k] = "begin" /\ req[k].op = "CLOSE" /\ UNCHANGED sessionMap
      BY <1>6 DEF GetSessionStoreType
    <2>2. CASE Return(k, 0, NoEngine)
      BY <2>1, <2>2, ReturnType DEF TypeOK
    <2>3. CASE /\ pc' = [pc EXCEPT ![k] = "delete"]
               /\ UNCHANGED <<netVars, conn, req, store, reply>>
      BY <2>1, <2>3 DEF TypeOK, Linked, PC, netVars
    <2> QED
      BY <1>6, <2>2, <2>3 DEF GetSessionStoreType
  <1>7. ASSUME NEW k \in Call, DelSessionStoreType(k)
        PROVE  TypeOK' /\ Linked'
    <2>1. pc[k] = "delete" /\ Return(k, 1, NoEngine)
      BY <1>7 DEF DelSessionStoreType
    <2>2. sessionMap' \in [Port -> Engine \cup {NoEngine}]
      BY <1>7 DEF DelSessionStoreType, TypeOK
    <2> QED
      BY <2>1, <2>2, ReturnType
  <1>8. ASSUME NEW k \in Call, GetStore(k)
        PROVE  TypeOK' /\ Linked'
    <2>1. pc[k] = "begin" /\ req[k].op \in DataOp /\ UNCHANGED sessionMap
      BY <1>8 DEF GetStore
    <2>2. CASE Return(k, 0, NoEngine)
      BY <2>1, <2>2, ReturnType DEF TypeOK
    <2>3. CASE /\ store' = [store EXCEPT ![k] = sessionMap[GetConnID(k)]]
               /\ pc' = [pc EXCEPT ![k] = "store"]
               /\ UNCHANGED <<netVars, conn, req, reply>>
      <3>1. sessionMap[GetConnID(k)] \in Engine \cup {NoEngine}
        BY <2>1, Peer DEF TypeOK
      <3> QED
        BY <2>1, <2>3, <3>1 DEF TypeOK, Linked, PC, netVars
    <2> QED
      BY <1>8, <2>2, <2>3 DEF GetStore
  <1>9. ASSUME NEW k \in Call, CallStore(k)
        PROVE  TypeOK' /\ Linked'
    <2>1. pc[k] = "store" /\ UNCHANGED sessionMap
      BY <1>9 DEF CallStore
    <2>2. PICK c \in Codes(req[k].op) : Return(k, c, store[k])
      BY <1>9 DEF CallStore
    <2>3. c \in {0, 1, 404}
      BY DEF Codes
    <2> QED
      BY <2>1, <2>2, <2>3, ReturnType DEF TypeOK
  <1> QED
    BY <1>1, <1>2, <1>3, <1>4, <1>5, <1>6, <1>7, <1>8, <1>9 DEF Next, Handle

\* The types hold whatever the ports and however clients ask: no session is of an
\* invalid type, which is what the default case of GetStore is there for.
THEOREM ServiceTypeOK == Spec => []TypeOK
  <1>1. Init => TypeOK /\ Linked
    BY InitWellFormed
  <1>2. TypeOK /\ Linked /\ [Next]_vars => (TypeOK /\ Linked)'
    BY WellFormedStep
  <1> QED
    BY <1>1, <1>2, PTL DEF Spec

----------------------------------------------------------------------------
(* What a handler has seen *)

\* The sessions of its port since the request was asked: the one of now, the one that
\* GetStore returned, and one for a Disconnect that goes on to its second half.
SeenOK ==
    /\ seen \in [Call -> SUBSET (Engine \cup {NoEngine})]
    /\ \A k \in Call : pc[k] = "idle" => seen[k] = {} /\ req[k] = NoRequest
    /\ \A k \in Call : pc[k] # "idle" => sessionMap[GetConnID(k)] \in seen[k]
    /\ \A k \in Call : pc[k] = "store" => store[k] \in seen[k] \cap Engine
    /\ \A k \in Call : pc[k] = "delete" => seen[k] \cap Engine # {}

\* A session is of a connection's port, and an answer is to a connection that has one.
Owned ==
    /\ \A p \in Port : sessionMap[p] # NoEngine => \E n \in Conn : port[n] = p
    /\ reply.conn # NoConn => port[reply.conn] # NoPort

IInv == TypeOK /\ Linked /\ SeenOK /\ Owned

\* What a step does to a handler that is at work after it.
Goes(l) ==
    /\ pc'[l] # "idle" /\ pc[l] # "idle" =>
         conn'[l] = conn[l] /\ req'[l] = req[l] /\ port'[conn[l]] = port[conn[l]]
    /\ pc'[l] = "idle" /\ pc[l] = "idle" => req'[l] = req[l]
    /\ pc'[l] = "idle" /\ pc[l] # "idle" => req'[l] = NoRequest
    /\ pc'[l] = "store" => \/ pc[l] = "store" /\ store'[l] = store[l]
                           \/ pc[l] = "begin" /\ store'[l] = sessionMap[GetConnID(l)]
                                              /\ store'[l] # NoEngine
    /\ pc'[l] = "delete" => \/ pc[l] = "delete"
                            \/ pc[l] = "begin" /\ sessionMap[GetConnID(l)] # NoEngine

\* Who writes the map, and who answers.
Writes ==
    /\ \A p \in Port : sessionMap'[p] # sessionMap[p] =>
         \E k \in Call : /\ pc[k] # "idle" /\ p = GetConnID(k)
                         /\ req[k].op \in {"CONNECT", "CLOSE"}
                         /\ conn'[k] = NoConn
    /\ reply' # reply => \E k \in Call : pc[k] # "idle" /\ reply'.conn = conn[k]
    /\ \A n \in Conn : port[n] # NoPort => port'[n] = port[n]

\* The answer of handler k, which may write the session of its port.
LEMMA ReturnGoes ==
    ASSUME TypeOK, Linked, NEW k \in Call, pc[k] # "idle", NEW c, NEW e, Return(k, c, e),
           \/ UNCHANGED sessionMap
           \/ /\ req[k].op \in {"CONNECT", "CLOSE"}
              /\ \E x : sessionMap' = [sessionMap EXCEPT ![GetConnID(k)] = x]
    PROVE  (\A l \in Call : Goes(l)) /\ Writes
  <1>1. /\ pc' = [pc EXCEPT ![k] = "idle"]
        /\ conn' = [conn EXCEPT ![k] = NoConn]
        /\ req' = [req EXCEPT ![k] = NoRequest]
        /\ store' = [store EXCEPT ![k] = NoEngine]
        /\ reply'.conn = conn[k]
        /\ UNCHANGED port
    BY DEF Return, netVars
  <1>2. \A l \in Call : Goes(l)
    BY <1>1 DEF Goes, TypeOK
  <1>3. \A p \in Port : sessionMap'[p] # sessionMap[p] =>
           p = GetConnID(k) /\ req[k].op \in {"CONNECT", "CLOSE"}
    BY DEF TypeOK
  <1>4. conn'[k] = NoConn
    BY <1>1 DEF TypeOK
  <1> QED
    BY <1>1, <1>2, <1>3, <1>4 DEF Writes

\* A handler goes on to its second half.
LEMMA HalfGoes ==
    ASSUME TypeOK, Linked, NEW k \in Call, pc[k] = "begin", sessionMap[GetConnID(k)] # NoEngine,
           UNCHANGED <<netVars, sessionMap, conn, req, reply>>,
           \/ pc' = [pc EXCEPT ![k] = "delete"] /\ UNCHANGED store
           \/ /\ pc' = [pc EXCEPT ![k] = "store"]
              /\ store' = [store EXCEPT ![k] = sessionMap[GetConnID(k)]]
    PROVE  (\A l \in Call : Goes(l)) /\ Writes
  <1>1. \A l \in Call : Goes(l)
    BY DEF Goes, TypeOK, netVars
  <1>2. Writes
    BY DEF Writes, netVars
  <1> QED
    BY <1>1, <1>2

LEMMA Effects ==
    ASSUME TypeOK, Linked, [Next]_vars
    PROVE  (\A l \in Call : Goes(l)) /\ Writes
  <1>1. CASE UNCHANGED vars \/ Rest
    BY <1>1 DEF Rest, vars, netVars, callVars, Goes, Writes
  <1>2. ASSUME NEW n \in Conn, NEW p \in Port, Open(n, p)
        PROVE  (\A l \in Call : Goes(l)) /\ Writes
    <2>1. /\ port[n] = NoPort /\ \A m \in Conn : port[m] # NoPort => port'[m] = port[m]
          /\ UNCHANGED <<sessionMap, callVars>>
      BY <1>2 DEF Open, TypeOK
    <2>2. \A l \in Call : pc[l] # "idle" => port'[conn[l]] = port[conn[l]]
      BY <2>1 DEF TypeOK, Linked
    <2> QED
      BY <2>1, <2>2 DEF Goes, Writes, callVars
  <1>3. ASSUME NEW n \in Conn, HangUp(n)
        PROVE  (\A l \in Call : Goes(l)) /\ Writes
    BY <1>3 DEF HangUp, callVars, Goes, Writes
  <1>4. ASSUME NEW k \in Call, NEW n \in Conn, NEW r \in Request, Ask(k, n, r)
        PROVE  (\A l \in Call : Goes(l)) /\ Writes
    <2>1. \A l \in Call : Goes(l)
      BY <1>4 DEF Ask, TypeOK, netVars, Goes
    <2>2. Writes
      BY <1>4 DEF Ask, netVars, Writes
    <2> QED
      BY <2>1, <2>2
  <1>5. ASSUME NEW k \in Call, Connect(k)
        PROVE  (\A l \in Call : Goes(l)) /\ Writes
    BY <1>5, ReturnGoes DEF Connect
  <1>6. ASSUME NEW k \in Call, GetSessionStoreType(k)
        PROVE  (\A l \in Call : Goes(l)) /\ Writes
    BY <1>6, ReturnGoes, HalfGoes DEF GetSessionStoreType
  <1>7. ASSUME NEW k \in Call, DelSessionStoreType(k)
        PROVE  (\A l \in Call : Goes(l)) /\ Writes
    <2>1. req[k].op = "CLOSE" /\ pc[k] # "idle"
      BY <1>7 DEF DelSessionStoreType, Linked
    <2> QED
      BY <1>7, <2>1, ReturnGoes DEF DelSessionStoreType
  <1>8. ASSUME NEW k \in Call, GetStore(k)
        PROVE  (\A l \in Call : Goes(l)) /\ Writes
    BY <1>8, ReturnGoes, HalfGoes DEF GetStore
  <1>9. ASSUME NEW k \in Call, CallStore(k)
        PROVE  (\A l \in Call : Goes(l)) /\ Writes
    BY <1>9, ReturnGoes DEF CallStore
  <1> QED
    BY <1>1, <1>2, <1>3, <1>4, <1>5, <1>6, <1>7, <1>8, <1>9 DEF Next, Handle

\* The record of a step.
Records == seen' = [k \in Call |-> IF pc'[k] = "idle" THEN {}
                                   ELSE seen[k] \cup {sessionMap'[port'[conn'[k]]]}]

LEMMA SeenStep ==
    ASSUME TypeOK, Linked, SeenOK, TypeOK', Linked', Records, \A l \in Call : Goes(l)
    PROVE  SeenOK'
  <1>1. \A l \in Call : pc'[l] # "idle" => GetConnID(l)' \in Port
    BY DEF TypeOK, Linked, GetConnID
  <1>2. \A l \in Call : pc'[l] # "idle" => sessionMap'[GetConnID(l)'] \in Engine \cup {NoEngine}
    BY <1>1 DEF TypeOK
  <1>3. seen' \in [Call -> SUBSET (Engine \cup {NoEngine})]
    BY <1>2 DEF SeenOK, Records, GetConnID
  <1>4. \A l \in Call : pc'[l] = "idle" => seen'[l] = {} /\ req'[l] = NoRequest
    BY DEF SeenOK, Records, Goes
  <1>5. \A l \in Call : pc'[l] # "idle" =>
           /\ seen[l] \subseteq seen'[l]
           /\ sessionMap'[GetConnID(l)'] \in seen'[l]
    BY DEF Records, GetConnID
  <1>6. \A l \in Call : pc[l] = "begin" =>
           sessionMap[GetConnID(l)] \in seen[l] /\ sessionMap[GetConnID(l)] \in Engine \cup {NoEngine}
    BY Peer DEF SeenOK, TypeOK
  <1>7. \A l \in Call : pc'[l] = "store" => store'[l] \in seen'[l] \cap Engine
    BY <1>5, <1>6 DEF SeenOK, Goes
  <1>8. \A l \in Call : pc'[l] = "delete" => seen'[l] \cap Engine # {}
    <2> SUFFICES ASSUME NEW l \in Call, pc'[l] = "delete"
                 PROVE  seen'[l] \cap Engine # {}
      OBVIOUS
    <2>1. seen[l] \cap Engine # {}
      BY <1>6 DEF SeenOK, Goes
    <2> QED
      BY <1>5, <2>1
  <1> QED
    BY <1>3, <1>4, <1>5, <1>7, <1>8 DEF SeenOK

LEMMA OwnedStep ==
    ASSUME TypeOK, Linked, Owned, Writes
    PROVE  Owned'
  <1>1. \A p \in Port : sessionMap'[p] # NoEngine => \E n \in Conn : port[n] = p
    <2> SUFFICES ASSUME NEW p \in Port, sessionMap'[p] # NoEngine
                 PROVE  \E n \in Conn : port[n] = p
      OBVIOUS
    <2>1. CASE sessionMap'[p] = sessionMap[p]
      BY <2>1 DEF Owned
    <2>2. CASE sessionMap'[p] # sessionMap[p]
      BY <2>2, Peer DEF Writes, GetConnID
    <2> QED
      BY <2>1, <2>2
  <1>2. \A p \in Port : sessionMap'[p] # NoEngine => \E n \in Conn : port'[n] = p
    BY <1>1 DEF Writes
  <1>3. reply'.conn # NoConn => reply'.conn \in Conn /\ port[reply'.conn] # NoPort
    BY Peer DEF TypeOK, Linked, Owned, Writes
  <1> QED
    BY <1>2, <1>3 DEF Owned, Writes

\* The inductive invariant of the service.
THEOREM ServiceInvariant == HSpec => []IInv
  <1>1. HInit => IInv
    <2> SUFFICES ASSUME HInit PROVE IInv
      OBVIOUS
    <2>1. TypeOK /\ Linked
      BY InitWellFormed DEF HInit
    <2>2. SeenOK /\ Owned
      BY DEF HInit, Init, SeenOK, Owned
    <2> QED
      BY <2>1, <2>2 DEF IInv
  <1>2. IInv /\ [HNext]_historyVars => IInv'
    <2> SUFFICES ASSUME IInv, [HNext]_historyVars PROVE IInv'
      OBVIOUS
    <2>1. CASE HNext
      <3>1. TypeOK' /\ Linked'
        BY <2>1, WellFormedStep DEF IInv, HNext
      <3>2. (\A l \in Call : Goes(l)) /\ Writes
        BY <2>1, Effects DEF IInv, HNext
      <3>3. Records
        BY <2>1 DEF HNext, Records
      <3>4. SeenOK'
        BY <3>1, <3>2, <3>3, SeenStep DEF IInv
      <3> QED
        BY <3>1, <3>2, <3>4, OwnedStep DEF IInv
    <2>2. CASE UNCHANGED historyVars
      BY <2>2 DEF IInv, TypeOK, Linked, SeenOK, Owned, GetConnID, historyVars, vars, netVars, callVars
    <2> QED
      BY <2>1, <2>2
  <1> QED
    BY <1>1, <1>2, PTL DEF HSpec

----------------------------------------------------------------------------
(* A connection with a port of its own *)

\* GetConnID, UpdateMap and DelSessionStoreType: a port that only one connection has
\* starts without a session, and no handler of another connection writes its entry.
THEOREM SessionsAreOwn == HSpec => SessionIsOwn
  <1> DEFINE A == \A n \in Conn : HasOwnPort(n)' /\ SessionOf(n)' # SessionOf(n) =>
                    \E k \in Call : /\ conn[k] = n /\ conn'[k] = NoConn
                                    /\ req[k].op \in {"CONNECT", "CLOSE"}
  <1>1. ASSUME IInv, Next, NEW n \in Conn, HasOwnPort(n)', SessionOf(n)' # SessionOf(n)
        PROVE  \E k \in Call : /\ conn[k] = n /\ conn'[k] = NoConn
                               /\ req[k].op \in {"CONNECT", "CLOSE"}
    <2>1. Writes
      BY <1>1, Effects DEF IInv
    <2>2. /\ port'[n] # NoPort
          /\ \A m \in Conn : m # n => port'[m] # port'[n]
          /\ SessionOf(n)' = sessionMap'[port'[n]]
      BY <1>1 DEF HasOwnPort, SessionOf
    <2>3. \A m \in Conn : port[m] = port'[n] => m = n
      BY <2>1, <2>2 DEF Writes
    <2>4. port'[n] \in Port /\ TypeOK /\ Linked /\ Owned
      BY <1>1, <2>2, WellFormedStep DEF IInv, TypeOK
    <2>5. sessionMap'[port'[n]] # sessionMap[port'[n]]
      <3>1. CASE port[n] = NoPort
        <4>1. sessionMap[port'[n]] = NoEngine
          BY <2>2, <2>3, <2>4, <3>1 DEF Owned
        <4> QED
          BY <1>1, <2>2, <3>1, <4>1 DEF SessionOf
      <3>2. CASE port[n] # NoPort
        BY <1>1, <2>1, <2>2, <3>2 DEF SessionOf, Writes
      <3> QED
        BY <3>1, <3>2
    <2>6. PICK k \in Call : /\ pc[k] # "idle" /\ port'[n] = GetConnID(k)
                            /\ req[k].op \in {"CONNECT", "CLOSE"}
                            /\ conn'[k] = NoConn
      BY <2>1, <2>4, <2>5 DEF Writes
    <2>7. conn[k] = n
      BY <2>3, <2>4, <2>6, Peer DEF GetConnID
    <2> QED
      BY <2>6, <2>7
  <1>2. IInv /\ [HNext]_historyVars => [A]_historyVars
    BY <1>1 DEF HNext
  <1>3. IInv /\ [HNext]_historyVars =>
          [\A n \in Conn : HasOwnPort(n)' /\ SessionOf(n)' # SessionOf(n) =>
             \E k \in Call : /\ conn[k] = n /\ conn'[k] = NoConn
                             /\ req[k].op \in {"CONNECT", "CLOSE"}]_historyVars
    BY <1>2
  <1> QED
    BY <1>3, ServiceInvariant, PTL DEF HSpec, SessionIsOwn

----------------------------------------------------------------------------
(* The handlers implement Sessions *)

pendingOf(k) == [party |-> PortOf(conn[k]), req |-> req[k], seen |-> seen[k]]
absPending == [k \in Call |-> pendingOf(k)]
absReply == [party |-> PortOf(reply.conn), op |-> reply.op, code |-> reply.code, by |-> reply.by]

LEMMA Mapped ==
    ASSUME IInv, NEW k \in Call
    PROVE  /\ pc[k] = "idle" => pendingOf(k) = Abs!NothingPending
           /\ pc[k] # "idle" => /\ pendingOf(k).party = GetConnID(k) /\ GetConnID(k) \in Port
                                /\ pendingOf(k).req = req[k] /\ pendingOf(k).seen = seen[k]
                                /\ GetConnID(k) # NoPort
  <1>1. pc[k] = "idle" => pendingOf(k) = Abs!NothingPending
    BY DEF IInv, Linked, SeenOK, pendingOf, PortOf, NoRequest, Abs!NothingPending
  <1>2. pc[k] # "idle" => pendingOf(k).party = GetConnID(k) /\ GetConnID(k) \in Port
    BY Peer DEF IInv, Linked, pendingOf, PortOf, GetConnID
  <1> QED
    BY <1>1, <1>2 DEF pendingOf

\* A handler that neither begins nor ends, where the sessions stay.
LEMMA Unseen ==
    ASSUME IInv, Records, UNCHANGED sessionMap, NEW l \in Call, Goes(l),
           pc[l] = "idle" <=> pc'[l] = "idle", conn'[l] = conn[l]
    PROVE  pendingOf(l)' = pendingOf(l)
  <1>1. req'[l] = req[l]
    BY DEF Goes
  <1>2. PortOf(conn[l])' = PortOf(conn[l])
    BY DEF PortOf, Goes, IInv, Linked
  <1>3. seen'[l] = seen[l]
    BY DEF Goes, Records, IInv, SeenOK, GetConnID
  <1> QED
    BY <1>1, <1>2, <1>3 DEF pendingOf

LEMMA Stutters ==
    ASSUME IInv, Records, UNCHANGED <<sessionMap, reply>>, Writes,
           \A l \in Call : Goes(l) /\ conn'[l] = conn[l] /\ (pc[l] = "idle" <=> pc'[l] = "idle")
    PROVE  UNCHANGED <<sessionMap, absPending, absReply>>
  <1>1. absPending' = absPending
    BY Unseen DEF absPending
  <1>2. PortOf(reply.conn)' = PortOf(reply.conn)
    BY DEF PortOf, IInv, Owned, TypeOK, Writes
  <1> QED
    BY <1>1, <1>2 DEF absReply

\* An answer: the other handlers of the port see the session that it leaves.
LEMMA Answers ==
    ASSUME IInv, IInv', Records, \A l \in Call : Goes(l), NEW k \in Call, pc[k] # "idle",
           NEW c, NEW e, Return(k, c, e),
           \A p \in Port : p # GetConnID(k) => sessionMap'[p] = sessionMap[p]
    PROVE  /\ absReply' = [party |-> absPending[k].party, op |-> absPending[k].req.op,
                           code |-> c, by |-> e]
           /\ absPending' = [l \in Call |->
                IF l = k THEN Abs!NothingPending
                ELSE IF absPending[l].party = absPending[k].party
                     THEN [absPending[l] EXCEPT !.seen = @ \cup {sessionMap'[absPending[k].party]}]
                     ELSE absPending[l]]
  <1>1. /\ absPending[k].party = GetConnID(k) /\ absPending[k].req = req[k]
        /\ GetConnID(k) \in Port /\ GetConnID(k) # NoPort
    BY Mapped DEF absPending
  <1>2. /\ reply' = [conn |-> conn[k], op |-> req[k].op, code |-> c, by |-> e]
        /\ pc' = [pc EXCEPT ![k] = "idle"] /\ conn' = [conn EXCEPT ![k] = NoConn]
        /\ req' = [req EXCEPT ![k] = NoRequest] /\ UNCHANGED port
    BY DEF Return, netVars
  <1>3. absReply' = [party |-> GetConnID(k), op |-> req[k].op, code |-> c, by |-> e]
    BY <1>1, <1>2 DEF absReply, PortOf, GetConnID, IInv, Linked
  <1>4. pc'[k] = "idle" /\ pendingOf(k)' = Abs!NothingPending
    <2>1. pc'[k] = "idle"
      BY <1>2 DEF IInv, TypeOK
    <2>2. conn'[k] = NoConn /\ req'[k] = NoRequest /\ seen'[k] = {}
      BY <1>2, <2>1 DEF IInv, TypeOK, Records
    <2> QED
      BY <2>1, <2>2 DEF pendingOf, PortOf, NoRequest, Abs!NothingPending
  <1>5. ASSUME NEW l \in Call, l # k
        PROVE  pendingOf(l)' = IF pendingOf(l).party = GetConnID(k)
                                 THEN [pendingOf(l) EXCEPT !.seen = @ \cup {sessionMap'[GetConnID(k)]}]
                                 ELSE pendingOf(l)
    <2>1. pc'[l] = pc[l] /\ conn'[l] = conn[l] /\ req'[l] = req[l]
      BY <1>2, <1>5 DEF IInv, TypeOK
    <2>2. PortOf(conn[l])' = PortOf(conn[l])
      BY <1>2, <2>1 DEF PortOf
    <2>3. CASE pc[l] = "idle"
      <3>1. seen'[l] = seen[l] /\ pendingOf(l).party = NoPort
        BY <2>1, <2>3 DEF Records, IInv, SeenOK, Linked, pendingOf, PortOf
      <3> QED
        BY <1>1, <2>1, <2>2, <3>1 DEF pendingOf
    <2>4. CASE pc[l] # "idle"
      <3>1. seen'[l] = seen[l] \cup {sessionMap'[GetConnID(l)]}
        BY <1>2, <2>1, <2>4 DEF Records, GetConnID
      <3>2. /\ pendingOf(l).party = GetConnID(l) /\ GetConnID(l) \in Port
            /\ sessionMap[GetConnID(l)] \in seen[l]
        BY <2>4, Mapped DEF IInv, SeenOK
      <3>3. pendingOf(l)' = [party |-> PortOf(conn[l]), req |-> req[l], seen |-> seen'[l]]
        BY <2>1, <2>2 DEF pendingOf
      <3>4. CASE GetConnID(l) = GetConnID(k)
        BY <3>1, <3>2, <3>3, <3>4 DEF pendingOf
      <3>5. CASE GetConnID(l) # GetConnID(k)
        <4>1. seen'[l] = seen[l]
          BY <3>1, <3>2, <3>5
        <4> QED
          BY <3>2, <3>3, <3>5, <4>1 DEF pendingOf
      <3> QED
        BY <3>4, <3>5
    <2> QED
      BY <2>3, <2>4
  <1>6. \A l \in Call : absPending[l] = pendingOf(l)
    BY DEF absPending
  <1>7. absPending' = [l \in Call |-> pendingOf(l)']
    BY DEF absPending
  <1>8. absPending' = [l \in Call |->
          IF l = k THEN Abs!NothingPending
          ELSE IF absPending[l].party = GetConnID(k)
               THEN [absPending[l] EXCEPT !.seen = @ \cup {sessionMap'[GetConnID(k)]}]
               ELSE absPending[l]]
    BY <1>4, <1>5, <1>6, <1>7
  <1> QED
    BY <1>1, <1>3, <1>8

\* An answered request is a step of Sessions, and so is a question; everything else is
\* invisible there.
LEMMA SessionStep ==
    ASSUME IInv, IInv', [HNext]_historyVars
    PROVE  [Abs!Next]_<<sessionMap, absPending, absReply>>
  <1> USE DEF IInv
  <1>1. CASE UNCHANGED historyVars
    BY <1>1 DEF historyVars, vars, netVars, callVars, absPending, pendingOf, absReply, PortOf
  <1>2. ASSUME HNext
        PROVE  [Abs!Next]_<<sessionMap, absPending, absReply>>
    <2>1. /\ \A l \in Call : Goes(l)
          /\ Writes
          /\ Records
      BY <1>2, Effects DEF HNext, Records
    <2>2. ASSUME UNCHANGED <<sessionMap, reply>>,
                 \A l \in Call : conn'[l] = conn[l] /\ (pc[l] = "idle" <=> pc'[l] = "idle")
          PROVE  UNCHANGED <<sessionMap, absPending, absReply>>
      BY <2>1, <2>2, Stutters
    <2>3. CASE Rest
      BY <2>2, <2>3 DEF Rest, vars, callVars
    <2>4. ASSUME NEW n \in Conn, NEW p \in Port, Open(n, p)
          PROVE  UNCHANGED <<sessionMap, absPending, absReply>>
      BY <2>2, <2>4 DEF Open, callVars
    <2>5. ASSUME NEW n \in Conn, HangUp(n)
          PROVE  UNCHANGED <<sessionMap, absPending, absReply>>
      BY <2>2, <2>5 DEF HangUp, callVars
    <2>6. ASSUME NEW k \in Call, NEW n \in Conn, NEW r \in Request, Ask(k, n, r)
          PROVE  \E p \in Port, q \in Abs!Request : Abs!Ask(k, p, q)
      <3>1. /\ pc[k] = "idle" /\ n \in open /\ port[n] \in Port
            /\ pc' = [pc EXCEPT ![k] = "begin"]
            /\ conn' = [conn EXCEPT ![k] = n]
            /\ req' = [req EXCEPT ![k] = r]
            /\ UNCHANGED <<port, sessionMap, reply>>
        BY <2>6 DEF Ask, netVars, TypeOK, Linked
      <3>2. r \in Abs!Request
        BY <2>6 DEF Request, Abs!Request, Type, DataOp, Abs!DataOp, Engine, Abs!Engine
      <3>3. absPending[k] = Abs!NothingPending
        BY <3>1, Mapped DEF absPending
      <3>4. pendingOf(k)' = [party |-> port[n], req |-> r, seen |-> {sessionMap[port[n]]}]
        <4>1. pc'[k] = "begin" /\ conn'[k] = n /\ req'[k] = r /\ seen[k] = {}
          BY <3>1 DEF TypeOK, SeenOK
        <4>2. seen'[k] = {sessionMap[port[n]]}
          BY <2>1, <3>1, <4>1 DEF Records
        <4> QED
          BY <3>1, <4>1, <4>2 DEF pendingOf, PortOf
      <3>5. \A l \in Call : l # k => pendingOf(l)' = pendingOf(l)
        <4> SUFFICES ASSUME NEW l \in Call, l # k
                     PROVE  pendingOf(l)' = pendingOf(l)
          OBVIOUS
        <4>1. pc'[l] = pc[l] /\ conn'[l] = conn[l]
          BY <3>1 DEF TypeOK
        <4> QED
          BY <2>1, <3>1, <4>1, Unseen
      <3>6. absPending' = [absPending EXCEPT ![k] =
                             [party |-> port[n], req |-> r, seen |-> {sessionMap[port[n]]}]]
        BY <3>4, <3>5 DEF absPending
      <3>7. absReply' = absReply
        BY <3>1 DEF absReply, PortOf
      <3> QED
        BY <3>1, <3>2, <3>3, <3>6, <3>7 DEF Abs!Ask, absPending, absReply, pendingOf
    \* An answer that leaves the map alone, and one that writes it.
    <2>7. ASSUME NEW k \in Call, pc[k] # "idle", NEW c, NEW e, Return(k, c, e),
                 \A p \in Port : p # GetConnID(k) => sessionMap'[p] = sessionMap[p]
          PROVE  /\ absPending[k].party = GetConnID(k) /\ absPending[k].req = req[k]
                 /\ absPending[k].seen = seen[k]
                 /\ Abs!Answer(k, c, e)
      <3>1. /\ absPending[k].party = GetConnID(k) /\ absPending[k].req = req[k]
            /\ absPending[k].seen = seen[k]
        BY <2>7, Mapped DEF absPending
      <3> QED
        BY <2>1, <2>7, <3>1, Answers, Zenon DEF Abs!Answer, absPending, absReply, pendingOf
    <2>8. ASSUME NEW k \in Call, pc[k] # "idle", NEW x,
                 sessionMap' = [sessionMap EXCEPT ![GetConnID(k)] = x]
          PROVE  \A p \in Port : p # GetConnID(k) => sessionMap'[p] = sessionMap[p]
      BY <2>8 DEF TypeOK
    <2>9. ASSUME NEW k \in Call, Connect(k)
          PROVE  Abs!Connect(k)
      <3>1. pc[k] # "idle" /\ req[k].op = "CONNECT"
        BY <2>9 DEF Connect
      <3>2. CASE req[k].type \in Engine
        <4>1. /\ sessionMap' = [sessionMap EXCEPT ![GetConnID(k)] = req[k].type]
              /\ Return(k, 1, NoEngine)
          BY <2>9, <3>2 DEF Connect, IsValidType
        <4>2. Abs!Answer(k, 1, NoEngine) /\ absPending[k].party = GetConnID(k) /\ absPending[k].req = req[k]
          BY <2>7, <2>8, <3>1, <4>1
        <4> QED
          BY <3>1, <3>2, <4>1, <4>2
          DEF Abs!Connect, Abs!SetSession, Abs!Engine, Engine, absPending, pendingOf
      <3>3. CASE req[k].type \notin Engine
        <4>1. UNCHANGED sessionMap /\ Return(k, 0, NoEngine)
          BY <2>9, <3>3 DEF Connect, IsValidType
        <4>2. Abs!Answer(k, 0, NoEngine) /\ absPending[k].req = req[k]
          BY <2>7, <3>1, <4>1
        <4> QED
          BY <3>1, <3>3, <4>1, <4>2 DEF Abs!Connect, Abs!Engine, Engine, absPending, pendingOf
      <3> QED
        BY <3>2, <3>3
    <2>10. ASSUME NEW k \in Call, pc[k] = "begin", req[k].op \in DataOp \cup {"CLOSE"},
                  sessionMap[GetConnID(k)] = NoEngine, UNCHANGED sessionMap,
                  Return(k, 0, NoEngine)
           PROVE  Abs!Refuse(k)
      <3>1. Abs!Answer(k, 0, NoEngine) /\ absPending[k].req = req[k] /\ absPending[k].seen = seen[k]
        BY <2>7, <2>10
      <3>2. NoEngine \in seen[k]
        BY <2>10 DEF SeenOK
      <3> QED
        BY <2>10, <3>1, <3>2 DEF Abs!Refuse, Abs!DataOp, DataOp, absPending, pendingOf
    <2>11. ASSUME NEW k \in Call, pc[k] = "begin", UNCHANGED <<sessionMap, reply, conn>>,
                  pc' = [pc EXCEPT ![k] = "delete"] \/ pc' = [pc EXCEPT ![k] = "store"]
           PROVE  UNCHANGED <<sessionMap, absPending, absReply>>
      <3>1. \A l \in Call : conn'[l] = conn[l] /\ (pc[l] = "idle" <=> pc'[l] = "idle")
        BY <2>11 DEF TypeOK
      <3> QED
        BY <2>2, <2>11, <3>1
    <2>12. ASSUME NEW k \in Call, GetSessionStoreType(k)
           PROVE  Abs!Refuse(k) \/ UNCHANGED <<sessionMap, absPending, absReply>>
      BY <2>10, <2>11, <2>12 DEF GetSessionStoreType
    <2>13. ASSUME NEW k \in Call, DelSessionStoreType(k)
           PROVE  Abs!Close(k)
      <3>1. /\ pc[k] = "delete" /\ req[k].op = "CLOSE"
            /\ sessionMap' = [sessionMap EXCEPT ![GetConnID(k)] = NoEngine]
            /\ Return(k, 1, NoEngine)
        BY <2>13 DEF DelSessionStoreType, Linked
      <3>2. /\ Abs!Answer(k, 1, NoEngine) /\ absPending[k].party = GetConnID(k)
            /\ absPending[k].req = req[k] /\ absPending[k].seen = seen[k]
        BY <2>7, <2>8, <3>1
      <3>3. seen[k] \cap Engine # {}
        BY <3>1 DEF SeenOK
      <3> QED
        BY <3>1, <3>2, <3>3
        DEF Abs!Close, Abs!SetSession, Abs!Engine, Engine, absPending, pendingOf
    <2>14. ASSUME NEW k \in Call, GetStore(k)
           PROVE  Abs!Refuse(k) \/ UNCHANGED <<sessionMap, absPending, absReply>>
      BY <2>10, <2>11, <2>14 DEF GetStore
    <2>15. ASSUME NEW k \in Call, CallStore(k)
           PROVE  Abs!Serve(k)
      <3>1. pc[k] = "store" /\ req[k].op \in DataOp /\ UNCHANGED sessionMap
        BY <2>15 DEF CallStore, Linked
      <3>2. PICK e \in seen[k] \cap Engine : e = store[k]
        BY <3>1 DEF SeenOK
      <3>3. PICK c \in {0, 1, 404} : Return(k, c, e)
        BY <2>15, <3>2 DEF CallStore, Codes
      <3>4. pc[k] # "idle" /\ \A p \in Port : p # GetConnID(k) => sessionMap'[p] = sessionMap[p]
        BY <3>1
      <3>5. Abs!Answer(k, c, e) /\ absPending[k].req = req[k] /\ absPending[k].seen = seen[k]
        BY <2>7, <3>3, <3>4
      <3>6. \E x \in absPending[k].seen \cap Engine, d \in {0, 1, 404} : Abs!Answer(k, d, x)
        <4>1. e \in absPending[k].seen \cap Engine /\ c \in {0, 1, 404}
          BY <3>2, <3>3, <3>5
        <4>2. Abs!Answer(k, c, e)
          BY <3>5
        <4> QED
          BY ONLY <4>1, <4>2, Zenon
      <3> QED
        BY <3>1, <3>5, <3>6, Zenon
        DEF Abs!Serve, Abs!DataOp, DataOp, Abs!Engine, Engine, absPending, pendingOf
    <2>16. Abs!Next \/ UNCHANGED <<sessionMap, absPending, absReply>>
      BY <1>2, <2>3, <2>4, <2>5, <2>6, <2>9, <2>12, <2>13, <2>14, <2>15
      DEF HNext, Next, Handle, Abs!Next
    <2> QED
      BY <2>16
  <1> QED
    BY <1>1, <1>2

\* service.go and serverUtils: whatever requests overlap, and whoever shares a port,
\* every request is answered from a session that its port had since it was asked.
THEOREM ServiceImplementsSessions == HSpec => IsSessions
  <1>1. HInit => Abs!Init
    <2> SUFFICES ASSUME HInit PROVE Abs!Init
      OBVIOUS
    <2>1. \A k \in Call : pendingOf(k) = Abs!NothingPending
      BY DEF HInit, Init, pendingOf, PortOf, NoRequest, Abs!NothingPending
    <2> QED
      BY <2>1 DEF HInit, Init, PortOf, pendingOf, Abs!Init
  <1>2. IInv /\ IInv' /\ [HNext]_historyVars =>
          [Abs!Next]_<<sessionMap,
                       [k \in Call |-> [party |-> PortOf(conn[k]), req |-> req[k], seen |-> seen[k]]],
                       [party |-> PortOf(reply.conn), op |-> reply.op, code |-> reply.code, by |-> reply.by]>>
    BY SessionStep DEF absPending, pendingOf, absReply
  <1> QED
    BY <1>1, <1>2, ServiceInvariant, PTL DEF HSpec, IsSessions, Abs!Spec
=============================================================================
