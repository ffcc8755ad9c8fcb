------------------------------ MODULE Service -------------------------------
(***************************************************************************)
(* The request handlers of service.go over the sessions of serverUtils.    *)
(* gRPC runs every handler in a goroutine, and one connection may have     *)
(* many requests under way.  A session is kept in sessionMap under the     *)
(* port of the peer's address (GetConnID) and says which store the         *)
(* requests of that port go to; each access to the map is one critical     *)
(* section of its mutex.  DISCONNECT has two, and the other requests call  *)
(* their store after the mutex is released.  What a handler does after its *)
(* last critical section, or after its store has answered, is local: the   *)
(* answer is given in that step.  Nothing removes a session but a CLOSE    *)
(* request.  GetConnID fails only without a peer in the context, which     *)
(* gRPC always provides, so its error return is left out.                  *)
(***************************************************************************)
EXTENDS Integers

CONSTANTS Conn,        \* connections of clients, open one after the other or together
          Port,        \* ports of their addresses
          Call,        \* handlers that run at the same time
          NoConn, NoPort, NoEngine

ASSUME NoneAssumption == NoConn \notin Conn /\ NoPort \notin Port

Engine == {"B", "BPLUS"}
ASSUME NoEngineAssumption == NoEngine \notin Engine

Type == Engine \cup {"other"}   \* the StoreType of a ConnectionRequest
DataOp == {"GET", "SET", "DEL", "EXIST"}
Request == [op : {"CONNECT"}, type : Type] \cup [op : DataOp \cup {"CLOSE"}, type : {"none"}]
NoRequest == [op |-> "none", type |-> "none"]
PC == {"idle", "begin", "delete", "store"}

VARIABLES port,        \* the port of a connection once it is open
          open,        \* connections whose client is still there
          sessionMap,  \* ServiceUtils::sessionMap
          pc,          \* where a handler is
          conn, req,   \* the connection its request came from, and the request
          store,       \* what GetStore returned
          reply        \* the last answer given; by is the store that gave it

netVars == <<port, open>>
callVars == <<pc, conn, req, store, reply>>
vars == <<netVars, sessionMap, callVars>>

Init ==
    /\ port = [n \in Conn |-> NoPort]
    /\ open = {}
    /\ sessionMap = [p \in Port |-> NoEngine]
    /\ pc = [k \in Call |-> "idle"]
    /\ conn = [k \in Call |-> NoConn]
    /\ req = [k \in Call |-> NoRequest]
    /\ store = [k \in Call |-> NoEngine]
    /\ reply = [conn |-> NoConn, op |-> "none", code |-> 0, by |-> NoEngine]

\* A client dials, or its channel reconnects by itself.  Ports of different hosts
\* may be equal and a port is used again after its connection has ended.
Open(n, p) ==
    /\ port[n] = NoPort
    /\ port' = [port EXCEPT ![n] = p]
    /\ open' = open \cup {n}
    /\ UNCHANGED <<sessionMap, callVars>>

\* The client exits or the network fails: the handlers are not told.
HangUp(n) ==
    /\ n \in open
    /\ open' = open \ {n}
    /\ UNCHANGED <<port, sessionMap, callVars>>

\* Any request, whatever the connection has under way: clients share a connection
\* among goroutines, as those of benchmark/boomer.go do.
Ask(k, n, r) ==
    /\ pc[k] = "idle"
    /\ n \in open
    /\ pc' = [pc EXCEPT ![k] = "begin"]
    /\ conn' = [conn EXCEPT ![k] = n]
    /\ req' = [req EXCEPT ![k] = r]
    /\ UNCHANGED <<netVars, sessionMap, store, reply>>

\* Fault: all sessions are one.
SomeID(k) == CHOOSE p \in Port : TRUE

GetConnID(k) == port[conn[k]]

\* The handler answers and ends.
Return(k, c, e) ==
    /\ reply' = [conn |-> conn[k], op |-> req[k].op, code |-> c, by |-> e]
    /\ pc' = [pc EXCEPT ![k] = "idle"]
    /\ conn' = [conn EXCEPT ![k] = NoConn]
    /\ req' = [req EXCEPT ![k] = NoRequest]
    /\ store' = [store EXCEPT ![k] = NoEngine]
    /\ UNCHANGED netVars

IsValidType(ty) == ty \in Engine

Connect(k) ==
    /\ pc[k] = "begin"
    /\ req[k].op = "CONNECT"
    /\ \/ /\ IsValidType(req[k].type)
          /\ sessionMap' = [sessionMap EXCEPT ![GetConnID(k)] = req[k].type]
          /\ Return(k, 1, NoEngine)
       \/ /\ ~IsValidType(req[k].type)
          /\ Return(k, 0, NoEngine)
          /\ UNCHANGED sessionMap

\* Disconnect, to the end of the first critical section.
GetSessionStoreType(k) ==
    /\ pc[k] = "begin"
    /\ req[k].op = "CLOSE"
    /\ \/ /\ sessionMap[GetConnID(k)] = NoEngine
          /\ Return(k, 0, NoEngine)
       \/ /\ sessionMap[GetConnID(k)] # NoEngine
          /\ pc' = [pc EXCEPT ![k] = "delete"]
          /\ UNCHANGED <<netVars, conn, req, store, reply>>
    /\ UNCHANGED sessionMap

\* Fault: the session stays.
DelNothing(k) ==
    /\ pc[k] = "delete"
    /\ Return(k, 1, NoEngine)
    /\ UNCHANGED sessionMap

\* The rest of Disconnect; delete of an absent key does nothing.
DelSessionStoreType(k) ==
    /\ pc[k] = "delete"
    /\ sessionMap' = [sessionMap EXCEPT ![GetConnID(k)] = NoEngine]
    /\ Return(k, 1, NoEngine)

\* Get, Set, Remove and Exist look their store up ...
GetStore(k) ==
    /\ pc[k] = "begin"
    /\ req[k].op \in DataOp
    /\ \/ /\ sessionMap[GetConnID(k)] = NoEngine
          /\ Return(k, 0, NoEngine)
       \/ /\ sessionMap[GetConnID(k)] # NoEngine
          /\ store' = [store EXCEPT ![k] = sessionMap[GetConnID(k)]]
          /\ pc' = [pc EXCEPT ![k] = "store"]
          /\ UNCHANGED <<netVars, conn, req, reply>>
    /\ UNCHANGED sessionMap

\* The status codes of a handler once it has a store: 404 for a key that is not
\* there, 0 for a key or value that is too long.
Codes(o) == IF o = "GET" THEN {1, 404} ELSE IF o = "SET" THEN {0, 1} ELSE {1}

\* ... and call it, without the mutex.
CallStore(k) ==
    /\ pc[k] = "store"
    /\ \E c \in Codes(req[k].op) : Return(k, c, store[k])
    /\ UNCHANGED sessionMap

Handle(k) == \/ Connect(k)
             \/ GetSessionStoreType(k) \/ DelSessionStoreType(k)
             \/ GetStore(k) \/ CallStore(k)

\* No connection is left, and nobody asks.
Rest == /\ open = {}
        /\ \A n \in Conn : port[n] # NoPort
        /\ \A k \in Call : pc[k] = "idle"
        /\ UNCHANGED vars

Next == \/ \E n \in Conn, p \in Port : Open(n, p)
        \/ \E n \in Conn : HangUp(n)
        \/ \E k \in Call, n \in Conn, r \in Request : Ask(k, n, r)
        \/ \E k \in Call : Handle(k)
        \/ Rest

Spec == Init /\ [][Next]_vars

----------------------------------------------------------------------------
(* Properties *)

TypeOK ==
    /\ port \in [Conn -> Port \cup {NoPort}]
    /\ open \subseteq Conn
    /\ sessionMap \in [Port -> Engine \cup {NoEngine}]
    /\ pc \in [Call -> PC]
    /\ conn \in [Call -> Conn \cup {NoConn}]
    /\ req \in [Call -> Request \cup {NoRequest}]
    /\ store \in [Call -> Engine \cup {NoEngine}]
    /\ reply \in [conn : Conn \cup {NoConn}, op : DataOp \cup {"CONNECT", "CLOSE", "none"},
                 code : {0, 1, 404}, by : Engine \cup {NoEngine}]

\* What TypeOK rests on: a handler at work has a request of an open or lost connection.
Linked ==
    /\ \A n \in open : port[n] # NoPort
    /\ \A k \in Call : pc[k] # "idle" <=> conn[k] # NoConn
    /\ \A k \in Call : pc[k] # "idle" => port[conn[k]] # NoPort /\ req[k] \in Request
    /\ \A k \in Call : pc[k] = "delete" => req[k].op = "CLOSE"
    /\ \A k \in Call : pc[k] = "store" => req[k].op \in DataOp
=============================================================================
