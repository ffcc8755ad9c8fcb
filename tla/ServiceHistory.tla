--------------------------- MODULE ServiceHistory ---------------------------
(***************************************************************************)
(* Service with a history variable, which records steps and steers none,   *)
(* and its properties: the handlers implement Sessions, with a port for a  *)
(* party.                                                                  *)
(***************************************************************************)
EXTENDS Service

VARIABLE seen   \* for each handler at work, the sessions that its port has had
                \* since the request was asked

historyVars == <<vars, seen>>

\* The session of a connection, as the map has it.
SessionOf(n) == IF port[n] = NoPort THEN NoEngine ELSE sessionMap[port[n]]

HInit == Init /\ seen = [k \in Call |-> {}]

HNext == /\ Next
         /\ seen' = [k \in Call |-> IF pc'[k] = "idle" THEN {}
                                    ELSE seen[k] \cup {sessionMap'[port'[conn'[k]]]}]

HSpec == HInit /\ [][HNext]_historyVars

----------------------------------------------------------------------------
(* Properties *)

PortOf(n) == IF n = NoConn THEN NoPort ELSE port[n]

\* service.go and serverUtils, whatever requests of a port overlap: GET, SET, DEL and
\* EXIST are answered by a store that was the session of their port at some moment of
\* the request, although they call it after the mutex is released; they are refused,
\* as CLOSE is, only if there was a moment without a session; a CLOSE answered with OK
\* leaves no session behind in that step; and nothing of another port has a part in it.
Abs == INSTANCE Sessions WITH
    Party <- Port,
    NoParty <- NoPort,
    session <- sessionMap,
    pending <- [k \in Call |-> [party |-> PortOf(conn[k]), req |-> req[k], seen |-> seen[k]]],
    reply <- [party |-> PortOf(reply.conn), op |-> reply.op, code |-> reply.code, by |-> reply.by]
IsSessions == Abs!Spec

\* No other connection has the port of n, or had it.
HasOwnPort(n) == port[n] # NoPort /\ \A m \in Conn \ {n} : port[m] # port[n]

\* A session belongs to one connection where its port does: the connection starts
\* without one, and only the answers to its own CONNECT and CLOSE requests change it,
\* however the handlers of other connections interleave with its own (GetConnID,
\* UpdateMap, DelSessionStoreType).
SessionIsOwn ==
    [][\A n \in Conn : HasOwnPort(n)' /\ SessionOf(n)' # SessionOf(n) =>
         \E k \in Call : /\ conn[k] = n /\ conn'[k] = NoConn
                         /\ req[k].op \in {"CONNECT", "CLOSE"}]_historyVars

\* service_test.go:116-125 of Disconnect: "Case Haven't connect to any storage" expects
\* "Error Store type not Available": a CLOSE is answered with OK only in the step that
\* ends a session.  It does not hold: two CLOSEs that overlap may both find the session
\* before either deletes it, so no passing run checks it.
CloseEndsSession ==
    [][\A k \in Call : pc[k] = "delete" /\ pc'[k] = "idle" => sessionMap[GetConnID(k)] # NoEngine]_historyVars
=============================================================================
