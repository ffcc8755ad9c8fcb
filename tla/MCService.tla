----------------------------- MODULE MCService ------------------------------
(* Service for TLC, with a record of the connections that chose a store. *)
EXTENDS Service

VARIABLE chosen

MCInit == Init /\ chosen = {}
MCNext == Next /\ chosen' = IF reply'.op = "CONNECT" /\ reply'.code = 1
                              THEN chosen \cup {reply'.conn} ELSE chosen
MCSpec == MCInit /\ [][MCNext]_<<vars, chosen>>

\* service_test.go:178-184 of Set, and the same of the other handlers: "Case Haven't
\* connect to any storage", "Set failed, should get Error Store type not Available".
NotConnectedRefused ==
    reply.by # NoEngine => reply.conn \in chosen
=============================================================================
