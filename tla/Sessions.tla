------------------------------ MODULE Sessions ------------------------------
(***************************************************************************)
(* What the service promises a party that asks it.  A party has one        *)
(* session, the store it works on, and may have many requests pending.     *)
(* CONNECT sets the session and CLOSE ends it, in one step with the        *)
(* answer.  Any other request is answered from a session that its party    *)
(* had at some moment between the request and the answer: served by the    *)
(* store of that session, or refused because there was none.  What other   *)
(* parties ask has no part in it.                                          *)
(***************************************************************************)
EXTENDS Integers

CONSTANTS Party, Call, NoParty, NoEngine

Engine == {"B", "BPLUS"}
DataOp == {"GET", "SET", "DEL", "EXIST"}
Request == [op : {"CONNECT"}, type : Engine \cup {"other"}]
              \cup [op : DataOp \cup {"CLOSE"}, type : {"none"}]

VARIABLES session,   \* the store a party works on
          pending,   \* the requests that wait for their answer, and the sessions
                     \* their party has had since they were asked
          reply      \* the last answer

NothingPending == [party |-> NoParty, req |-> [op |-> "none", type |-> "none"], seen |-> {}]

Init == /\ session = [p \in Party |-> NoEngine]
        /\ pending = [k \in Call |-> NothingPending]
        /\ reply = [party |-> NoParty, op |-> "none", code |-> 0, by |-> NoEngine]

Ask(k, p, r) ==
    /\ pending[k] = NothingPending
    /\ pending' = [pending EXCEPT ![k] = [party |-> p, req |-> r, seen |-> {session[p]}]]
    /\ UNCHANGED <<session, reply>>

\* Request k is answered; the others of its party have seen the session it leaves.
Answer(k, c, e) ==
    /\ reply' = [party |-> pending[k].party, op |-> pending[k].req.op, code |-> c, by |-> e]
    /\ pending' = [l \in Call |->
         IF l = k THEN NothingPending
         ELSE IF pending[l].party = pending[k].party
              THEN [pending[l] EXCEPT !.seen = @ \cup {session'[pending[k].party]}]
              ELSE pending[l]]

SetSession(k, e) == session' = [session EXCEPT ![pending[k].party] = e]

Connect(k) ==
    /\ pending[k].req.op = "CONNECT"
    /\ IF pending[k].req.type \in Engine
         THEN SetSession(k, pending[k].req.type) /\ Answer(k, 1, NoEngine)
         ELSE UNCHANGED session /\ Answer(k, 0, NoEngine)

\* There was a session to end.  Of two that overlap each may have found the same one.
Close(k) ==
    /\ pending[k].req.op = "CLOSE"
    /\ pending[k].seen \cap Engine # {}
    /\ SetSession(k, NoEngine)
    /\ Answer(k, 1, NoEngine)

\* The store finds the key or not, or finds the key or the value too long.
Serve(k) ==
    /\ pending[k].req.op \in DataOp
    /\ \E e \in pending[k].seen \cap Engine, c \in {0, 1, 404} : Answer(k, c, e)
    /\ UNCHANGED session

Refuse(k) ==
    /\ pending[k].req.op \in DataOp \cup {"CLOSE"}
    /\ NoEngine \in pending[k].seen
    /\ Answer(k, 0, NoEngine)
    /\ UNCHANGED session

Next == \/ \E k \in Call, p \in Party, r \in Request : Ask(k, p, r)
        \/ \E k \in Call : Connect(k) \/ Close(k) \/ Serve(k) \/ Refuse(k)

Spec == Init /\ [][Next]_<<session, pending, reply>>
=============================================================================
