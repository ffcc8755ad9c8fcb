------------------------------ MODULE MCBTree ------------------------------
(***************************************************************************)
(* BTree for TLC.  A behaviour follows one of a set of plans: first a      *)
(* script, which builds a tree too large to be reached freely, and then a  *)
(* number of requests of the kinds that the plan allows, with restarts.    *)
(***************************************************************************)
EXTENDS BTree

CONSTANTS Plans,      \* the cases of a run
          Loaded      \* the value that a script stores

VARIABLES plan,       \* the plan followed
          script,     \* what is left of its script: k stands for SET k, -k for DEL k
          ops         \* requests made after it

Scripted == /\ script # <<>>
            /\ script' = Tail(script)
            /\ IF Head(script) > 0 THEN Set(Head(script), Loaded) ELSE Del(-Head(script))
            /\ UNCHANGED <<plan, ops>>

Request == \/ \E key \in plan.keys, value \in plan.values :
                (plan.overwrites \/ ~Exist(key)) /\ Set(key, value)
           \/ plan.removes /\ \E key \in plan.keys : Del(key)

Free == /\ script = <<>>
        /\ \/ ops < plan.ops /\ ops' = ops + 1 /\ Request
           \/ restarts < plan.restarts /\ Restart /\ UNCHANGED ops
        /\ UNCHANGED <<plan, script>>

\* The client has made its requests, or there is nothing left to ask for.
Nothing == ~plan.removes /\ ~plan.overwrites /\ \A key \in plan.keys : Exist(key)
Done == script = <<>> /\ (ops = plan.ops \/ lost \/ Nothing) /\ UNCHANGED <<vars, plan, script, ops>>

MCInit == Init /\ plan \in Plans /\ script = plan.script /\ ops = 0
MCSpec == MCInit /\ [][Scripted \/ Free \/ Done]_<<vars, plan, script, ops>>

Ascending(n) == [i \in 1 .. n |-> i]
Descending(n) == [i \in 1 .. n |-> n + 1 - i]
Removing(ks) == [i \in DOMAIN ks |-> -ks[i]]

Growing(s) == [script |-> s, keys |-> 1 .. 8, values |-> Value, ops |-> 5,
               removes |-> FALSE, overwrites |-> FALSE, restarts |-> 1]
Churning(s, keys, n, r) == [script |-> s, keys |-> keys, values |-> {Loaded}, ops |-> n,
                            removes |-> TRUE, overwrites |-> FALSE, restarts |-> r]

\* SET and DEL on three levels, grown to the left and to the right, on one that shrank
\* and on a store emptied after it had grown; the same around a root that is about to
\* shrink, with restarts; and different orders of growth, from a leaf and two levels.
AllPlans ==
    {Churning(s, 1 .. 10, 4, 0) :
       s \in {Ascending(10), Descending(10), Ascending(8) \o Removing(<<4, 1, 7>>),
              Ascending(5) \o Removing(<<5, 4, 3, 2, 1>>)}}
    \cup {Churning(s, 1 .. 5, 4, 2) : s \in {<<>>, Ascending(4), Ascending(5) \o Removing(<<1, 2>>)}}
    \cup {Growing(s) : s \in {<<4, 2>>, Ascending(5), <<7, 6, 5>>}}

\* A new store and two values: with DEL, and with SET of keys that exist.
ReusePlan == {[Churning(<<>>, Key, 9, 0) EXCEPT !.values = Value]}
OverwritePlan == {[Growing(<<>>) EXCEPT !.keys = 1 .. 3, !.overwrites = TRUE, !.restarts = 0]}

----------------------------------------------------------------------------
(* Properties *)

Grows == ~plan.removes /\ ~plan.overwrites

\* While clients only SET new keys, the store is a map: splits move the entries with
\* the positions of their values, and a restart finds them again.
IsMapGrowing == (Grows => KV!Init) /\ [][Grows => KV!Next]_<<KeyValues, last>>
=============================================================================
