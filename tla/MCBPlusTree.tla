---------------------------- MODULE MCBPlusTree ----------------------------
(***************************************************************************)
(* BPlusTree for TLC.  A tree of three levels takes more keys than TLC can *)
(* let come and go freely, so a behaviour follows one of a set of plans:   *)
(* first a script of SET and DEL, and from there SET and DEL of a few      *)
(* keys, without a bound on how often, and a number of restarts.           *)
(***************************************************************************)
EXTENDS BPlusTree

CONSTANTS Plans,              \* the cases of a run
          Loaded, LoadedEven  \* what a script stores under odd and under even keys

VARIABLES plan,     \* the plan followed
          script    \* what is left of its script: k stands for SET k, -k for DEL k

Scripted == /\ script # <<>>
            /\ script' = Tail(script)
            /\ LET key == Head(script)
               IN  IF key > 0 THEN Set(key, IF key % 2 = 0 THEN LoadedEven ELSE Loaded) ELSE Del(-key)
            /\ UNCHANGED plan

Free == /\ script = <<>>
        /\ \/ \E key \in plan.keys : Del(key) \/ \E value \in plan.values : Set(key, value)
           \/ restarts < plan.restarts /\ Restart
        /\ UNCHANGED <<plan, script>>

MCInit == Init /\ plan \in Plans /\ script = plan.script
MCSpec == MCInit /\ [][Scripted \/ Free]_<<vars, plan, script>>

Plan(s, keys, values, r) == [script |-> s, keys |-> keys, values |-> values, restarts |-> r]
Ascending(n) == [i \in 1 .. n |-> i]
Descending(n) == [i \in 1 .. n |-> n + 1 - i]
Without(ks) == SetToSortSeq({-k : k \in ks}, >)

\* A new store, and every history of four keys.
Small == {Plan(<<>>, 1 .. 4, {Loaded}, 0)}
\* Three levels: long nodes to the left; leaves of one key each, so that the
\* next DEL merges leaves and inner nodes; a full root about to split.
Deep == {Plan(Descending(7), {3, 6, 7}, Value, 0),
         Plan(Ascending(10) \o Without({2, 4, 6, 8, 10}), {3, 6, 7}, {Loaded}, 0),
         Plan(<<10, 9, 8, 7, 6, 5>>, {3, 6, 7}, {Loaded}, 0)}
\* Two levels, grown, shrunk to a leaf and grown again: the last root change
\* left the header with a value page that is not full.
Aged(values, r) == {Plan(Ascending(5) \o Without({1, 2, 3, 4}) \o Ascending(4), {4, 6, 7}, values, r)}
AllPlans == Small \cup Deep \cup Aged({Loaded}, 2)
RestartPlan == Aged(Value, 1)

\* Nodes of two to five keys (maxDegree 3): three levels, the nodes to the
\* right at their minimum; the same with two inner nodes merged; and leaves
\* that borrow from the right and from the left.  Neighbours hold different values and the
\* keys that come and go take both, so that a key bound to another key's slot shows.
Degree3Plans == {Plan(s, {4, 12, 14}, Value, 0) :
                   s \in {Descending(16), Descending(16) \o Without({1, 2, 11, 13}),
                          Ascending(15) \o Without({4, 5, 13, 14})}}

----------------------------------------------------------------------------
(* Properties of the plans with restarts; without them IsMap says more *)

Restarted == plan.restarts > 0

\* A restart loses no key, brings none back and mixes none up.
IsKeySetRestarted == (Restarted => Keys!Init) /\ [][Restarted => Keys!Next]_<<KeyMap, ExistLast>>

\* The tree hands out, reuses and gives back value slots as ValueAlloc says, whatever
\* splits and merges do with the leaves, and resumes as it says after a restart.
AllocatesRestarted == (Restarted => VA!Init) /\ [][Restarted => VA!Next]_(VA!vars)
=============================================================================
