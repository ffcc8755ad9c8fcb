---------------------------- MODULE MCBPlusStore ----------------------------
(***************************************************************************)
(* BPlusStore for TLC: threads that each serve a request, all at a time,   *)
(* and one thread alone that serves several.                               *)
(***************************************************************************)
EXTENDS BPlusStore

CONSTANT Loads       \* the requests that each thread is given, one function a case

VARIABLE alone       \* whether one thread has all the requests

MCInit == /\ Init
          /\ left \in Loads
          /\ alone = (Cardinality({t \in Thread : left[t] > 0}) = 1)
MCNext == Next /\ UNCHANGED alone
MCSpec == MCInit /\ [][MCNext]_<<vars, alone>> /\ Fairness

Each(n) == [t \in Thread |-> n]
OneOf(n) == LET one == CHOOSE t \in Thread : TRUE IN [t \in Thread |-> IF t = one THEN n ELSE 0]
AllOrOne == {Each(1), OneOf(4)}
All == {Each(3)}

\* One client alone reads what it wrote: a stack gives it the same stream again.
FreshReadsAlone == alone => FreshReads
=============================================================================
