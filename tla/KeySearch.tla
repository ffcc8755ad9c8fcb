----------------------------- MODULE KeySearch ------------------------------
(***************************************************************************)
(* The binary searches of utils.cpp, which every descent, insertion and    *)
(* removal of the B+ tree goes through: indexNodeLargerOrEqual and         *)
(* indexNodeLarger, loop iteration by loop iteration, and indexNodeEqual   *)
(* and isExisting on top of the first.  They probe array[mid] once more    *)
(* after the loop, and answer mid or mid + 1, not left.                    *)
(*                                                                         *)
(* BPlusNode uses what these compute; its SearchOrder is what makes the    *)
(* array of a node strictly increasing.                                    *)
(***************************************************************************)
EXTENDS Integers

CONSTANTS MaxKeys,   \* bound on the keys of a node
          MaxKey     \* keys are compared only: numbers stand for strings

ASSUME SearchBoundsAssumption == MaxKeys \in Nat /\ MaxKey \in Nat

KeyRange == 0 .. MaxKey

VARIABLES array, size, key,   \* the arguments
          larger,             \* which of the two functions
          left, right, mid,   \* their locals
          pc, res             \* whether it has returned, and what

args == <<array, size, key, larger>>
searchVars == <<args, left, right, mid, pc, res>>

\* Fault: the search ends one past the last key.
pastLastKey == size
lastKey == size - 1

\* The index that an iteration reads.
middle == (left + right) \div 2

Increasing(a, n) == \A i, j \in 0 .. n - 1 : i < j => a[i] < a[j]

\* mid is not initialised; 0 stands for whatever it is.
SearchInit ==
    /\ size \in 0 .. MaxKeys
    /\ array \in [0 .. size - 1 -> KeyRange]
    /\ Increasing(array, size)
    /\ key \in KeyRange
    /\ larger \in BOOLEAN
    /\ left = 0
    /\ right = lastKey
    /\ mid = 0
    /\ pc = "loop"
    /\ res = -1

Return(r) == pc' = "done" /\ res' = r

NoKeys ==
    /\ pc = "loop"
    /\ size = 0
    /\ Return(-1)
    /\ UNCHANGED <<args, left, right, mid>>

\* Fault: right moves onto the probe and not below it.
ProbeStaying ==
    /\ pc = "loop"
    /\ size # 0
    /\ left <= right
    /\ mid' = middle
    /\ \/ array[mid'] = key /\ Return(IF larger THEN mid' + 1 ELSE mid') /\ UNCHANGED <<left, right>>
       \/ array[mid'] < key /\ left' = mid' + 1 /\ UNCHANGED <<right, pc, res>>
       \/ array[mid'] > key /\ right' = mid' /\ UNCHANGED <<left, pc, res>>
    /\ UNCHANGED args

\* One iteration.
Probe ==
    /\ pc = "loop"
    /\ size # 0
    /\ left <= right
    /\ mid' = middle
    /\ \/ array[mid'] = key /\ Return(IF larger THEN mid' + 1 ELSE mid') /\ UNCHANGED <<left, right>>
       \/ array[mid'] < key /\ left' = mid' + 1 /\ UNCHANGED <<right, pc, res>>
       \/ array[mid'] > key /\ right' = mid' - 1 /\ UNCHANGED <<left, pc, res>>
    /\ UNCHANGED args

\* Fault: the last probe is taken for the place.
ExitAtMid ==
    /\ pc = "loop"
    /\ size # 0
    /\ left > right
    /\ Return(mid)
    /\ UNCHANGED <<args, left, right, mid>>

Exit ==
    /\ pc = "loop"
    /\ size # 0
    /\ left > right
    /\ Return(IF array[mid] < key THEN mid + 1 ELSE mid)
    /\ UNCHANGED <<args, left, right, mid>>

Returned == pc = "done" /\ UNCHANGED searchVars

SearchNext == NoKeys \/ Probe \/ Exit \/ Returned

SearchSpec == SearchInit /\ [][SearchNext]_searchVars
\* A function call runs on by itself.
FairSearch == SearchSpec /\ WF_searchVars(NoKeys \/ Probe \/ Exit)

\* indexNodeEqual, once indexNodeLargerOrEqual has returned res.
indexNodeEqual == IF res = -1 \/ res >= size \/ array[res] # key THEN -1 ELSE res
isExisting == indexNodeEqual # -1

----------------------------------------------------------------------------
(* Properties *)

SearchTypeOK ==
    /\ size \in Nat
    /\ array \in [0 .. size - 1 -> Int]
    /\ key \in Int
    /\ larger \in BOOLEAN
    /\ left \in Int /\ right \in Int /\ mid \in Int /\ res \in Int
    /\ pc \in {"loop", "done"}

\* array is read inside its bounds: by each iteration, however its comparisons have moved
\* left and right, and after the loop, where mid is whatever the last iteration left.
ReadsInBounds ==
    pc = "loop" /\ size # 0 =>
      (IF left <= right THEN middle ELSE mid) \in 0 .. size - 1

\* The answer parts the keys: the smaller ones (for indexNodeLarger: not larger) are
\* before it and the others from it on, whichever probe was the last.
Parts ==
    pc = "done" /\ size # 0 =>
      \A i \in 0 .. size - 1 : i < res <=> IF larger THEN array[i] <= key ELSE array[i] < key

\* isExisting answers whether the key is in the node.
ExistsIffThere ==
    pc = "done" /\ ~larger => (isExisting <=> \E i \in 0 .. size - 1 : array[i] = key)

\* The searches return.
Terminates == <>(pc = "done")

\* The loop's invariant, which the properties rest on: what is left of left is
\* smaller, what is right of right larger, and the last probe is next to one of them.
LoopInv ==
    /\ Increasing(array, size)
    /\ pc = "loop" =>
         /\ 0 <= left /\ right < size /\ left <= right + 1
         /\ \A i \in 0 .. size - 1 : (i < left => array[i] < key) /\ (i > right => array[i] > key)
         /\ \/ left = 0 /\ right = size - 1
            \/ mid \in 0 .. size - 1 /\ (mid = left - 1 \/ mid = right + 1)
    /\ pc = "done" => IF size = 0 THEN res = -1 ELSE res \in 0 .. size
=============================================================================
