----------------------------- MODULE ValueAlloc -----------------------------
(***************************************************************************)
(* How the B+ tree store hands out the slots that values are written to,   *)
(* without the tree: insertNewValueToFile takes the last slot removed, or  *)
(* the slot after emptyValueNode, or the first slot of a page appended to  *)
(* the file; removeLeft of a leaf gives a slot back.  Pages for nodes are  *)
(* appended to the same file in between.  The header on file remembers     *)
(* emptyValueNode as it was when the root last changed (updateRoot), and a *)
(* restart continues from that.                                            *)
(*                                                                         *)
(* BPlusTree implements this specification.                                *)
(***************************************************************************)
EXTENDS Integers, Sequences, SequencesExt

CONSTANTS Key,            \* the owners of slots
          ValuesPerPage,
          NoSlot,         \* the slot of a key that is not in the tree
          MaxPages,       \* bound on the pages of the file
          MaxRestarts     \* bound on the restarts

Slot == [page : Nat, index : 0 .. ValuesPerPage - 1]

ASSUME ValuesPerPageAssumption == ValuesPerPage \in Nat \ {0}
ASSUME BoundsAssumption == MaxPages \in Nat /\ MaxRestarts \in Nat
ASSUME NoSlotAssumption == NoSlot \notin Slot

VARIABLES pages,            \* pages up to end of file
          slot,             \* the slot of every key
          delValues,        \* stack of slots given back
          emptyValueNode,   \* last slot taken from a page, the origin if none
          currentValueNode, \* emptyValueNode in the header page on file
          restarts,         \* how often the store was opened again
          stale             \* whether some restart found the header behind

vars == <<pages, slot, delValues, emptyValueNode, currentValueNode, restarts, stale>>

Origin == [page |-> 0, index |-> 0]   \* offset 0: no slot taken yet

\* The first page is the root's.
Init == /\ pages = 1
        /\ slot = [k \in Key |-> NoSlot]
        /\ delValues = <<>>
        /\ emptyValueNode = Origin
        /\ currentValueNode = Origin
        /\ restarts = 0
        /\ stale = FALSE

\* The operation may change the root, and then writes the header.
MayUpdateRoot == currentValueNode' \in {currentValueNode, emptyValueNode'}

Give(k, s) == slot' = [slot EXCEPT ![k] = s]

\* Fault: the slot stays in the free list.
ReusePeeked(k) ==
    /\ slot[k] = NoSlot
    /\ delValues # <<>>
    /\ Give(k, Last(delValues))
    /\ pages' \in pages .. MaxPages
    /\ UNCHANGED <<delValues, emptyValueNode>>
    /\ MayUpdateRoot
    /\ UNCHANGED <<restarts, stale>>

Reuse(k) ==
    /\ slot[k] = NoSlot
    /\ delValues # <<>>
    /\ Give(k, Last(delValues))
    /\ delValues' = Front(delValues)
    /\ pages' \in pages .. MaxPages
    /\ UNCHANGED emptyValueNode
    /\ MayUpdateRoot
    /\ UNCHANGED <<restarts, stale>>

PageFull == emptyValueNode = Origin \/ emptyValueNode.index + 1 = ValuesPerPage

NextInPage(k) ==
    /\ slot[k] = NoSlot
    /\ delValues = <<>>
    /\ ~PageFull
    /\ emptyValueNode' = [page |-> emptyValueNode.page, index |-> emptyValueNode.index + 1]
    /\ Give(k, emptyValueNode')
    /\ pages' \in pages .. MaxPages
    /\ MayUpdateRoot
    /\ UNCHANGED <<delValues, restarts, stale>>

\* Node pages may be appended before the page of the value and after it.
NewPage(k) ==
    /\ slot[k] = NoSlot
    /\ delValues = <<>>
    /\ PageFull
    /\ \E p \in pages .. MaxPages - 1 :
         /\ emptyValueNode' = [page |-> p, index |-> 0]
         /\ pages' \in p + 1 .. MaxPages
    /\ Give(k, emptyValueNode')
    /\ MayUpdateRoot
    /\ UNCHANGED <<delValues, restarts, stale>>

GiveBack(k) ==
    /\ slot[k] # NoSlot
    /\ delValues' = Append(delValues, slot[k])
    /\ Give(k, NoSlot)
    /\ UNCHANGED <<pages, emptyValueNode>>
    /\ MayUpdateRoot
    /\ UNCHANGED <<restarts, stale>>

Restart ==
    /\ restarts < MaxRestarts
    /\ restarts' = restarts + 1
    /\ stale' = (stale \/ currentValueNode # emptyValueNode)
    /\ emptyValueNode' = currentValueNode
    /\ UNCHANGED <<pages, slot, delValues, currentValueNode>>

Next == \/ \E k \in Key : Reuse(k) \/ NextInPage(k) \/ NewPage(k) \/ GiveBack(k)
        \/ Restart

Spec == Init /\ [][Next]_vars

----------------------------------------------------------------------------
(* Properties *)

TypeOK ==
    /\ pages \in Nat
    /\ slot \in [Key -> Slot \cup {NoSlot}]
    /\ delValues \in Seq(Slot)
    /\ emptyValueNode \in Slot
    /\ currentValueNode \in Slot
    /\ restarts \in Nat
    /\ stale \in BOOLEAN

\* Two keys never share a slot, so that an update of one never changes the
\* value of the other; a slot in use is not in the free list, where another
\* insertion would find it; no slot is there twice.
Exclusive ==
    /\ \A k, l \in Key : k # l /\ slot[k] = slot[l] => slot[k] = NoSlot
    /\ \A k \in Key : \A i \in DOMAIN delValues : slot[k] # delValues[i]
    /\ \A i, j \in DOMAIN delValues : delValues[i] = delValues[j] => i = j

\* Only a restart that finds the header behind (insertions since the last root
\* change) can make the store hand out a slot twice: every other history of
\* insertions, removals, root changes and restarts keeps the slots exclusive.
ExclusiveUnlessStale == ~stale => Exclusive

\* Why: every slot handed out lies in the file and, on the page that slots are
\* taken from, not behind emptyValueNode.
Taken(s) == /\ s.page < pages
            /\ s.page = emptyValueNode.page => s.index <= emptyValueNode.index

BehindEmpty ==
    /\ emptyValueNode.page < pages
    /\ \A k \in Key : slot[k] # NoSlot => Taken(slot[k])
    /\ \A i \in DOMAIN delValues : Taken(delValues[i])

IInv == /\ TypeOK
        /\ currentValueNode.page < pages
        /\ emptyValueNode.page < pages
        /\ ~stale => Exclusive /\ BehindEmpty
=============================================================================
