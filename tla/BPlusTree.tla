----------------------------- MODULE BPlusTree -----------------------------
(***************************************************************************)
(* The B+ tree store used by one client at a time: BPlusTree.cpp over      *)
(* BPlusTreeNode.cpp and fileUtils.cpp.  SET and DEL are one step each     *)
(* (BPlusTreeStore holds its mutex exclusively around them; BPlusStore     *)
(* models the interleaving of the calls).  GET and EXIST change nothing    *)
(* and are the operators Get and Exist.                                    *)
(***************************************************************************)
EXTENDS BPlusNode

CONSTANTS Key,      \* keys, ordered as strcmp orders the code's strings
          Value,
          NotFound, \* GET of a key that is not there
          MaxPages, \* more pages than any file of the model has
          MaxRestarts  \* bound on the restarts of a behaviour

ASSUME KeyAssumption == Key \subseteq Nat
ASSUME NotFoundAssumption == NotFound \notin Value

VARIABLES db,      \* the file, its free lists and emptyValueNode
          root,    \* BPlusTree::root, the only node kept in memory
          header,  \* the header page as it is in the file
          last,    \* the last update and its reply
          restarts,\* how often the process was restarted
          stale    \* whether some restart found currentValueNode behind

vars == <<db, root, header, last, restarts, stale>>

\* A new store: the header is written before the root page is appended.
NewStore ==
    LET a == appendNodePageToFile(EmptyFile, EmptyNode(LEAF_NODE))
    IN  [db |-> a.db, root |-> [offSet |-> a.id, node |-> EmptyNode(LEAF_NODE)],
         header |-> [root |-> 0, currentValueNode |-> 0]]

Init == /\ db = NewStore.db
        /\ root = NewStore.root
        /\ header = NewStore.header
        /\ last = [op |-> "none"]
        /\ restarts = 0
        /\ stale = FALSE

\* Fault: the root changes and the header does not.
keepHeader(s, r) == [db |-> r.db, root |-> r.root, header |-> s.header]

\* The header is written when, and only when, the root changes; its field
\* currentValueNode is emptyValueNode (MetaData keeps a reference to it).
updateRoot(s, r) ==
    [db |-> r.db, root |-> r.root,
     header |-> IF r.root.offSet = s.root.offSet THEN s.header
                ELSE [root |-> r.root.offSet, currentValueNode |-> r.db.emptyValueNode]]

Store == [db |-> db, root |-> root, header |-> header]

Becomes(s) == /\ db' = s.db
              /\ root' = s.root
              /\ header' = s.header

Set(key, value) ==
    /\ Becomes(updateRoot(Store, insert(db, root, key, value)))
    /\ last' = [op |-> "set", key |-> key, value |-> value]
    /\ UNCHANGED <<restarts, stale>>

Del(key) ==
    \E r \in {remove(db, root, key)} :
      /\ Becomes(updateRoot(Store, r))
      /\ last' = [op |-> "remove", key |-> key, found |-> r.found]
      /\ UNCHANGED <<restarts, stale>>

\* Shutdown and a new start on the same files: the destructors write nothing
\* to the header, getHeaderPage reads it and the root is read from the file.
Restart ==
    /\ restarts < MaxRestarts
    /\ restarts' = restarts + 1
    /\ stale' = (stale \/ header.currentValueNode # db.emptyValueNode)
    /\ root' = [offSet |-> header.root, node |-> db.node[header.root]]
    /\ db' = [db EXCEPT !.emptyValueNode = header.currentValueNode]
    /\ UNCHANGED <<header, last>>

Next == \/ \E key \in Key : Del(key) \/ \E value \in Value : Set(key, value)
        \/ Restart

Spec == Init /\ [][Next]_vars

\* Where the value of a key is, for a key in the tree.
slotIn(leaf, key) == calculateRealOffset(leaf.childs[Position(leaf.keys, key)])
SlotOf(key) == slotIn(LeafFor(NodesFrom(db, root), root.offSet, key), key)

Get(key) == get(db, root, key, NotFound)
Exist(key) == exist(db, root, key)

----------------------------------------------------------------------------
(* The tree as the file holds it *)

\* Offsets of the nodes of the tree, level by level from the root.
Levels ==
    LET Below(s) == UNION {Range(db.node[o].childs) : o \in s}
        lvl[s \in SUBSET DOMAIN db.node] ==
          IF \E o \in s : db.node[o].flag # INTERNAL_NODE THEN <<s>>
          ELSE <<s>> \o lvl[Below(s)]
    IN  lvl[{root.offSet}]

Live == UNION Range(Levels)
Leaves == Last(Levels)
Slots(o) == SubSeq(db.node[o].childs, 1, Size(db.node[o]))
LiveSlots == UNION {Range(Slots(o)) : o \in Leaves}
PageOf(offSet) == calculateRealOffset(offSet).page
Distinct(seq) == Cardinality(Range(seq)) = Len(seq)

----------------------------------------------------------------------------
(* Properties *)

\* Offsets are numbers, the free lists are stacks of offsets, and every node on
\* file has one child more than keys.
TypeOK ==
    /\ db.pages \in Nat /\ db.emptyValueNode \in Nat
    /\ db.delNodePages \in Seq(Nat) /\ db.delValues \in Seq(Nat)
    /\ \A o \in DOMAIN db.node :
         /\ db.node[o].flag \in {LEAF_NODE, INTERNAL_NODE, REMOVED_NODE}
         /\ db.node[o].keys \in Seq(Key)
         /\ db.node[o].childs \in Seq(Nat)
         /\ Len(db.node[o].childs) = Size(db.node[o]) + 1
    /\ \A o \in DOMAIN db.value : db.value[o] \in Value
    /\ header \in [root : Nat, currentValueNode : Nat]

\* The header page names the root that the operations start from: a store opened
\* on the file starts from the same tree.
HeaderNamesRoot == header.root = root.offSet

\* The copy of the root in memory, which every operation starts from and some
\* change after flushing, is the node on its page, and the header names it.
RootOnFile == root.node = db.node[root.offSet] /\ HeaderNamesRoot

\* The search tree: keys are sorted in every node, the descent that GET, SET and
\* DEL share for a key passes every node that has the key, and no two internal
\* nodes have a key in common.  Splits, borrows and merges must all keep the
\* separators in step with the leaves.
SearchOrder ==
    /\ \A o \in Live :
         /\ \A i, j \in DOMAIN db.node[o].keys : i < j => db.node[o].keys[i] < db.node[o].keys[j]
         /\ \A k \in Range(db.node[o].keys) : o \in Range(Descent(db.node, root.offSet, k))
    /\ \A o, p \in Live \ Leaves :
         o # p => Range(db.node[o].keys) \cap Range(db.node[p].keys) = {}

\* Balance: all leaves are on the last level, no node has two fathers, and
\* every node but the root has at least maxDegree - 1 keys and none has more
\* than fit on a page.
Balanced ==
    /\ \A o \in Live : db.node[o].flag = IF o \in Leaves THEN LEAF_NODE ELSE INTERNAL_NODE
    /\ \A o \in Live \ Leaves : Size(db.node[o]) >= 1 /\ Distinct(db.node[o].childs)
    /\ \A o, p \in Live \ Leaves :
         o # p => Range(db.node[o].childs) \cap Range(db.node[p].childs) = {}
    /\ \A o \in Live : /\ Size(db.node[o]) <= 2 * maxDegree - 1
                       /\ o # root.offSet => Size(db.node[o]) >= maxDegree - 1

\* Both together: what every descent and every split, borrow and merge relies on.
SearchTree == SearchOrder /\ Balanced

\* Every page of the file is a node of the tree, a removed page waiting in
\* delNodePages, or a page of values, and never two of these: no page leaks
\* through splits, merges and root changes, and none is used twice.
PagesAccounted ==
    LET valuePages == {PageOf(v) : v \in DOMAIN db.value}
        nodePages == {PageOf(o) : o \in Live}
        freePages == {PageOf(o) : o \in Range(db.delNodePages)}
    IN  /\ Distinct(db.delNodePages)
        /\ nodePages \cap freePages = {}
        /\ (nodePages \cup freePages) \cap valuePages = {}
        /\ nodePages \cup freePages \cup valuePages = 0 .. db.pages - 1

\* The value slots: no two keys share a slot, no live slot is in delValues, and
\* every slot ever taken is live or waits in delValues to be reused.
SlotsAccounted ==
    /\ \A o \in Leaves : Distinct(Slots(o))
    /\ \A o, p \in Leaves : o # p => Range(Slots(o)) \cap Range(Slots(p)) = {}
    /\ Distinct(db.delValues)
    /\ LiveSlots \cap Range(db.delValues) = {}
    /\ LiveSlots \cup Range(db.delValues) = DOMAIN db.value

\* The same as long as no restart found the header behind.
SlotsAccountedUnlessStale == ~stale => SlotsAccounted

\* The tree hands out, reuses and gives back value slots as ValueAlloc says,
\* whatever splits and merges do with the leaves, so what is proved of
\* ValueAlloc holds of the tree.
VA == INSTANCE ValueAlloc WITH
        pages <- db.pages,
        slot <- [k \in Key |-> IF Exist(k) THEN SlotOf(k) ELSE NotFound],
        delValues <- [i \in DOMAIN db.delValues |-> calculateRealOffset(db.delValues[i])],
        emptyValueNode <- calculateRealOffset(db.emptyValueNode),
        currentValueNode <- calculateRealOffset(header.currentValueNode),
        NoSlot <- NotFound, MaxPages <- MaxPages

\* A SET, DEL, GET or EXIST of the store is that operation on a map: splits,
\* borrows and merges move the other keys without changing what they are bound
\* to, and DEL reports whether the key was there.
KeyValues == [k \in Key |-> Get(k)]
KV == INSTANCE KVMap WITH kv <- KeyValues
IsMap == KV!Spec

\* The same as long as no restart found the header behind.
IsMapUnlessStale == KV!Init /\ [][stale' \/ KV!Next]_<<KeyValues, last>>

\* The same for EXIST alone, whatever the values: a restart loses no key, brings
\* none back and mixes none up.
KeyMap == [k \in Key |-> Exist(k)]
ExistLast == IF last.op = "set" THEN [last EXCEPT !.value = TRUE] ELSE last
Keys == INSTANCE KVMap WITH kv <- KeyMap, Value <- {TRUE}, NotFound <- FALSE, last <- ExistLast
=============================================================================
