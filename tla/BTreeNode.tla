----------------------------- MODULE BTreeNode -----------------------------
(***************************************************************************)
(* The nodes of the B-tree and the algorithms on them: BTreeNode.cpp.      *)
(* Every node holds keys with the positions of their values; an internal   *)
(* node has one child more than keys.  SET splits full nodes on its way    *)
(* down, DEL fills nodes at their minimum on its way down.                 *)
(*                                                                         *)
(* An operator for a member function takes the file t and the node this as *)
(* it is in memory, and returns both.  Indices here start at 1.  The       *)
(* argument isDeleteReal of remove is never read and is left out.          *)
(***************************************************************************)
EXTENDS BTreeFile, FiniteSets

CONSTANT T   \* MAX_DEGREE: a node has at most 2 * T - 1 keys

ASSUME TAssumption == T \in Nat /\ T > 1

nEntry(n) == Len(n.keys)
Full(n) == nEntry(n) = 2 * T - 1

\* How many keys are at most key, and how many are less, as the loops count.
AtMost(n, key) == Cardinality({i \in DOMAIN n.keys : n.keys[i] <= key})
Less(n, key) == Cardinality({i \in DOMAIN n.keys : n.keys[i] < key})
Holds(n, i, key) == i \in DOMAIN n.keys /\ n.keys[i] = key

\* The entry i of a node, replaced, added or dropped.
WithEntry(n, i, key, val) ==
    Node(n.flag, n.pos, [n.keys EXCEPT ![i] = key], [n.vals EXCEPT ![i] = val], n.childs)
AddEntry(n, i, key, val) ==
    Node(n.flag, n.pos, InsertAt(n.keys, i, key), InsertAt(n.vals, i, val), n.childs)
\* Fault: the position of the value is not moved along.
DropKey(n, i) == Node(n.flag, n.pos, RemoveAt(n.keys, i), n.vals, n.childs)
DropEntry(n, i) ==
    Node(n.flag, n.pos, RemoveAt(n.keys, i), RemoveAt(n.vals, i), n.childs)
WithChilds(n, childs) == Node(n.flag, n.pos, n.keys, n.vals, childs)
\* The entries l to h, with their childs, for a node at pos.
Part(n, pos, l, h) ==
    Node(n.flag, pos, SubSeq(n.keys, l, h), SubSeq(n.vals, l, h),
         IF n.flag = LEAF THEN <<>> ELSE SubSeq(n.childs, l, h + 1))
WRITE_NODES(t, ns) == FoldLeft(WRITE_NODE, t, ns)

----------------------------------------------------------------------------
(* SET *)

\* The end of a split of the idx-th child of this into left and right.
halved(t, this, idx, key, val, left, right) ==
    LET up == WithChilds(AddEntry(this, idx, key, val),
                         InsertAt(this.childs, idx + 1, right.pos))
    IN  [t |-> WRITE_NODES(t, <<left, up, right>>), this |-> up]

\* The middle entry of the idx-th child moves up and a new node at page gets
\* the entries after it.
splitInto(page, this, idx, child) ==
    halved(page.t, this, idx, child.keys[T], child.vals[T],
           Part(child, child.pos, 1, T - 1), Part(child, page.pos, T + 1, 2 * T - 1))

\* Without a deleted page, empty bytes are written to this node's own page, so
\* that it lies in the file, before the end of the file is taken.
splitChild(t, this, idx, child) ==
    splitInto(takenNode(t, updateNextPosNode(writeEmptyBytes(t, this.pos))), this, idx, child)

\* A new entry of a leaf: the node is written before its value.
addedToLeaf(slot, this, i, key, value) ==
    LET n == AddEntry(this, i, key, slot.pos)
    IN  [this |-> n, t |-> updateValueAt(WRITE_NODE(slot.t, n), slot.pos, value, FALSE)]

overwrite(t, this, i, value) ==
    [this |-> this, t |-> updateValueAt(t, this.vals[i], value, TRUE)]

leafInsert(t, this, key, value) ==
    IF Holds(this, AtMost(this, key), key) THEN overwrite(t, this, AtMost(this, key), value)
    ELSE addedToLeaf(takenVal(t, updateNextPosNodeValue(t)), this, AtMost(this, key) + 1, key, value)

\* Fault: the key is not compared with the entry that moved up.
stayLeft(r, i, key) == [t |-> r.t, this |-> r.this, i |-> i]
\* Of the halves of a child, the right one for a key above the entry that moved
\* up, the left one for a key below it and for that key itself.
afterSplit(r, i, key) ==
    [t |-> r.t, this |-> r.this, i |-> IF r.this.keys[i] < key THEN i + 1 ELSE i]

\* The child i of this that key goes to, split if it is full.
roomInChild(t, this, i, key) ==
    IF Full(READ_NODE(t, this.childs[i]))
    THEN afterSplit(splitChild(t, this, i, READ_NODE(t, this.childs[i])), i, key)
    ELSE [t |-> t, this |-> this, i |-> i]

RECURSIVE insertNonFull(_, _, _, _)
insertBelow(r, key, value) ==
    [this |-> r.this,
     t |-> insertNonFull(r.t, READ_NODE(r.t, r.this.childs[r.i]), key, value).t]
insertNonFull(t, this, key, value) ==
    IF this.flag = LEAF THEN leafInsert(t, this, key, value)
    ELSE IF Holds(this, AtMost(this, key), key) THEN overwrite(t, this, AtMost(this, key), value)
    ELSE insertBelow(roomInChild(t, this, AtMost(this, key) + 1, key), key, value)

----------------------------------------------------------------------------
(* DEL *)

\* child is the idx-th child of this, sibling the one it borrows from.
borrowFromNextNode(t, this, idx, child, sibling) ==
    LET c == WithChilds(AddEntry(child, nEntry(child) + 1, this.keys[idx], this.vals[idx]),
                        IF child.flag = LEAF THEN <<>> ELSE Append(child.childs, sibling.childs[1]))
        s == Part(sibling, sibling.pos, 2, nEntry(sibling))
        n == WithEntry(this, idx, sibling.keys[1], sibling.vals[1])
    IN  [this |-> n, t |-> WRITE_NODES(t, <<n, c, s>>)]

borrowFromPrevNode(t, this, idx, child, sibling) ==
    LET last == nEntry(sibling)
        c == WithChilds(AddEntry(child, 1, this.keys[idx - 1], this.vals[idx - 1]),
                        IF child.flag = LEAF THEN <<>> ELSE <<Last(sibling.childs)>> \o child.childs)
        s == Part(sibling, sibling.pos, 1, last - 1)
        n == WithEntry(this, idx - 1, sibling.keys[last], sibling.vals[last])
    IN  [this |-> n, t |-> WRITE_NODES(t, <<n, c, s>>)]

\* Fault: the page of the merged node is not put in the queue.
mergedAndForgotten(t, this, idx, c, next) ==
    LET n == WithChilds(DropEntry(this, idx), RemoveAt(this.childs, idx + 1))
    IN  [this |-> n, t |-> WRITE_NODES(t, <<c, [next EXCEPT !.flag = DELETED], n>>)]
\* The end of a merge into the node c: next is deleted, this loses the entry idx.
merged(t, this, idx, c, next) ==
    LET n == WithChilds(DropEntry(this, idx), RemoveAt(this.childs, idx + 1))
    IN  [this |-> n, t |-> WRITE_NODES(pushDeletedNode(t, next.pos),
                             <<c, [next EXCEPT !.flag = DELETED], n>>)]
\* Fault: the entry between the two nodes is dropped.
mergeWithoutEntry(t, this, idx, child, next) ==
    merged(t, this, idx, Node(child.flag, child.pos, child.keys \o next.keys,
                              child.vals \o next.vals, child.childs \o next.childs), next)
\* child, which has T - 1 entries, the entry idx and all of next become one node.
mergeInto(t, this, idx, child, next) ==
    merged(t, this, idx, Node(child.flag, child.pos,
                              child.keys \o <<this.keys[idx]>> \o next.keys,
                              child.vals \o <<this.vals[idx]>> \o next.vals,
                              child.childs \o next.childs), next)
mergeNodes(t, this, idx) ==
    mergeInto(t, this, idx, READ_NODE(t, this.childs[idx]), READ_NODE(t, this.childs[idx + 1]))

\* Whether the i-th child exists and can spare an entry.
CanLend(t, this, i) ==
    i \in DOMAIN this.childs /\ nEntry(READ_NODE(t, this.childs[i])) >= T
Child(t, this, i) == READ_NODE(t, this.childs[i])

fillNode(t, this, idx) ==
    IF CanLend(t, this, idx - 1)
    THEN borrowFromPrevNode(t, this, idx, Child(t, this, idx), Child(t, this, idx - 1))
    ELSE IF CanLend(t, this, idx + 1)
    THEN borrowFromNextNode(t, this, idx, Child(t, this, idx), Child(t, this, idx + 1))
    ELSE IF idx <= nEntry(this) THEN mergeNodes(t, this, idx)
    ELSE mergeNodes(t, this, idx - 1)

removeFromLeaf(t, this, idx) ==
    LET n == DropEntry(this, idx)
    IN  [this |-> n, found |-> TRUE, t |-> WRITE_NODE(pushDeletedVal(t, this.vals[idx]), n)]

\* The leaf with the predecessor (successor) of an entry, below a child of it.
RECURSIVE getPredNode(_, _)
getPredNode(t, n) == IF n.flag = LEAF THEN n ELSE getPredNode(t, READ_NODE(t, Last(n.childs)))
RECURSIVE getSuccNode(_, _)
getSuccNode(t, n) == IF n.flag = LEAF THEN n ELSE getSuccNode(t, READ_NODE(t, n.childs[1]))

\* The end of removeFromNonLeaf: below is the result of the call on the child.
writtenBoth(below, this) ==
    [this |-> this, found |-> below.found,
     t |-> IF below.found THEN WRITE_NODES(below.t, <<below.this, this>>) ELSE below.t]

RECURSIVE remove(_, _, _)

\* The entry idx becomes its neighbour key in order, which is removed from child.
replaceEntry(t, this, idx, key, val, child) ==
    writtenBoth(remove(pushDeletedVal(t, this.vals[idx]), child, key),
                WithEntry(this, idx, key, val))

removeMerged(m, idx) ==
    writtenBoth(remove(m.t, Child(m.t, m.this, idx), Child(m.t, m.this, idx).keys[T]), m.this)

removeFromNonLeaf(t, this, idx) ==
    IF CanLend(t, this, idx)
    THEN LET pred == getPredNode(t, Child(t, this, idx))
         IN  replaceEntry(t, this, idx, Last(pred.keys), Last(pred.vals), Child(t, this, idx))
    ELSE IF CanLend(t, this, idx + 1)
    THEN LET succ == getSuccNode(t, Child(t, this, idx + 1))
         IN  replaceEntry(t, this, idx, succ.keys[1], succ.vals[1], Child(t, this, idx + 1))
    ELSE removeMerged(mergeNodes(t, this, idx), idx)

\* Fault: the child is left at its minimum.
unfilled(t, this, idx) == [t |-> t, this |-> this]
filled(t, this, idx) ==
    IF nEntry(Child(t, this, idx)) < T THEN fillNode(t, this, idx)
    ELSE [t |-> t, this |-> this]

removeBelow(r, idx, key) ==
    LET i == IF idx \in DOMAIN r.this.childs THEN idx ELSE idx - 1
        below == remove(r.t, Child(r.t, r.this, i), key)
    IN  [this |-> r.this, found |-> below.found, t |-> below.t]

remove(t, this, key) ==
    LET idx == Less(this, key) + 1
    IN  IF Holds(this, idx, key)
        THEN IF this.flag = LEAF THEN removeFromLeaf(t, this, idx)
             ELSE removeFromNonLeaf(t, this, idx)
        ELSE IF this.flag = LEAF THEN [this |-> this, found |-> FALSE, t |-> t]
        ELSE removeBelow(filled(t, this, idx), idx, key)

----------------------------------------------------------------------------
(* GET and EXIST *)

\* The value of key below n, or none.
RECURSIVE search(_, _, _, _)
search(t, n, key, none) ==
    LET i == Less(n, key) + 1
    IN  IF Holds(n, i, key) THEN readValueInFile(t, n.vals[i])
        ELSE IF n.flag = LEAF THEN none
        ELSE search(t, READ_NODE(t, n.childs[i]), key, none)
=============================================================================
