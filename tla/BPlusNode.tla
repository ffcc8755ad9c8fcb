----------------------------- MODULE BPlusNode -----------------------------
(***************************************************************************)
(* The nodes of the B+ tree and the algorithms on them, from               *)
(* BPlusTreeNode.cpp.  A node has a flag, size keys and size + 1 childs.   *)
(* In an internal node childs[i] is the offset of the i-th child; in a     *)
(* leaf childs[i] is the offset of the value of keys[i] and childs[size]   *)
(* that of the next leaf.  Indices of the code start at 0, those of the    *)
(* sequences here at 1.                                                    *)
(*                                                                         *)
(* The recursion of internalInsert and internalRemove reads nodes on its   *)
(* way down and writes them only on its way back, so each is a fold over   *)
(* the descent from the leaf up to the root.  Where the code changes its   *)
(* argument father, the operator returns it.                               *)
(***************************************************************************)
EXTENDS BPlusFile, FiniteSets

CONSTANT maxDegree   \* a node has at most 2 * maxDegree - 1 keys

\* BPlusTree::BPlusTree falls back to the default page size for maxDegree <= 1.
ASSUME MaxDegreeAssumption == maxDegree \in Nat /\ maxDegree > 1

LEAF_NODE == "leaf"
INTERNAL_NODE == "internal"
REMOVED_NODE == "removed"

Node(flag, keys, childs) == [flag |-> flag, keys |-> keys, childs |-> childs]
EmptyNode(flag) == Node(flag, <<>>, <<Null>>)
Size(n) == Len(n.keys)

\* utils.cpp: the number of keys that are at most key.
indexNodeLarger(keys, key) == Cardinality({i \in DOMAIN keys : keys[i] <= key})
isExisting(keys, key) == key \in Range(keys)
\* The position (from 1) of an existing key; of a new key, where it belongs.
Position(keys, key) == 1 + Cardinality({i \in DOMAIN keys : keys[i] < key})

\* The offsets of the nodes from the one at offSet down to the leaf for key.
Descent(nodes, offSet, key) ==
    LET walk[o \in DOMAIN nodes] ==
          LET n == nodes[o]
          IN  IF n.flag = LEAF_NODE THEN <<o>>
              ELSE <<o>> \o walk[n.childs[1 + indexNodeLarger(n.keys, key)]]
    IN  walk[offSet]

\* The nodes as a descent sees them: the root in memory, the others on file.
NodesFrom(db, root) == Written(db.node, root.offSet, root.node)

----------------------------------------------------------------------------
(* Insertion *)

NoEntry == [split |-> FALSE]
Entry(key, value) == [split |-> TRUE, key |-> key, value |-> value]

\* A node as it is in memory after a call that also writes it to its page.
Flushed(db, this, offSet) == [this |-> this, db |-> flushNodePageToFile(db, this, offSet)]

\* Adds the key with a new value to a leaf.
insertLeftSlot(n, offSet, key, slot) ==
    LET p == Position(n.keys, key)
    IN  Flushed(slot.db, Node(n.flag, InsertAt(n.keys, p, key), InsertAt(n.childs, p, slot.id)),
                offSet)
insertLeft(db, offSet, n, key, value) ==
    insertLeftSlot(n, offSet, key, insertNewValueToFile(db, value))

\* Adds a key with the child to its right to an internal node.
insertRight(db, offSet, n, key, child) ==
    LET p == Position(n.keys, key)
    IN  Flushed(db, Node(n.flag, InsertAt(n.keys, p, key), InsertAt(n.childs, p + 1, child)),
                offSet)

\* Fault: the last child stays behind.
copyWithoutLast(n, l) ==
    Node(n.flag, SubSeq(n.keys, l + 1, Size(n)), SubSeq(n.childs, l + 1, Size(n)))

\* The keys and childs from index l (from 0) to the end of n, for a new node.
copyPartOfNode(n, l) ==
    Node(n.flag, SubSeq(n.keys, l + 1, Size(n)), SubSeq(n.childs, l + 1, Size(n) + 1))

\* The end of a split at the page y: the half that got the new key is in ins,
\* the other as it was cut.  The right half is flushed before the left one.
Halves(db, offSet, left, y, right) ==
    [this |-> left, right |-> right, y |-> y,
     db |-> flushNodePageToFile(flushNodePageToFile(db, right, y), left, offSet)]
IntoLeft(ins, offSet, y, right) == Halves(ins.db, offSet, ins.this, y, right)
IntoRight(ins, offSet, y, left) == Halves(ins.db, offSet, left, y, ins.this)
SplitAt(halves, key) ==
    [entry |-> Entry(key, halves.y), this |-> halves.this, db |-> halves.db]

\* The left half keeps no next leaf on its page: childs[size] is given the right
\* half's offset only after the flush (lines 258-259), in a copy then deleted.
splitLeaf(page, offSet, n, key, value) ==
    LET left == Node(LEAF_NODE, SubSeq(n.keys, 1, maxDegree),
                     Append(SubSeq(n.childs, 1, maxDegree), Null))
        right == copyPartOfNode(n, maxDegree)
    IN  IF left.keys[maxDegree] > key
        THEN IntoLeft(insertLeft(page.db, offSet, left, key, value), offSet, page.id, right)
        ELSE IntoRight(insertLeft(page.db, page.id, right, key, value), offSet, page.id, left)

\* The page of the right half is appended before the value's slot is taken; the
\* entry for father holds the first key of the right half.
leafEntry(halves) == SplitAt(halves, halves.right.keys[1])
insertAndSplitLeaf(db, offSet, n, key, value) ==
    leafEntry(splitLeaf(appendNodePageToFile(db, EmptyNode(LEAF_NODE)), offSet, n, key, value))

\* The middle key moves up, out of both halves.
splitInternal(page, offSet, n, key, child) ==
    LET left == Node(INTERNAL_NODE, SubSeq(n.keys, 1, maxDegree - 1),
                     SubSeq(n.childs, 1, maxDegree))
        right == copyPartOfNode(n, maxDegree)
    IN  IF n.keys[maxDegree] > key
        THEN IntoLeft(insertRight(page.db, offSet, left, key, child), offSet, page.id, right)
        ELSE IntoRight(insertRight(page.db, page.id, right, key, child), offSet, page.id, left)
insertAndSplitInternal(db, offSet, n, key, keyRightChild) ==
    SplitAt(splitInternal(appendNodePageToFile(db, EmptyNode(INTERNAL_NODE)), offSet, n, key,
                          keyRightChild), n.keys[maxDegree])

\* There was room: father gets no entry.
Unsplit(r) == [entry |-> NoEntry, this |-> r.this, db |-> r.db]

leafInsert(db, offSet, n, key, value) ==
    IF isExisting(n.keys, key)
    THEN [entry |-> NoEntry, this |-> n,
          db |-> updateValueToFile(db, value, n.childs[Position(n.keys, key)])]
    ELSE IF Size(n) < 2 * maxDegree - 1
    THEN Unsplit(insertLeft(db, offSet, n, key, value))
    ELSE insertAndSplitLeaf(db, offSet, n, key, value)

\* What an internal node does with the entry its child returned.
entryInsert(db, offSet, n, entry) ==
    IF ~entry.split THEN [entry |-> NoEntry, this |-> n, db |-> db]
    ELSE IF Size(n) = 2 * maxDegree - 1
    THEN insertAndSplitInternal(db, offSet, n, entry.key, entry.value)
    ELSE Unsplit(insertRight(db, offSet, n, entry.key, entry.value))

\* path is the descent to the leaf for key.
internalInsert(db, nodes, path, key, value) ==
    FoldRight(LAMBDA o, r : entryInsert(r.db, o, nodes[o], r.entry),
              Front(path), leafInsert(db, Last(path), nodes[Last(path)], key, value))

\* insert of the root: root is [offSet, node], node the copy kept in memory.
newRoot(page, n) == [root |-> [offSet |-> page.id, node |-> n],
                     db |-> flushNodePageToFile(page.db, n, page.id)]
growRoot(root, r) ==
    IF r.entry.split
    THEN newRoot(appendNodePageToFile(r.db, EmptyNode(INTERNAL_NODE)),
                 Node(INTERNAL_NODE, <<r.entry.key>>, <<root.offSet, r.entry.value>>))
    ELSE [root |-> [root EXCEPT !.node = r.this], db |-> r.db]
insertFrom(db, root, nodes, key, value) ==
    growRoot(root, internalInsert(db, nodes, Descent(nodes, root.offSet, key), key, value))
insert(db, root, key, value) == insertFrom(db, root, NodesFrom(db, root), key, value)

----------------------------------------------------------------------------
(* Removal *)

\* Removes the keys[index] and childs[index], index from 1; a leaf gives the
\* slot of the value back.
removeLeft(db, n, index) ==
    [this |-> Node(n.flag, RemoveAt(n.keys, index), RemoveAt(n.childs, index)),
     db |-> IF n.flag = LEAF_NODE THEN pushDelValue(db, n.childs[index]) ELSE db]

markDelete(db, offSet) ==
    pushDelNode(flushNodePageToFile(db, EmptyNode(REMOVED_NODE), offSet), offSet)

\* Faults: the slot of a borrowed key is put before the others, or is the slot of the
\* key next to it.
borrowRightSlotFirst(db, father, i, n, x, right, y) ==
    LET r == Node(LEAF_NODE, Tail(right.keys), Tail(right.childs))
    IN  [this |-> Node(LEAF_NODE, Append(n.keys, Head(right.keys)),
                       <<Head(right.childs)>> \o SubSeq(n.childs, 1, Size(n)) \o <<y>>),
         father |-> [father EXCEPT !.keys[i] = Head(r.keys)],
         db |-> flushNodePageToFile(db, r, y)]
borrowLeftSlotBefore(db, father, i, n, x, left, y) ==
    LET moved == Last(left.keys)
    IN  [this |-> Node(LEAF_NODE, <<moved>> \o n.keys, <<left.childs[Size(left) - 1]>> \o n.childs),
         father |-> [father EXCEPT !.keys[i - 1] = moved],
         db |-> flushNodePageToFile(db, Node(LEAF_NODE, Front(left.keys),
                                             RemoveAt(left.childs, Size(left))), y)]
\* Faults: a key is borrowed and the separator in father stays.
borrowLeftOnly(db, father, i, n, x, left, y) ==
    [this |-> Node(LEAF_NODE, <<Last(left.keys)>> \o n.keys,
                   <<left.childs[Size(left)]>> \o n.childs),
     father |-> father,
     db |-> flushNodePageToFile(db, Node(LEAF_NODE, Front(left.keys),
                                         RemoveAt(left.childs, Size(left))), y)]
borrowLeftItnOnly(db, father, i, n, x, left, y) ==
    [this |-> Node(INTERNAL_NODE, <<father.keys[i - 1]>> \o n.keys,
                   <<Last(left.childs)>> \o n.childs),
     father |-> father,
     db |-> flushNodePageToFile(db, Node(INTERNAL_NODE, Front(left.keys), Front(left.childs)), y)]

\* A node that must grow, with its sibling and the key between them in father:
\* i is the position (from 1) of the node in father, x its offset.
swapCounterClockWiseLeaf(db, father, i, n, x, right, y) ==
    LET r == Node(LEAF_NODE, Tail(right.keys), Tail(right.childs))
    IN  [this |-> Node(LEAF_NODE, Append(n.keys, Head(right.keys)),
                       SubSeq(n.childs, 1, Size(n)) \o <<Head(right.childs), y>>),
         father |-> [father EXCEPT !.keys[i] = Head(r.keys)],
         db |-> flushNodePageToFile(db, r, y)]

swapClockWiseLeaf(db, father, i, n, x, left, y) ==
    LET moved == Last(left.keys)
    IN  [this |-> Node(LEAF_NODE, <<moved>> \o n.keys, <<left.childs[Size(left)]>> \o n.childs),
         father |-> [father EXCEPT !.keys[i - 1] = moved],
         db |-> flushNodePageToFile(db, Node(LEAF_NODE, Front(left.keys),
                                             RemoveAt(left.childs, Size(left))), y)]

swapCounterClockWiseItn(db, father, i, n, x, right, y) ==
    [this |-> Node(INTERNAL_NODE, Append(n.keys, father.keys[i]),
                   Append(n.childs, Head(right.childs))),
     father |-> [father EXCEPT !.keys[i] = Head(right.keys)],
     db |-> flushNodePageToFile(db, Node(INTERNAL_NODE, Tail(right.keys), Tail(right.childs)), y)]

swapClockWiseItn(db, father, i, n, x, left, y) ==
    [this |-> Node(INTERNAL_NODE, <<father.keys[i - 1]>> \o n.keys,
                   <<Last(left.childs)>> \o n.childs),
     father |-> [father EXCEPT !.keys[i - 1] = Last(left.keys)],
     db |-> flushNodePageToFile(db, Node(INTERNAL_NODE, Front(left.keys), Front(left.childs)), y)]

\* father drops the key at position j and the child there, and the child now at
\* position j is x, the node that absorbed its sibling.
dropFromFather(db, father, j, x) == [removeLeft(db, father, j).this EXCEPT !.childs[j] = x]

leftMergeLeaf(db, father, i, n, x, left, y) ==
    [this |-> Node(LEAF_NODE, left.keys \o n.keys, SubSeq(left.childs, 1, Size(left)) \o n.childs),
     father |-> dropFromFather(db, father, i - 1, x),
     db |-> markDelete(db, y)]

rightMergeLeaf(db, father, i, n, x, right, y) ==
    [this |-> Node(LEAF_NODE, n.keys \o right.keys, SubSeq(n.childs, 1, Size(n)) \o right.childs),
     father |-> dropFromFather(db, father, i, x),
     db |-> markDelete(db, y)]

leftMergeItn(db, father, i, n, x, left, y) ==
    [this |-> Node(INTERNAL_NODE, left.keys \o <<father.keys[i - 1]>> \o n.keys,
                   left.childs \o n.childs),
     father |-> dropFromFather(db, father, i - 1, x),
     db |-> markDelete(db, y)]

rightMergeItn(db, father, i, n, x, right, y) ==
    [this |-> Node(INTERNAL_NODE, n.keys \o <<father.keys[i]>> \o right.keys,
                   n.childs \o right.childs),
     father |-> dropFromFather(db, father, i, x),
     db |-> markDelete(db, y)]

\* Borrow from the right sibling, else from the left one, else merge with the
\* left one, else with the right one.  The siblings are read from the file.
redistribution(db, father, i) ==
    IF i <= Size(father) /\ Size(db.node[father.childs[i + 1]]) > maxDegree - 1
    THEN "counterClockWise"
    ELSE IF i > 1 /\ Size(db.node[father.childs[i - 1]]) > maxDegree - 1
    THEN "clockWise"
    ELSE IF i > 1 THEN "leftMerge" ELSE "rightMerge"

redistributeFromLeaf(db, father, i, n, x) ==
    LET how == redistribution(db, father, i)
        y == father.childs[IF how \in {"counterClockWise", "rightMerge"} THEN i + 1 ELSE i - 1]
    IN  CASE how = "counterClockWise" ->
               swapCounterClockWiseLeaf(db, father, i, n, x, db.node[y], y)
          [] how = "clockWise"  -> swapClockWiseLeaf(db, father, i, n, x, db.node[y], y)
          [] how = "leftMerge"  -> leftMergeLeaf(db, father, i, n, x, db.node[y], y)
          [] how = "rightMerge" -> rightMergeLeaf(db, father, i, n, x, db.node[y], y)

redistributeFromInternal(db, father, i, n, x) ==
    LET how == redistribution(db, father, i)
        y == father.childs[IF how \in {"counterClockWise", "rightMerge"} THEN i + 1 ELSE i - 1]
    IN  CASE how = "counterClockWise" ->
               swapCounterClockWiseItn(db, father, i, n, x, db.node[y], y)
          [] how = "clockWise"  -> swapClockWiseItn(db, father, i, n, x, db.node[y], y)
          [] how = "leftMerge"  -> leftMergeItn(db, father, i, n, x, db.node[y], y)
          [] how = "rightMerge" -> rightMergeItn(db, father, i, n, x, db.node[y], y)

Unchanged(db, father, n) == [this |-> n, father |-> father, db |-> db]

\* A node on its way back from the recursion: written to its page, with its
\* father as redistribution left it.
Returned(db, this, father, x) ==
    [this |-> this, father |-> father, off |-> x, db |-> flushNodePageToFile(db, this, x)]

\* Fault: the leaf is changed in memory and not flushed.
removeUnflushed(d, father, x) == [this |-> d.this, father |-> father, off |-> x, db |-> d.db]

\* The leaf n at offset x is the i-th child of father and holds the key; the
\* root has no father.
removeKey(d, father, x) == Returned(d.db, d.this, father, x)
removeAfter(r, x, key) ==
    removeKey(removeLeft(r.db, r.this, Position(r.this.keys, key)), r.father, x)
leafRemove(db, isRoot, father, i, n, x, key) ==
    removeAfter(IF isRoot \/ Size(n) > maxDegree - 1 THEN Unchanged(db, father, n)
                ELSE redistributeFromLeaf(db, father, i, n, x), x, key)

\* An internal node n at offset x after its child has returned.
returnAfter(r, x) == Returned(r.db, r.this, r.father, x)
\* Fault: redistribution begins one key too late.
internalRemoveLate(db, isRoot, father, i, n, x, child) ==
    returnAfter(IF ~isRoot /\ Size(n) < maxDegree - 2
                THEN redistributeFromInternal(db, father, i, n, x)
                ELSE IF isRoot /\ Size(n) = 0
                THEN Unchanged(db, father, [n EXCEPT !.childs[1] = child])
                ELSE Unchanged(db, father, n), x)

internalRemove(db, isRoot, father, i, n, x, child) ==
    returnAfter(IF ~isRoot /\ Size(n) < maxDegree - 1
                THEN redistributeFromInternal(db, father, i, n, x)
                ELSE IF isRoot /\ Size(n) = 0
                THEN Unchanged(db, father, [n EXCEPT !.childs[1] = child])
                ELSE Unchanged(db, father, n), x)

\* What the root's father would be, and its index there.
NoFather == EmptyNode(INTERNAL_NODE)
Father(nodes, path, l) == IF l = 1 THEN NoFather ELSE nodes[path[l - 1]]
Index(nodes, path, l, key) ==
    IF l = 1 THEN 0 ELSE 1 + indexNodeLarger(nodes[path[l - 1]].keys, key)

\* The leaf at the end of path loses the key, then its ancestors, up to the
\* root, take back the node their child changed and repair themselves.
removeUp(db, nodes, path, key) ==
    FoldRight(LAMBDA l, r : internalRemove(r.db, l = 1, Father(nodes, path, l),
                                           Index(nodes, path, l, key), r.father, path[l], r.off),
              [l \in 1 .. Len(path) - 1 |-> l],
              leafRemove(db, Len(path) = 1, Father(nodes, path, Len(path)),
                         Index(nodes, path, Len(path), key), nodes[Last(path)], Last(path), key))

\* Fault: the page of the old root is forgotten.
shrinkRootOnly(root, r) ==
    IF Size(r.this) = 0 /\ r.this.flag # LEAF_NODE
    THEN [found |-> TRUE, db |-> r.db,
          root |-> [offSet |-> r.this.childs[1], node |-> r.db.node[r.this.childs[1]]]]
    ELSE [found |-> TRUE, db |-> r.db, root |-> [root EXCEPT !.node = r.this]]

\* An internal root without keys gives way to its only child.
shrinkRoot(root, r) ==
    IF Size(r.this) = 0 /\ r.this.flag # LEAF_NODE
    THEN [found |-> TRUE, db |-> markDelete(r.db, root.offSet),
          root |-> [offSet |-> r.this.childs[1], node |-> r.db.node[r.this.childs[1]]]]
    ELSE IF Size(r.this) = 0
    THEN [found |-> TRUE, db |-> r.db, root |-> [root EXCEPT !.node = EmptyNode(LEAF_NODE)]]
    ELSE [found |-> TRUE, db |-> r.db, root |-> [root EXCEPT !.node = r.this]]

\* remove of the root: NULL (found is FALSE) when the leaf has no such key.
removeFrom(db, root, nodes, path, key) ==
    IF isExisting(nodes[Last(path)].keys, key)
    THEN shrinkRoot(root, removeUp(db, nodes, path, key))
    ELSE [found |-> FALSE, root |-> root, db |-> db]
remove(db, root, key) ==
    removeFrom(db, root, NodesFrom(db, root), Descent(NodesFrom(db, root), root.offSet, key), key)

----------------------------------------------------------------------------
(* Reading *)

LeafFor(nodes, offSet, key) == nodes[Last(Descent(nodes, offSet, key))]

valueOf(db, leaf, key, NotFound) ==
    IF isExisting(leaf.keys, key) THEN db.value[leaf.childs[Position(leaf.keys, key)]] ELSE NotFound

get(db, root, key, NotFound) ==
    valueOf(db, LeafFor(NodesFrom(db, root), root.offSet, key), key, NotFound)

exist(db, root, key) == isExisting(LeafFor(NodesFrom(db, root), root.offSet, key).keys, key)
=============================================================================
