------------------------------- MODULE BTree -------------------------------
(***************************************************************************)
(* The B-tree store used by one client at a time: BTree.cpp over           *)
(* BTreeNode.cpp and DataFileIO.cpp, opened by KeyValueStoreDisk.  SET and *)
(* DEL are one step each (KeyValueStoreDisk holds its mutex exclusively    *)
(* around them; BTreeStore models the calls' interleaving and the file     *)
(* handles).  GET and EXIST change nothing and are the operators Get and   *)
(* Exist.                                                                  *)
(***************************************************************************)
EXTENDS BTreeNode

CONSTANTS Key,      \* keys, ordered as compareKey orders the code's strings
          Value,
          NotFound, \* GET of a key that is not there
          MaxRestarts  \* bound on the restarts of a behaviour

ASSUME KeyAssumption == Key \subseteq Nat
ASSUME ResultAssumption == Garbage \notin Value /\ NotFound \notin Value \cup {Garbage}

VARIABLES tree,     \* the files and the positions handed out
          root,     \* BTree::root, kept in memory
          rootPos,  \* BTree::rootPos, what the header will say
          last,     \* the last update and its reply
          restarts, \* how often the process was restarted
          lost      \* whether some restart opened another page than the root's

vars == <<tree, root, rootPos, last, restarts, lost>>

NULL == Node("none", 0, <<>>, <<>>, <<>>)

NewStore == [t |-> NewFile, root |-> NULL, rootPos |-> 0]

Init == /\ tree = NewFile
        /\ root = NULL
        /\ rootPos = 0
        /\ last = [op |-> "none"]
        /\ restarts = 0
        /\ lost = FALSE

\* The first key: the root gets the positions handed out last, and rootPos
\* stays what it was.
firstEntry(s, key, value) ==
    LET n == Node(LEAF, s.t.nextPosNode, <<key>>, <<s.t.nextPosNodeValue>>, <<>>)
    IN  [t |-> updateValueAt(WRITE_NODE(s.t, n), s.t.nextPosNodeValue, value, FALSE),
         root |-> n, rootPos |-> s.rootPos]

\* A full root: a new root at page, whose only child is split.
underNewRoot(r, key, value) ==
    [t |-> insertBelow(r, key, value).t, root |-> r.this, rootPos |-> r.this.pos]
growRoot(page, s, key, value) ==
    LET new == Node(INTERNAL, page.pos, <<>>, <<>>, <<s.root.pos>>)
    IN  underNewRoot(afterSplit(splitChild(page.t, new, 1, s.root), 1, key), key, value)

inRoot(s, r) == [t |-> r.t, root |-> r.this, rootPos |-> s.rootPos]

\* BTree::insert and BTree::remove on s = [t, root, rootPos].
insert(s, key, value) ==
    IF s.root = NULL THEN firstEntry(s, key, value)
    ELSE IF Full(s.root) THEN growRoot(takenNode(s.t, updateNextPosNode(s.t)), s, key, value)
    ELSE inRoot(s, insertNonFull(s.t, s.root, key, value))

\* A root without entries: the store is empty, or its only child is the root.
\* In both cases rootPos stays what it was and the old root is written again.
shrinkRoot(s, r) ==
    IF nEntry(r.this) > 0 THEN inRoot(s, r)
    ELSE IF r.this.flag = LEAF
    THEN [t |-> WRITE_NODE(clearDataDBFile(r.t), r.this), root |-> NULL, rootPos |-> s.rootPos]
    ELSE [t |-> WRITE_NODE(pushDeletedNode(r.t, r.this.pos), [r.this EXCEPT !.flag = DELETED]),
          root |-> READ_NODE(r.t, r.this.childs[1]), rootPos |-> s.rootPos]
removed(s, r) == [found |-> r.found] @@ shrinkRoot(s, r)
del(s, key) ==
    IF s.root = NULL THEN [found |-> FALSE] @@ s
    ELSE removed(s, remove(s.t, s.root, key))

Store == [t |-> tree, root |-> root, rootPos |-> rootPos]

Becomes(s) == /\ tree' = s.t
              /\ root' = s.root
              /\ rootPos' = s.rootPos

\* What a store does with a root that is not the tree's is not modelled.
Set(key, value) ==
    /\ ~lost
    /\ Becomes(insert(Store, key, value))
    /\ last' = [op |-> "set", key |-> key, value |-> value]
    /\ UNCHANGED <<restarts, lost>>

Del(key) ==
    /\ ~lost
    /\ \E r \in {del(Store, key)} :
         /\ Becomes(r)
         /\ last' = [op |-> "remove", key |-> key, found |-> r.found]
    /\ UNCHANGED <<restarts, lost>>

\* ~BTree and INIT_STORE.  An empty store removes its file and starts anew; else
\* the header and both queues are written, and read again, and the root is what
\* is on page rootPos (a page with no node reads as one without entries).
reopened(s) ==
    IF s.root = NULL THEN NewStore
    ELSE [t |-> s.t, rootPos |-> s.rootPos,
          root |-> IF s.rootPos \in DOMAIN s.t.node THEN READ_NODE(s.t, s.rootPos)
                   ELSE Node(DELETED, s.rootPos, <<>>, <<>>, <<>>)]
Restart ==
    /\ restarts < MaxRestarts
    /\ ~lost
    /\ restarts' = restarts + 1
    /\ lost' = (root # NULL /\ root.pos # rootPos)
    /\ Becomes(reopened(Store))
    /\ UNCHANGED last

Next == \/ \E key \in Key : Del(key) \/ \E value \in Value : Set(key, value)
        \/ Restart

Spec == Init /\ [][Next]_vars

\* BTree::search does not look below a root without entries.
Get(key) == IF nEntry(root) = 0 THEN NotFound ELSE search(tree, root, key, NotFound)
Exist(key) == Get(key) # NotFound

----------------------------------------------------------------------------
(* The tree as the file holds it *)

RECURSIVE Levels(_)
\* The nodes level by level, from a level on.
Levels(level) ==
    IF \E n \in level : n.flag = LEAF THEN <<level>>
    ELSE <<level>> \o Levels({READ_NODE(tree, p) : p \in UNION {Range(n.childs) : n \in level}})

RECURSIVE InOrder(_)
\* The entries below a node, in the order of the tree.
InOrder(n) ==
    LET Entry(i) == <<[key |-> n.keys[i], val |-> n.vals[i]]>>
    IN  IF n.flag = LEAF THEN FlattenSeq([i \in DOMAIN n.keys |-> Entry(i)])
        ELSE FlattenSeq([i \in DOMAIN n.childs |->
               (IF i = 1 THEN <<>> ELSE Entry(i - 1)) \o InOrder(READ_NODE(tree, n.childs[i]))])

Shape == IF root = NULL THEN <<{}>> ELSE Levels({root})
Live == UNION Range(Shape)
Entries == IF root = NULL THEN <<>> ELSE InOrder(root)
Distinct(seq) == Cardinality(Range(seq)) = Len(seq)

----------------------------------------------------------------------------
(* Properties *)

TypeOK ==
    /\ tree.size \in Nat /\ tree.nextPosNode \in Nat /\ tree.nextPosNodeValue \in Nat
    /\ tree.deletedNodesPos \in Seq(Nat) /\ tree.deletedValsPos \in Seq(Nat)
    /\ \A p \in DOMAIN tree.node :
         LET n == tree.node[p]
         IN  /\ n.pos = p
             /\ n.flag \in {LEAF, INTERNAL, DELETED}
             /\ n.keys \in Seq(Key) /\ n.vals \in Seq(Nat) /\ n.childs \in Seq(Nat)
             /\ Len(n.keys) = Len(n.vals)
    /\ \A c \in DOMAIN tree.value : tree.value[c] \in Value
    /\ rootPos \in Nat

\* The search tree: in the order of the tree keys never decrease, so that a
\* descent that compares at each node finds every key.
Ordered == ~lost => \A i \in 1 .. Len(Entries) - 1 : Entries[i].key <= Entries[i + 1].key

\* Balance: all leaves on the last level, every node but the root with T - 1 to
\* 2 * T - 1 entries, one child more than entries, and no node with two fathers.
\* splitChild and mergeNodes place entries at fixed indices and rely on this.
Balanced ==
    ~lost =>
      /\ \A n \in Live : n.flag = IF n \in Last(Shape) THEN LEAF ELSE INTERNAL
      /\ \A n \in Live \ Last(Shape) : Len(n.childs) = nEntry(n) + 1 /\ Distinct(n.childs)
      /\ \A n, m \in Live \ Last(Shape) : n # m => Range(n.childs) \cap Range(m.childs) = {}
      /\ \A n \in Live : /\ nEntry(n) <= 2 * T - 1
                         /\ nEntry(n) >= IF n = root THEN 1 ELSE T - 1

\* Both together.
SearchTree == Ordered /\ Balanced

\* Pages of nodes: the root in memory is the node on its page, a deleted page is in the queue once, no page of the tree is in
\* it, the nodes on file without the flag DELETED are those of the tree (and the
\* empty root that the last DEL of an emptied store leaves), and no value that
\* a key refers to lies on a page of a node.
NodePagesAccounted ==
    ~lost =>
      LET live == {n.pos : n \in Live}
      IN  /\ root # NULL => root.pos \in DOMAIN tree.node /\ tree.node[root.pos] = root
          /\ Distinct(tree.deletedNodesPos)
          /\ live \cap Range(tree.deletedNodesPos) = {}
          /\ {p \in DOMAIN tree.node : tree.node[p].flag # DELETED /\ nEntry(tree.node[p]) > 0} = live
          /\ {p \in DOMAIN tree.node : tree.node[p].flag = DELETED} = Range(tree.deletedNodesPos)
          /\ \A i \in DOMAIN Entries : pagePos(Entries[i].val) \notin live \cup Range(tree.deletedNodesPos)

\* The store is a map: SET binds its key and no other, DEL unbinds it and reports
\* whether it was there, a restart changes nothing.
KeyValues == [k \in Key |-> Get(k)]
KV == INSTANCE KVMap WITH kv <- KeyValues

\* The same for EXIST, whatever GET returns; a restart that opens another page than
\* the root's breaks it.
KeyMap == [k \in Key |-> Exist(k)]
ExistLast == IF last.op = "set" THEN [last EXCEPT !.value = TRUE] ELSE last
Keys == INSTANCE KVMap WITH kv <- KeyMap, Value <- {TRUE}, NotFound <- FALSE, last <- ExistLast
IsKeySet == Keys!Spec
\* The same unless a restart opens another page than the root's.
IsKeySetUnlessLost == Keys!Init /\ [][lost' \/ Keys!Next]_<<KeyMap, ExistLast>>

\* What README.md:128-137 shows: after "SET a a", "OK", "GET a" answers "a".
SetIsRead == last.op = "set" => Get(last.key) = last.value

\* What is left of it for a key that is not there: the value is read back unless
\* its slot is one given back at the start of a page, which updateValueAt takes for
\* a new page.
SlotReused == tree.deletedValsPos # <<>> /\ valueIdx(Head(tree.deletedValsPos)) = 0
NewSetIsRead ==
    [][\A k \in Key : last' # last /\ last'.op = "set" /\ last'.key = k /\ ~Exist(k) /\ ~SlotReused
         => Get(k)' = last'.value]_vars

\* The same promise for the other keys: a SET changes what GET answers for its
\* own key only.
OthersKept ==
    [][last'.op = "set" /\ restarts' = restarts =>
         \A k \in Key \ {last'.key} : Get(k)' = Get(k)]_vars
=============================================================================
