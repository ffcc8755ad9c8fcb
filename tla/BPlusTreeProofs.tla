-------------------------- MODULE BPlusTreeProofs --------------------------
(***************************************************************************)
(* For every degree, every set of keys and every history: what the header  *)
(* page says of the tree.  What insertion and removal do to the nodes is   *)
(* proved in BPlusNodeProofs and BPlusRemovalProofs.                       *)
(***************************************************************************)
EXTENDS BPlusTree, TLAPS

\* The first page of a new file is at offset 0, which the header was written with.
LEMMA FirstPage == NewStore.root.offSet = 0
<1>1. EmptyFile.delNodePages = <<>> /\ EmptyFile.pages = 0
  BY DEF EmptyFile
<1>2. getNextFreeOffset(EmptyFile).id = 0
  BY <1>1, ValuesPerPageAssumption DEF getNextFreeOffset
<1>3. freeNodePage(EmptyFile).id = 0
  BY <1>1, <1>2 DEF freeNodePage
<1>4. appendNodePageToFile(EmptyFile, EmptyNode(LEAF_NODE)).id = 0
  BY <1>3 DEF appendNodePageToFile, writtenNode
<1> QED
  BY <1>4 DEF NewStore

\* The constructor of BPlusTree.
LEMMA InitNamesRoot == Init => HeaderNamesRoot
  BY FirstPage DEF Init, NewStore, HeaderNamesRoot

\* updateRoot writes the header when the root moves, and only then.
LEMMA UpdateNamesRoot ==
    ASSUME HeaderNamesRoot, NEW r, Becomes(updateRoot(Store, r))
    PROVE  HeaderNamesRoot'
<1>1. header' = updateRoot(Store, r).header /\ root' = r.root
  BY DEF Becomes, updateRoot
<1>2. CASE r.root.offSet = root.offSet
  BY <1>1, <1>2 DEF updateRoot, Store, HeaderNamesRoot
<1>3. CASE r.root.offSet # root.offSet
  BY <1>1, <1>3 DEF updateRoot, Store, HeaderNamesRoot
<1> QED
  BY <1>2, <1>3

\* The header page names the root in use after every SET and DEL, however often
\* the root was split, gave way to its only child or took a removed page, and
\* after every restart (BPlusTree::set, BPlusTree::remove and the constructor).
THEOREM HeaderFollowsRoot == Spec => []HeaderNamesRoot
<1>1. Init => HeaderNamesRoot
  BY InitNamesRoot
<1>2. HeaderNamesRoot /\ [Next]_vars => HeaderNamesRoot'
  <2> SUFFICES ASSUME HeaderNamesRoot, [Next]_vars
               PROVE  HeaderNamesRoot'
    OBVIOUS
  <2>1. ASSUME NEW key \in Key, NEW value \in Value, Set(key, value)
        PROVE  HeaderNamesRoot'
    <3>1. Becomes(updateRoot(Store, insert(db, root, key, value)))
      BY <2>1 DEF Set
    <3> QED
      BY <3>1, UpdateNamesRoot
  <2>2. ASSUME NEW key \in Key, Del(key)
        PROVE  HeaderNamesRoot'
    <3>1. Becomes(updateRoot(Store, remove(db, root, key)))
      BY <2>2 DEF Del
    <3> QED
      BY <3>1, UpdateNamesRoot
  <2>3. CASE Restart
    BY <2>3 DEF Restart, HeaderNamesRoot
  <2>4. CASE UNCHANGED vars
    BY <2>4 DEF vars, HeaderNamesRoot
  <2> QED
    BY <2>1, <2>2, <2>3, <2>4 DEF Next
<1> QED
  BY <1>1, <1>2, PTL DEF Spec
=============================================================================
