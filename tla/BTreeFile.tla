----------------------------- MODULE BTreeFile -----------------------------
(***************************************************************************)
(* The files of the B-tree store: DataFileIO.cpp and the positions that    *)
(* BTree.cpp hands out.  The database file is a header and pages; a page   *)
(* holds one node or ValuesPerPage values.  The position of a node is its  *)
(* page; that of a value is the page and, in two bits, the index in it.    *)
(* The length of the file is counted in cells of one value, ValuesPerPage  *)
(* to a page, since a value written past the end may end the file inside a *)
(* page.                                                                   *)
(*                                                                         *)
(* The operators take the tree's file and positions as a record and return *)
(* it after the call.                                                      *)
(***************************************************************************)
EXTENDS Integers, Sequences, SequencesExt, FiniteSetsExt, TLC

CONSTANTS ValuesPerPage,  \* pageSize / valueSize, 4 in .configB
          Garbage         \* bytes of the file that no SET has written

ASSUME ValuesPerPageAssumption == ValuesPerPage \in 1 .. 4

LEAF == "leaf"
INTERNAL == "internal"
DELETED == "deleted"

Node(flag, pos, keys, vals, childs) ==
    [flag |-> flag, pos |-> pos, keys |-> keys, vals |-> vals, childs |-> childs]

\* WRITE_HEADER_INIT and the lists of a new store: the root will be page 0, and
\* the first value the first one of page 1.
NewFile == [size |-> 0,              \* cells up to the end of the file
            node |-> <<>>,           \* page -> the node written there
            value |-> <<>>,          \* cell -> the value written there
            deletedNodesPos |-> <<>>,  \* queues of positions to use again
            deletedValsPos |-> <<>>,
            nextPosNode |-> 0,       \* the last positions handed out
            nextPosNodeValue |-> 4]

valueIdx(valuePos) == valuePos % 4
pagePos(valuePos) == valuePos \div 4
Cell(valuePos) == pagePos(valuePos) * ValuesPerPage + valueIdx(valuePos)
CellsOf(page) == page * ValuesPerPage .. (page + 1) * ValuesPerPage - 1

\* The page at the end of the file, rounded down as the code does.
EndPage(t) == t.size \div ValuesPerPage

updateNextPosNode(t) == [t EXCEPT !.nextPosNode = EndPage(t)]

updateNextPosNodeValue(t) ==
    [t EXCEPT !.nextPosNodeValue =
        IF valueIdx(@) = ValuesPerPage - 1 THEN EndPage(t) * 4 ELSE @ + 1]

Without(f, S) == Restrict(f, DOMAIN f \ S)

\* A page is overwritten as a whole, past the end of the file if need be.
Overwritten(t, page) ==
    [t EXCEPT !.node = Without(@, {page}), !.value = Without(@, CellsOf(page)),
              !.size = Max({@, (page + 1) * ValuesPerPage})]

writeEmptyBytes(t, page) == Overwritten(t, page)
Placed(t, n) == [t EXCEPT !.node = (n.pos :> n) @@ @]
WRITE_NODE(t, n) == Placed(Overwritten(t, n.pos), n)
READ_NODE(t, page) == t.node[page]

\* Fault: every new value is taken to start a page.
valueAlwaysAppended(t, valuePos, value, isOverWrite) ==
    IF ~isOverWrite THEN [t EXCEPT !.value = (t.size :> value) @@ @, !.size = @ + ValuesPerPage]
    ELSE [t EXCEPT !.value = (Cell(valuePos) :> value) @@ @]
\* A new value at index 0 is appended with the rest of its page; all others are
\* written where valuePos says.
updateValueAt(t, valuePos, value, isOverWrite) ==
    IF valueIdx(valuePos) = 0 /\ ~isOverWrite
    THEN [t EXCEPT !.value = (t.size :> value) @@ @, !.size = @ + ValuesPerPage]
    ELSE [t EXCEPT !.value = (Cell(valuePos) :> value) @@ @,
                   !.node = Without(@, {Cell(valuePos) \div ValuesPerPage}),
                   !.size = Max({@, Cell(valuePos) + 1})]

readValueInFile(t, valuePos) ==
    IF Cell(valuePos) \in DOMAIN t.value THEN t.value[Cell(valuePos)] ELSE Garbage

pushDeletedNode(t, page) == [t EXCEPT !.deletedNodesPos = Append(@, page)]
pushDeletedVal(t, valuePos) == [t EXCEPT !.deletedValsPos = Append(@, valuePos)]

\* A deleted node's page, else the one that other has moved nextPosNode to.
takenNode(t, other) ==
    IF t.deletedNodesPos # <<>>
    THEN [pos |-> Head(t.deletedNodesPos), t |-> [t EXCEPT !.deletedNodesPos = Tail(@)]]
    ELSE [pos |-> other.nextPosNode, t |-> other]

takenVal(t, other) ==
    IF t.deletedValsPos # <<>>
    THEN [pos |-> Head(t.deletedValsPos), t |-> [t EXCEPT !.deletedValsPos = Tail(@)]]
    ELSE [pos |-> other.nextPosNodeValue, t |-> other]

\* The last key is gone: the file is truncated, both queues and their files are
\* emptied, and the positions handed out last are kept.
clearDataDBFile(t) ==
    [t EXCEPT !.size = 0, !.node = <<>>, !.value = <<>>,
              !.deletedNodesPos = <<>>, !.deletedValsPos = <<>>]
=============================================================================
