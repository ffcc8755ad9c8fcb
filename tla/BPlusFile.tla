----------------------------- MODULE BPlusFile -----------------------------
(***************************************************************************)
(* The database file of the B+ tree store: fileUtils.cpp, with the two     *)
(* free lists of DelNodeList.cpp.  The file is a sequence of pages; a page *)
(* holds either one tree node or ValuesPerPage values.  An offset is       *)
(* |page number|index of the value in the page| (fileUtils.h:42-46), so    *)
(* the offset of a node is that of the first value slot of its page.       *)
(*                                                                         *)
(* The operators take the file as a record and return the file after the   *)
(* call: one call of fileUtils.cpp, one operator.                          *)
(***************************************************************************)
EXTENDS Integers, Sequences, SequencesExt

CONSTANT ValuesPerPage   \* ceil(pageSize / valueSize), 4 in .configBPlus

ASSUME ValuesPerPageAssumption == ValuesPerPage \in Nat \ {0}

Null == 0   \* the offset 0 where a pointer is optional

\* What initialFileWithConfig leaves: no page, and (createNewFile) empty lists.
EmptyFile == [pages |-> 0,            \* pages up to end of file
              node  |-> <<>>,         \* offset -> the node written there
              value |-> <<>>,         \* offset -> the value written there
              delNodePages |-> <<>>,  \* stack of offsets of removed nodes
              delValues |-> <<>>,     \* stack of offsets of removed values
              emptyValueNode |-> 0]   \* last value slot ever taken (0: none)

calculateRealOffset(offSet) ==
    [page |-> offSet \div ValuesPerPage, index |-> offSet % ValuesPerPage]

\* Extends the file by a page and returns the page's offset.
getNextFreeOffset(db) ==
    [id |-> db.pages * ValuesPerPage, db |-> [db EXCEPT !.pages = @ + 1]]

\* The slot after the last one taken, on a fresh page when that page is full.
takenValueSlot(slot) == [slot EXCEPT !.db.emptyValueNode = slot.id]

\* Fault: the last slot of a page counted one too far.
pastPageEnd(db) ==
    LET valueId == db.emptyValueNode
    IN  takenValueSlot(IF valueId = 0 \/ calculateRealOffset(valueId).index = ValuesPerPage
                       THEN getNextFreeOffset(db)
                       ELSE [id |-> valueId + 1, db |-> db])
calculateNextEmtyValueNode(db) ==
    LET valueId == db.emptyValueNode
        nextPos == calculateRealOffset(valueId).index + 1
    IN  takenValueSlot(IF valueId = 0 \/ nextPos = ValuesPerPage
                       THEN getNextFreeOffset(db)
                       ELSE [id |-> valueId + 1, db |-> db])

\* What a part of the file holds after a write at offSet.
Written(part, offSet, data) ==
    [o \in DOMAIN part \cup {offSet} |-> IF o = offSet THEN data ELSE part[o]]

flushNodePageToFile(db, npage, offSet) ==
    [db EXCEPT !.node = Written(@, offSet, npage)]

\* DelNodeList::push and pop, on both lists.
pushDelNode(db, offSet) == [db EXCEPT !.delNodePages = Append(@, offSet)]
pushDelValue(db, offSet) == [db EXCEPT !.delValues = Append(@, offSet)]

\* A removed page if there is one, else a page at the end of the file.
freeNodePage(db) ==
    IF db.delNodePages # <<>>
    THEN [id |-> Last(db.delNodePages), db |-> [db EXCEPT !.delNodePages = Front(@)]]
    ELSE getNextFreeOffset(db)

writtenNode(slot, npage) == [id |-> slot.id, db |-> flushNodePageToFile(slot.db, npage, slot.id)]

appendNodePageToFile(db, npage) == writtenNode(freeNodePage(db), npage)

updateValueToFile(db, value, offSet) ==
    [db EXCEPT !.value = Written(@, offSet, value)]

\* Fault: a removed slot is read from the list and not taken off it.
peekedValueSlot(db) ==
    IF db.delValues # <<>> THEN [id |-> Last(db.delValues), db |-> db]
    ELSE calculateNextEmtyValueNode(db)

\* A removed value's slot if there is one, else the next empty slot.
freeValueSlot(db) ==
    IF db.delValues # <<>>
    THEN [id |-> Last(db.delValues), db |-> [db EXCEPT !.delValues = Front(@)]]
    ELSE calculateNextEmtyValueNode(db)

writtenValue(slot, value) == [id |-> slot.id, db |-> updateValueToFile(slot.db, value, slot.id)]

insertNewValueToFile(db, value) == writtenValue(freeValueSlot(db), value)
=============================================================================
