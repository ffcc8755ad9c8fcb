----------------------------- MODULE PageLayout -----------------------------
(***************************************************************************)
(* The sizes of the B+ tree's file: how the constructors of MetaData and   *)
(* BPlusTree derive the degree of a node and the bits of a value's index   *)
(* from the configured sizes, and which bytes the offsets handed out       *)
(* afterwards stand for.  BPlusFile takes maxDegree and ValuesPerPage as   *)
(* constants and offsets as page and index; this module is about whether   *)
(* the arithmetic gives that.  Bytes are counted from the end of the       *)
(* header page.  Freed pages and slots, which are offsets handed out       *)
(* before, are left to ValueAlloc and BPlusFile.                           *)
(***************************************************************************)
EXTENDS Integers, Sequences, SequencesExt, FiniteSetsExt

CONSTANTS Config,      \* the configured sizes, [pageSize, keySize, valueSize]
          MaxExtents   \* bound on the writes of new pages and values

uint16 == {n \in Nat : n < 65536}
ConfiguredSizes == [pageSize : uint16, keySize : uint16, valueSize : uint16 \ {0}]
Default == [pageSize |-> 4096, keySize |-> 35, valueSize |-> 1024]
OffsetSize == 8     \* sizeof(uint64_t)
FlagAndSize == 3   \* uint8_t and uint16_t

\* calculateMaxDegree computes in uint16_t.  Sizes whose first try, or whose try after
\* the last that fits, is above 65535 wrap around and are left out.
NoWrap(m) == 3 * m.keySize + 42 < 65536 /\ m.pageSize + 2 * m.keySize + 24 < 65536
ASSUME ConfigAssumption == \A m \in Config : m \in ConfiguredSizes /\ NoWrap(m)

VARIABLES meta,             \* the sizes in use
          maxDeg,           \* calculateMaxDegree's loop variable, then the degree
          bSizeOfValueIdx,
          opening,          \* "loop", "degree" (it has returned) or "ready"
          defaulted,        \* the configured sizes were given up
          eof,              \* the length of the file
          emptyOffset,      \* emptyValueNode, the last value slot taken
          extents,          \* the bytes written to new pages and slots, in order
          spilled           \* history: a slot that its page has no room for was taken

sizeVars == <<meta, maxDeg, bSizeOfValueIdx, opening, defaulted>>
layoutVars == <<sizeVars, eof, emptyOffset, extents, spilled>>

u16(n) == n % 65536

LayoutInit ==
    /\ meta \in Config
    /\ maxDeg = 2
    /\ bSizeOfValueIdx = 0
    /\ opening = "loop"
    /\ defaulted = FALSE
    /\ eof = 0
    /\ emptyOffset = 0
    /\ extents = <<>>
    /\ spilled = FALSE

\* The bytes writeNodePageToFile writes for a node.
NodeBytes(deg) == 2 * deg * OffsetSize + (2 * deg - 1) * meta.keySize + FlagAndSize

\* Fault: flag and size are forgotten.
NoRoom(n) == (8 - (n % 8)) % 8
\* Up to the next multiple of 8, with room for flag and size.
Padding(n) == LET pad == 8 - (n % 8) IN IF pad >= FlagAndSize THEN pad ELSE pad + 8

keysBytes(deg) == (2 * deg - 1) * meta.keySize

tmpPageSize == u16(2 * maxDeg * OffsetSize + keysBytes(maxDeg) + Padding(keysBytes(maxDeg)))

\* Fault: the loop does not go on.
TryAgain ==
    /\ opening = "loop" /\ tmpPageSize < meta.pageSize
    /\ UNCHANGED layoutVars

Grow ==
    /\ opening = "loop" /\ tmpPageSize < meta.pageSize
    /\ maxDeg' = u16(maxDeg + 1)
    /\ UNCHANGED <<meta, bSizeOfValueIdx, opening, defaulted, eof, emptyOffset, extents, spilled>>

bit(b) == 2 ^ b   \* 1 << b
countBits(n) == CHOOSE b \in 0 .. 16 : n < bit(b) /\ (b = 0 \/ n >= bit(b - 1))

\* Fault: bits for the number of slots before the last.
bitsShort == IF meta.pageSize < meta.valueSize THEN 0 ELSE countBits((meta.pageSize \div meta.valueSize - 1) \div 2)
calculateBitSizeValueIndex ==
    IF meta.pageSize < meta.valueSize THEN 0 ELSE countBits(meta.pageSize \div meta.valueSize - 1)

DegreeFound ==
    /\ opening = "loop" /\ tmpPageSize >= meta.pageSize
    /\ opening' = "degree"
    /\ maxDeg' = IF tmpPageSize = meta.pageSize THEN maxDeg ELSE maxDeg - 1
    /\ bSizeOfValueIdx' = calculateBitSizeValueIndex
    /\ UNCHANGED <<meta, defaulted, eof, emptyOffset, extents, spilled>>

Unusable == maxDeg <= 1 \/ bSizeOfValueIdx = 0

\* The sizes of the code replace the configured ones, and are computed with again.
FallBack ==
    /\ opening = "degree" /\ ~defaulted /\ Unusable
    /\ meta' = Default
    /\ defaulted' = TRUE
    /\ maxDeg' = 2
    /\ opening' = "loop"
    /\ UNCHANGED <<bSizeOfValueIdx, eof, emptyOffset, extents, spilled>>

----------------------------------------------------------------------------
(* Offsets: |node id|index of the value|, the index in bSizeOfValueIdx bits *)

calculateRealOffset(offSet) ==
    (offSet \div bit(bSizeOfValueIdx)) * meta.pageSize + (offSet % bit(bSizeOfValueIdx)) * meta.valueSize

calculatePageNodeID(realOffSet) == (realOffSet \div meta.pageSize) * bit(bSizeOfValueIdx)

\* The offset; the file grows by a page.
getNextFreeOffset == calculatePageNodeID(eof)

nextPos == (calculateRealOffset(emptyOffset) % meta.pageSize) \div meta.valueSize + 1

ceilValues == (meta.pageSize + meta.valueSize - 1) \div meta.valueSize

Full == emptyOffset = 0 \/ nextPos = ceilValues

\* The slots that lie in a page from end to end.  Where valueSize does not divide pageSize
\* ceilValues is one more.
wholeValues == meta.pageSize \div meta.valueSize

\* id | pos, for an id whose index is 0 and a pos of at most bit(bSizeOfValueIdx): only
\* then may both have a bit set, the lowest of the page's.
withIndex(id, p) ==
    LET low == bit(bSizeOfValueIdx)
    IN  IF p = low /\ (id \div low) % 2 = 1 THEN id ELSE id + p

\* The write of n bytes at an offset, after the file has grown to end.
WriteAt(offSet, n, end) ==
    LET at == calculateRealOffset(offSet)
    IN  /\ extents' = Append(extents, [at |-> at, to |-> at + n])
        /\ eof' = Max({end, at + n})

\* The sizes stand, and the root of the new tree takes the first page.
Opened ==
    /\ opening = "degree" /\ (defaulted \/ ~Unusable)
    /\ opening' = "ready"
    /\ WriteAt(getNextFreeOffset, NodeBytes(maxDeg), eof + meta.pageSize)
    /\ UNCHANGED <<meta, maxDeg, bSizeOfValueIdx, defaulted, emptyOffset, spilled>>

\* appendNodePageToFile.
AppendNode ==
    /\ opening = "ready" /\ Len(extents) < MaxExtents
    /\ WriteAt(getNextFreeOffset, NodeBytes(maxDeg), eof + meta.pageSize)
    /\ UNCHANGED <<sizeVars, emptyOffset, spilled>>

\* insertNewValueToFile, by calculateNextEmtyValueNode.
AppendValue ==
    /\ opening = "ready" /\ Len(extents) < MaxExtents
    /\ \/ /\ Full
          /\ emptyOffset' = getNextFreeOffset
          /\ WriteAt(emptyOffset', meta.valueSize, eof + meta.pageSize)
          /\ UNCHANGED spilled
       \/ /\ ~Full
          /\ emptyOffset' = withIndex(calculatePageNodeID(calculateRealOffset(emptyOffset)), nextPos)
          /\ WriteAt(emptyOffset', meta.valueSize, eof)
          /\ spilled' = (spilled \/ nextPos >= wholeValues)
    /\ UNCHANGED sizeVars

LayoutRest == opening = "ready" /\ Len(extents) = MaxExtents /\ UNCHANGED layoutVars

LayoutNext == Grow \/ DegreeFound \/ FallBack \/ Opened \/ AppendNode \/ AppendValue \/ LayoutRest

LayoutSpec == LayoutInit /\ [][LayoutNext]_layoutVars
\* A constructor runs on by itself.
FairLayout == LayoutSpec /\ WF_layoutVars(Grow \/ DegreeFound \/ FallBack \/ Opened)

----------------------------------------------------------------------------
(* Properties *)

NoneMeet == \A i, j \in DOMAIN extents : i < j => extents[i].to <= extents[j].at \/ extents[j].to <= extents[i].at

\* No two writes of new pages and slots meet, over any order of node pages and values and
\* for all sizes, until the slot is handed out that ceil in calculateNextEmtyValueNode adds
\* to a page: a node may not run into the next page, nor a value into a node or another
\* value.  That slot is handed out only where valueSize does not divide pageSize.
WritesApart == IF spilled THEN meta.pageSize % meta.valueSize # 0 ELSE NoneMeet

\* What writeNodePageToFile writes fits the page, and a degree more would not, up to
\* the padding that calculateMaxDegree counts on top.
DegreeTight == opening = "ready" => NodeBytes(maxDeg) <= meta.pageSize /\ NodeBytes(maxDeg + 1) + 7 > meta.pageSize

\* Opening ends, in the configured sizes or in the default ones, with a usable tree.
Opens == <>(opening = "ready" /\ ~Unusable)
=============================================================================
