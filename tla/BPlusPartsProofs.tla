-------------------------- MODULE BPlusPartsProofs --------------------------
(***************************************************************************)
(* The parts below the B+ tree, for nodes and lists of any length, any     *)
(* number of keys and restarts, and all configured sizes: the searches     *)
(* read inside the array and find the place; what a process that dies, and *)
(* one that ends, leave of a free list; slots are exclusive until a        *)
(* restart finds the header behind; the degree is the largest that fits a  *)
(* page, and no two writes of new pages and slots meet.                    *)
(***************************************************************************)
EXTENDS KeySearch, FreeList, ValueAlloc, PageLayout, TLAPS

----------------------------------------------------------------------------
(* The binary searches *)

USE SearchBoundsAssumption

SearchIInv == SearchTypeOK /\ LoopInv /\ Parts

LEMMA SearchInitHolds == SearchInit => SearchIInv
  <1> SUFFICES ASSUME SearchInit PROVE SearchIInv
    OBVIOUS
  <1>1. size \in Nat /\ array \in [0 .. size - 1 -> KeyRange] /\ KeyRange \subseteq Int
    BY DEF SearchInit, KeyRange
  <1>2. SearchTypeOK
    BY <1>1 DEF SearchInit, SearchTypeOK, KeyRange, lastKey
  <1>3. LoopInv
    BY <1>1 DEF SearchInit, LoopInv, lastKey
  <1> QED
    BY <1>2, <1>3 DEF SearchIInv, Parts, SearchInit

\* The probe of an iteration lies between left and right.
LEMMA Middle ==
    ASSUME SearchIInv, pc = "loop", size # 0, left <= right
    PROVE  middle \in 0 .. size - 1 /\ left <= middle /\ middle <= right
  BY DEF SearchIInv, SearchTypeOK, LoopInv, middle

\* After the loop the last probe is next to left, on one side or the other.
LEMMA LastProbe ==
    ASSUME SearchIInv, pc = "loop", size # 0, left > right
    PROVE  mid \in 0 .. size - 1 /\ left = right + 1 /\ (mid = left - 1 \/ mid = left)
  BY DEF SearchIInv, SearchTypeOK, LoopInv

\* An iteration keeps what is known of both sides, or returns the key's place.
LEMMA ProbeStep ==
    ASSUME SearchIInv, Probe
    PROVE  SearchIInv'
  <1> DEFINE m == middle
  <1>1. /\ mid' = m /\ pc = "loop" /\ size # 0 /\ left <= right
        /\ UNCHANGED <<array, size, key, larger>>
    BY DEF Probe, args
  <1>2. m \in 0 .. size - 1 /\ left <= m /\ m <= right
    BY <1>1, Middle
  <1>3. /\ size \in Nat /\ left \in Int /\ right \in Int /\ key \in Int
        /\ m \in Int /\ \A i \in 0 .. size - 1 : array[i] \in Int
        /\ Increasing(array, size)
        /\ 0 <= left /\ right < size
        /\ \A i \in 0 .. size - 1 : (i < left => array[i] < key) /\ (i > right => array[i] > key)
    BY <1>1, <1>2 DEF SearchIInv, SearchTypeOK, LoopInv
  <1> HIDE DEF m
  <1>4. CASE array[m] = key /\ Return(IF larger THEN m + 1 ELSE m) /\ UNCHANGED <<left, right>>
    <2>1. pc' = "done" /\ res' = IF larger THEN m + 1 ELSE m
      BY <1>4 DEF Return
    <2>2. SearchTypeOK'
      BY <1>1, <1>3, <1>4, <2>1 DEF SearchIInv, SearchTypeOK
    <2>3. \A i \in 0 .. size - 1 : (i < m => array[i] < key) /\ (m < i => key < array[i])
      BY <1>2, <1>3, <1>4 DEF Increasing
    <2>4. \A i \in 0 .. size - 1 : i < res' <=> IF larger THEN array[i] <= key ELSE array[i] < key
      BY <1>2, <1>3, <1>4, <2>1, <2>3
    <2>5. Parts'
      BY <1>1, <2>4 DEF Parts
    <2>6. LoopInv'
      BY <1>1, <1>2, <1>3, <2>1 DEF LoopInv, Increasing
    <2> QED
      BY <2>2, <2>5, <2>6 DEF SearchIInv
  <1>5. CASE array[m] < key /\ left' = m + 1 /\ UNCHANGED <<right, pc, res>>
    <2>1. SearchTypeOK'
      BY <1>1, <1>3, <1>5 DEF SearchIInv, SearchTypeOK
    <2>2. \A i \in 0 .. size - 1 : i < left' => array[i] < key
      BY <1>2, <1>3, <1>5 DEF Increasing
    <2>3. LoopInv'
      BY <1>1, <1>2, <1>3, <1>5, <2>2 DEF LoopInv, Increasing
    <2> QED
      BY <1>1, <1>5, <2>1, <2>3 DEF SearchIInv, Parts
  <1>6. CASE array[m] > key /\ right' = m - 1 /\ UNCHANGED <<left, pc, res>>
    <2>1. SearchTypeOK'
      BY <1>1, <1>3, <1>6 DEF SearchIInv, SearchTypeOK
    <2>2. \A i \in 0 .. size - 1 : i > right' => array[i] > key
      BY <1>2, <1>3, <1>6 DEF Increasing
    <2>3. LoopInv'
      BY <1>1, <1>2, <1>3, <1>6, <2>2 DEF LoopInv, Increasing
    <2> QED
      BY <1>1, <1>6, <2>1, <2>3 DEF SearchIInv, Parts
  <1> QED
    BY <1>1, <1>4, <1>5, <1>6 DEF Probe

\* What follows the loop turns the last probe into the place.
LEMMA ExitStep ==
    ASSUME SearchIInv, Exit
    PROVE  SearchIInv'
  <1>1. /\ pc = "loop" /\ size # 0 /\ left > right
        /\ pc' = "done" /\ res' = IF array[mid] < key THEN mid + 1 ELSE mid
        /\ UNCHANGED <<array, size, key, larger, left, right, mid>>
    BY DEF Exit, Return, args
  <1>2. mid \in 0 .. size - 1 /\ left = right + 1 /\ (mid = left - 1 \/ mid = left)
    BY <1>1, LastProbe
  <1>3. /\ size \in Nat /\ left \in Int /\ right \in Int /\ key \in Int
        /\ \A i \in 0 .. size - 1 : array[i] \in Int
        /\ \A i \in 0 .. size - 1 : (i < left => array[i] < key) /\ (i > right => array[i] > key)
    BY <1>1 DEF SearchIInv, SearchTypeOK, LoopInv
  <1>4. res' = left
    BY <1>1, <1>2, <1>3
  <1>5. \A i \in 0 .. size - 1 : i < res' <=> IF larger THEN array[i] <= key ELSE array[i] < key
    BY <1>2, <1>3, <1>4
  <1>6. Parts'
    BY <1>1, <1>5 DEF Parts
  <1>7. SearchTypeOK'
    BY <1>1, <1>3, <1>4 DEF SearchIInv, SearchTypeOK
  <1>8. LoopInv'
    BY <1>1, <1>2, <1>3, <1>4 DEF SearchIInv, LoopInv, Increasing
  <1> QED
    BY <1>6, <1>7, <1>8 DEF SearchIInv

LEMMA NoKeysStep ==
    ASSUME SearchIInv, NoKeys
    PROVE  SearchIInv'
  <1>1. /\ size = 0 /\ pc' = "done" /\ res' = -1
        /\ UNCHANGED <<array, size, key, larger, left, right, mid>>
    BY DEF NoKeys, Return, args
  <1> QED
    BY <1>1 DEF SearchIInv, SearchTypeOK, LoopInv, Increasing, Parts

\* The loop invariant holds for nodes of any size.
THEOREM SearchInvariant == SearchSpec => []SearchIInv
  <1>1. SearchInit => SearchIInv
    BY SearchInitHolds
  <1>2. ASSUME SearchIInv, [SearchNext]_searchVars PROVE SearchIInv'
    <2>1. CASE UNCHANGED searchVars
      BY <1>2, <2>1 DEF searchVars, args, SearchIInv, SearchTypeOK, LoopInv, Increasing, Parts
    <2> QED
      BY <1>2, <2>1, ProbeStep, ExitStep, NoKeysStep DEF SearchNext, Returned
  <1> QED
    BY <1>1, <1>2, PTL DEF SearchSpec

\* utils.cpp:9-59: no read outside the array.
THEOREM SearchInBounds == SearchSpec => []ReadsInBounds
  <1>1. SearchIInv => ReadsInBounds
    <2> SUFFICES ASSUME SearchIInv, pc = "loop", size # 0
                 PROVE  (IF left <= right THEN middle ELSE mid) \in 0 .. size - 1
      BY DEF ReadsInBounds
    <2>1. left \in Int /\ right \in Int
      BY DEF SearchIInv, SearchTypeOK
    <2> QED
      BY <2>1, Middle, LastProbe
  <1> QED
    BY <1>1, SearchInvariant, PTL

\* utils.cpp:9-59: the answer is the place.
THEOREM SearchParts == SearchSpec => []Parts
  <1>1. SearchIInv => Parts
    BY DEF SearchIInv
  <1> QED
    BY <1>1, SearchInvariant, PTL

\* utils.cpp: isExisting answers whether the key is in the node.
THEOREM SearchExists == SearchSpec => []ExistsIffThere
  <1>1. ASSUME SearchIInv PROVE ExistsIffThere
    <2> SUFFICES ASSUME pc = "done", ~larger
                 PROVE  isExisting <=> \E i \in 0 .. size - 1 : array[i] = key
      BY DEF ExistsIffThere
    <2>1. size \in Nat /\ key \in Int /\ res \in Int /\ \A i \in 0 .. size - 1 : array[i] \in Int
      BY <1>1 DEF SearchIInv, SearchTypeOK
    <2>2. CASE size = 0
      BY <1>1, <2>1, <2>2 DEF SearchIInv, LoopInv, isExisting, indexNodeEqual
    <2>3. CASE size # 0
      <3>1. /\ res \in 0 .. size
            /\ Increasing(array, size)
            /\ \A i \in 0 .. size - 1 : i < res <=> array[i] < key
        BY <1>1, <2>3 DEF SearchIInv, LoopInv, Parts
      <3>2. ASSUME NEW i \in 0 .. size - 1, array[i] = key PROVE i = res
        <4>1. ~(i < res)
          BY <2>1, <3>1, <3>2
        <4>2. ~(res < i)
          BY <2>1, <3>1, <3>2 DEF Increasing
        <4> QED
          BY <2>1, <3>1, <4>1, <4>2
      <3>3. isExisting <=> res < size /\ array[res] = key
        BY <2>1, <3>1 DEF isExisting, indexNodeEqual
      <3> QED
        BY <2>1, <3>1, <3>2, <3>3
    <2> QED
      BY <2>2, <2>3
  <1> QED
    BY <1>1, SearchInvariant, PTL

HIDE SearchBoundsAssumption

----------------------------------------------------------------------------
(* The free lists *)

USE MaxEntriesAssumption

ListIInv == ListTypeOK /\ Behind /\ CrashLosesLittle

\* The list after a pop and after a push.
LEMMA PopLength ==
    ASSUME NEW S, NEW s \in Seq(S), s # <<>>
    PROVE  /\ Front(s) \in Seq(S)
           /\ Len(s) \in Nat /\ Len(s) > 0
           /\ Len(Front(s)) = Len(s) - 1
           /\ \A i \in 1 .. Len(s) - 1 : Front(s)[i] = s[i]
  <1>1. Len(s) \in Nat /\ Len(s) > 0
    OBVIOUS
  <1>2. /\ Front(s) \in Seq(S)
        /\ DOMAIN Front(s) = 1 .. Len(s) - 1
        /\ \A i \in 1 .. Len(s) - 1 : Front(s)[i] = s[i]
    BY DEF Front
  <1>3. Len(Front(s)) = Len(s) - 1
    <2>1. 1 .. Len(Front(s)) = 1 .. Len(s) - 1 /\ Len(Front(s)) \in Nat
      BY <1>2
    <2> QED
      BY <1>1, <2>1
  <1> QED
    BY <1>1, <1>2, <1>3

LEMMA ListInitHolds == ListInit => ListIInv
  BY DEF ListInit, ListIInv, ListTypeOK, Behind, CrashLosesLittle, Data, Empty

\* What a seek leaves on file: the whole list.
LEMMA Flushed ==
    ASSUME ListIInv
    PROVE  /\ cellFlushed \in [1 .. MaxEntries -> Data]
           /\ \A i \in 1 .. Len(dList) : cellFlushed[i] = dList[i]
           /\ step = "rest" => sizeFlushed = Len(dList)
           /\ step = "push" => sizeFlushed = Len(dList) + 1
           /\ Len(dList) \in 0 .. MaxEntries
  <1>1. /\ Len(dList) \in 0 .. MaxEntries
        /\ cell \in [1 .. MaxEntries -> Data]
        /\ buffer.to \in {"none", "size", "cell"} /\ buffer.data \in Data
    BY DEF ListIInv, ListTypeOK, Behind
  <1>2. /\ step = "rest" => sizeFlushed = Len(dList)
        /\ step = "push" => sizeFlushed = Len(dList) + 1
    BY <1>1 DEF ListIInv, ListTypeOK, Behind, sizeFlushed, SetSize
  <1>3. CASE buffer.to = "cell"
    <2>1. buffer.at = Len(dList) /\ buffer.data = dList[Len(dList)] /\ Len(dList) \in 1 .. MaxEntries
      BY <1>1, <1>3 DEF ListIInv, ListTypeOK, Behind
    <2>2. cellFlushed = [cell EXCEPT ![Len(dList)] = dList[Len(dList)]]
      BY <1>3, <2>1 DEF cellFlushed
    <2>3. \A i \in 1 .. Len(dList) - 1 : cell[i] = dList[i]
      BY DEF ListIInv, CrashLosesLittle
    <2> QED
      BY <1>1, <1>2, <2>1, <2>2, <2>3, SMTT(30)
  <1>4. CASE buffer.to # "cell"
    BY <1>1, <1>2, <1>4 DEF ListIInv, CrashLosesLittle, cellFlushed
  <1> QED
    BY <1>3, <1>4

LEMMA PushSizeStep ==
    ASSUME ListIInv, NEW v \in Entry, PushSize(v)
    PROVE  ListIInv'
  <1>1. /\ step = "rest" /\ Len(dList) < MaxEntries /\ UNCHANGED dList
        /\ fileSize' = sizeFlushed /\ cell' = cellFlushed
        /\ buffer' = SetSize(Len(dList) + 1) /\ arg' = v /\ step' = "push"
    BY DEF PushSize, Flush
  <1>2. /\ cell' \in [1 .. MaxEntries -> Data] /\ fileSize' = Len(dList) /\ Len(dList) \in 0 .. MaxEntries
        /\ \A i \in 1 .. Len(dList) : cell'[i] = dList[i]
    BY <1>1, Flushed
  <1>3. buffer' = [to |-> "size", at |-> Len(dList) + 1, data |-> Garbage]
    BY <1>1 DEF SetSize
  <1>4. ListTypeOK'
    BY <1>1, <1>2, <1>3 DEF ListIInv, ListTypeOK, Data
  <1>5. Behind'
    BY <1>1, <1>2, <1>3 DEF Behind, SetSize
  <1>6. CrashLosesLittle'
    BY <1>1, <1>2, <1>3 DEF CrashLosesLittle
  <1> QED
    BY <1>4, <1>5, <1>6 DEF ListIInv

LEMMA PushValueStep ==
    ASSUME ListIInv, PushValue
    PROVE  ListIInv'
  <1> DEFINE n == Len(dList)
  <1>1. /\ step = "push" /\ dList' = Append(dList, arg)
        /\ fileSize' = sizeFlushed /\ cell' = cellFlushed
        /\ buffer' = SetValue(arg, n + 1) /\ arg' = Garbage /\ step' = "rest"
    BY DEF PushValue, Flush
  <1>2. dList \in Seq(Data) /\ arg \in Data /\ n < MaxEntries
    BY <1>1 DEF ListIInv, ListTypeOK, Behind
  <1>3. /\ cell' \in [1 .. MaxEntries -> Data] /\ fileSize' = n + 1 /\ n \in 0 .. MaxEntries
        /\ \A i \in 1 .. n : cell'[i] = dList[i]
    BY <1>1, Flushed
  <1>4. /\ dList' \in Seq(Data) /\ Len(dList') = n + 1 /\ dList'[n + 1] = arg
        /\ \A i \in 1 .. n : dList'[i] = dList[i]
    BY <1>1, <1>2
  <1>5. buffer' = [to |-> "cell", at |-> n + 1, data |-> arg]
    BY <1>1 DEF SetValue
  <1> HIDE DEF n
  <1>6. ListTypeOK'
    BY <1>1, <1>2, <1>3, <1>4, <1>5 DEF ListTypeOK, Data
  <1>7. Behind'
    <2>1. dList' # <<>>
      BY <1>3, <1>4
    <2> QED
      BY <1>1, <1>2, <1>3, <1>4, <1>5, <2>1 DEF Behind
  <1>8. CrashLosesLittle'
    BY <1>3, <1>4, <1>5 DEF CrashLosesLittle
  <1> QED
    BY <1>6, <1>7, <1>8 DEF ListIInv

LEMMA PopStep ==
    ASSUME ListIInv, Pop
    PROVE  ListIInv'
  <1> DEFINE n == Len(dList)
  <1>1. /\ step = "rest" /\ dList # <<>> /\ dList' = Front(dList)
        /\ fileSize' = sizeFlushed /\ cell' = cellFlushed
        /\ buffer' = SetSize(n - 1) /\ UNCHANGED <<step, arg>>
    BY DEF Pop, Flush
  <1>2. dList \in Seq(Data) /\ arg \in Data
    BY DEF ListIInv, ListTypeOK
  <1>3. /\ cell' \in [1 .. MaxEntries -> Data] /\ fileSize' = n /\ n \in 0 .. MaxEntries
        /\ \A i \in 1 .. n : cell'[i] = dList[i]
    BY <1>1, Flushed
  <1>4. /\ dList' \in Seq(Data) /\ Len(dList') = n - 1 /\ n > 0
        /\ \A i \in 1 .. n - 1 : dList'[i] = dList[i]
    BY <1>1, <1>2, PopLength
  <1>5. buffer' = [to |-> "size", at |-> n - 1, data |-> Garbage]
    BY <1>1 DEF SetSize
  <1> HIDE DEF n
  <1>6. ListTypeOK'
    BY <1>1, <1>2, <1>3, <1>4, <1>5 DEF ListTypeOK, Data
  <1>7. Behind'
    BY <1>1, <1>3, <1>4, <1>5 DEF Behind
  <1>8. CrashLosesLittle'
    BY <1>3, <1>4, <1>5, SMTT(30) DEF CrashLosesLittle
  <1> QED
    BY <1>6, <1>7, <1>8 DEF ListIInv

\* A list read from the file, when nothing is in the buffer, is the list on file.
LEMMA ReadBack ==
    ASSUME NEW n \in 0 .. MaxEntries, NEW c \in [1 .. MaxEntries -> Data],
           dList' = ListOnFile(n, c), fileSize' = n, cell' = c,
           buffer' = Empty, step' = "rest", arg' \in Data
    PROVE  ListIInv'
  <1>1. /\ dList' \in Seq(Data) /\ Len(dList') = n
        /\ \A i \in 1 .. n : dList'[i] = c[i]
    BY DEF ListOnFile
  <1>2. buffer' = [to |-> "none", at |-> 0, data |-> Garbage]
    BY DEF Empty
  <1>3. ListTypeOK'
    BY <1>1, <1>2 DEF ListTypeOK, Data
  <1>4. Behind'
    BY <1>1, <1>2 DEF Behind
  <1>5. CrashLosesLittle'
    BY <1>1, <1>2 DEF CrashLosesLittle
  <1> QED
    BY <1>3, <1>4, <1>5 DEF ListIInv

\* The file and the buffer stay within one write of the list.
THEOREM FreeListInvariant == ListSpec => []ListIInv
  <1>1. ListInit => ListIInv
    BY ListInitHolds
  <1>2. ASSUME ListIInv, [ListNext]_listVars PROVE ListIInv'
    <2>1. CASE UNCHANGED listVars
      BY <1>2, <2>1 DEF listVars, ListIInv, ListTypeOK, Behind, CrashLosesLittle
    <2>2. CASE Reopen
      <3>1. sizeFlushed \in 0 .. MaxEntries /\ cellFlushed \in [1 .. MaxEntries -> Data]
        BY <1>2, <2>2, Flushed DEF Reopen
      <3> QED
        BY <1>2, <2>2, <3>1, ReadBack DEF Reopen, Flush, ListIInv, ListTypeOK
    <2>3. CASE Crash
      <3>1. fileSize \in 0 .. MaxEntries /\ cell \in [1 .. MaxEntries -> Data] /\ Garbage \in Data
        BY <1>2 DEF ListIInv, ListTypeOK, Data
      <3> QED
        BY <2>3, <3>1, ReadBack DEF Crash
    <2> QED
      BY <1>2, <2>1, <2>2, <2>3, PushSizeStep, PushValueStep, PopStep DEF ListNext
  <1> QED
    BY <1>1, <1>2, PTL DEF ListSpec

\* Sizes and positions stay within the file, a pop of an empty list included.
THEOREM FreeListTypeOK == ListSpec => []ListTypeOK
  <1>1. ListIInv => ListTypeOK
    BY DEF ListIInv
  <1> QED
    BY <1>1, FreeListInvariant, PTL

\* DelNodeList.cpp:27-42: whenever the process dies, the file has the list but for
\* its last operation.
THEOREM CrashSafety == ListSpec => []CrashLosesLittle
  <1>1. ListIInv => CrashLosesLittle
    BY DEF ListIInv
  <1> QED
    BY <1>1, FreeListInvariant, PTL

\* ~DelNodeList and the constructor: a clean restart finds the list it left.
THEOREM CleanRestart == ListSpec => CloseKeepsList
  <1>1. ASSUME ListIInv, Reopen PROVE dList' = dList
    <2>1. /\ sizeFlushed = Len(dList) /\ \A i \in 1 .. Len(dList) : cellFlushed[i] = dList[i]
          /\ dList' = ListOnFile(sizeFlushed, cellFlushed)
      BY <1>1, Flushed DEF Reopen
    <2>2. dList \in Seq(Data)
      BY <1>1 DEF ListIInv, ListTypeOK
    <2> QED
      BY <2>1, <2>2 DEF ListOnFile
  <1>2. ListIInv /\ [ListNext]_listVars => [Reopen => dList' = dList]_listVars
    BY <1>1
  <1> QED
    BY <1>2, FreeListInvariant, PTL DEF ListSpec, CloseKeepsList

HIDE MaxEntriesAssumption

----------------------------------------------------------------------------
(* The sizes and the layout of the file: what its properties rest on *)

LayoutTypeOK ==
    /\ meta \in Config \cup {Default}
    /\ defaulted \in BOOLEAN
    /\ defaulted => meta = Default
    /\ maxDeg \in Nat
    /\ bSizeOfValueIdx \in 0 .. 16
    /\ opening \in {"loop", "degree", "ready"}
    /\ eof \in Nat
    /\ emptyOffset \in Nat
    /\ extents \in Seq([at : Nat, to : Nat])
    /\ spilled \in BOOLEAN

\* What calculateMaxDegree counts for a degree, before it is cut to 16 bits.
Counted(deg) == 2 * deg * OffsetSize + keysBytes(deg) + Padding(keysBytes(deg))

\* The degrees tried before fit with room to spare; the one returned fits, the next one
\* does not; the default sizes are usable.
DegreeInv ==
    /\ opening = "loop" => maxDeg >= 2 /\ (maxDeg > 2 => Counted(maxDeg - 1) < meta.pageSize)
    /\ opening # "loop" => /\ maxDeg >= 1
                           /\ maxDeg >= 2 => Counted(maxDeg) <= meta.pageSize
                           /\ Counted(maxDeg + 1) > meta.pageSize
                           /\ bSizeOfValueIdx = calculateBitSizeValueIndex
                           /\ defaulted \/ opening = "ready" => ~Unusable

lastPage == emptyOffset \div bit(bSizeOfValueIdx)
lastIndex == emptyOffset % bit(bSizeOfValueIdx)

\* As long as all slots lie in their pages: the file is whole pages, and no write is
\* behind the last value slot in its page.
Placed ==
    /\ eof % meta.pageSize = 0
    /\ \A e \in DOMAIN extents : extents[e].at <= extents[e].to /\ extents[e].to <= eof
    /\ emptyOffset # 0 =>
         /\ lastIndex < meta.pageSize \div meta.valueSize
         /\ (lastPage + 1) * meta.pageSize <= eof
         /\ \A e \in DOMAIN extents :
              \/ extents[e].to <= lastPage * meta.pageSize + (lastIndex + 1) * meta.valueSize
              \/ extents[e].at >= (lastPage + 1) * meta.pageSize

OffsetInv ==
    /\ opening # "ready" => eof = 0 /\ emptyOffset = 0 /\ extents = <<>> /\ ~spilled
    /\ opening = "ready" => eof > 0 /\ (~spilled => Placed)

LayoutInv == LayoutTypeOK /\ DegreeInv /\ OffsetInv /\ WritesApart

----------------------------------------------------------------------------
(* Lemmas about division *)

LEMMA DivMod ==
    ASSUME NEW x \in Nat, NEW y \in Nat \ {0}
    PROVE  /\ x \div y \in Nat /\ x % y \in Nat
           /\ x = y * (x \div y) + (x % y)
           /\ x % y < y
  OBVIOUS

\* A number put together of a quotient and a remainder is taken apart again.
LEMMA TakenApart ==
    ASSUME NEW q \in Nat, NEW r \in Nat, NEW y \in Nat \ {0}, r < y
    PROVE  (q * y + r) \div y = q /\ (q * y + r) % y = r
  OBVIOUS

LEMMA Whole ==
    ASSUME NEW y \in Nat \ {0}, NEW n \in Nat
    PROVE  n <= y * n /\ y * n \in Nat /\ n * y = y * n
  OBVIOUS

----------------------------------------------------------------------------
(* Lemmas about sizes *)

\* What holds of the configured sizes holds of the ones in use.
LEMMA SizesInUse ==
    ASSUME meta \in Config \cup {Default}
    PROVE  /\ meta \in ConfiguredSizes
           /\ meta.pageSize \in Nat /\ meta.keySize \in Nat /\ meta.valueSize \in Nat \ {0}
           /\ meta.pageSize < 65536
           /\ NoWrap(meta)
  <1>1. Default \in ConfiguredSizes /\ NoWrap(Default)
    BY DEF Default, ConfiguredSizes, uint16, NoWrap
  <1>2. meta \in ConfiguredSizes /\ NoWrap(meta)
    BY <1>1, ConfigAssumption
  <1>3. meta.pageSize \in uint16 /\ meta.keySize \in uint16 /\ meta.valueSize \in uint16 \ {0}
    BY <1>2 DEF ConfiguredSizes
  <1> QED
    BY <1>2, <1>3 DEF uint16

\* A degree more takes two childs and two keys more, up to a padding of 3 to 10 bytes.
LEMMA CountedSteps ==
    ASSUME meta \in Config \cup {Default}, NEW d \in Nat \ {0}
    PROVE  /\ keysBytes(d) \in Nat
           /\ Counted(d) \in Nat
           /\ Counted(d) >= 16 * d + keysBytes(d) + 3
           /\ Counted(d) <= 16 * d + keysBytes(d) + 10
           /\ keysBytes(d + 1) = keysBytes(d) + 2 * meta.keySize
           /\ Counted(d) < Counted(d + 1)
           /\ Counted(d + 1) <= Counted(d) + 2 * meta.keySize + 24
  <1>1. meta.keySize \in Nat
    BY SizesInUse
  <1>2. keysBytes(d) \in Nat /\ keysBytes(d + 1) = keysBytes(d) + 2 * meta.keySize
    BY <1>1 DEF keysBytes
  <1>3. \A n \in Nat : /\ Padding(n) \in 3 .. 10
                       /\ (n + Padding(n)) % 8 = 0
    BY DEF Padding, FlagAndSize
  <1>4. ASSUME NEW e \in Nat \ {0}, keysBytes(e) \in Nat
        PROVE  /\ Counted(e) = 16 * e + keysBytes(e) + Padding(keysBytes(e))
               /\ Padding(keysBytes(e)) \in 3 .. 10
    BY <1>3, <1>4 DEF Counted, OffsetSize
  <1>5. keysBytes(d + 1) \in Nat
    BY <1>1, <1>2
  <1>6. /\ Counted(d) = 16 * d + keysBytes(d) + Padding(keysBytes(d))
        /\ Padding(keysBytes(d)) \in 3 .. 10
    BY <1>2, <1>4
  <1>7. /\ Counted(d + 1) = 16 * (d + 1) + keysBytes(d + 1) + Padding(keysBytes(d + 1))
        /\ Padding(keysBytes(d + 1)) \in 3 .. 10
    BY <1>4, <1>5
  <1> QED
    BY <1>1, <1>2, <1>6, <1>7

LEMMA CountedTwo ==
    ASSUME meta \in Config \cup {Default}
    PROVE  /\ Counted(2) <= 3 * meta.keySize + 42
           /\ meta = Default => Counted(2) < meta.pageSize
  <1>1. meta.keySize \in Nat
    BY SizesInUse
  <1>2. keysBytes(2) = 3 * meta.keySize
    BY <1>1 DEF keysBytes
  <1>3. Counted(2) <= 3 * meta.keySize + 42
    BY <1>1, <1>2, CountedSteps
  <1>4. meta = Default => meta.keySize = 35 /\ meta.pageSize = 4096
    BY DEF Default
  <1>5. Counted(2) \in Nat
    BY CountedSteps
  <1> QED
    BY <1>1, <1>3, <1>4, <1>5

\* While the loop runs nothing is cut to 16 bits.
LEMMA NothingCut ==
    ASSUME LayoutTypeOK, DegreeInv, opening = "loop"
    PROVE  /\ tmpPageSize = Counted(maxDeg)
           /\ Counted(maxDeg) \in Nat
           /\ maxDeg + 1 < 65536
  <1>1. /\ maxDeg \in Nat /\ maxDeg >= 2 /\ meta \in Config \cup {Default}
        /\ maxDeg > 2 => Counted(maxDeg - 1) < meta.pageSize
    BY DEF LayoutTypeOK, DegreeInv
  <1>2. /\ meta.pageSize \in Nat /\ meta.keySize \in Nat
        /\ 3 * meta.keySize + 42 < 65536
        /\ meta.pageSize + 2 * meta.keySize + 24 < 65536
    BY <1>1, SizesInUse DEF NoWrap
  <1>3. Counted(maxDeg) \in Nat /\ Counted(maxDeg) < 65536
    <2>1. CASE maxDeg = 2
      <3>1. Counted(2) \in Nat /\ Counted(2) <= 3 * meta.keySize + 42
        BY <1>1, CountedTwo, CountedSteps
      <3> QED
        BY <1>2, <2>1, <3>1
    <2>2. CASE maxDeg > 2
      <3>1. maxDeg - 1 \in Nat \ {0} /\ (maxDeg - 1) + 1 = maxDeg
        BY <1>1, <2>2
      <3> DEFINE d == maxDeg - 1
      <3>2. d \in Nat \ {0} /\ d + 1 = maxDeg /\ meta \in Config \cup {Default} /\ maxDeg \in Nat \ {0}
        BY <1>1, <3>1
      <3> HIDE DEF d
      <3>3. Counted(d + 1) <= Counted(d) + 2 * meta.keySize + 24 /\ Counted(d) \in Nat /\ Counted(d + 1) \in Nat
        BY <3>2, CountedSteps
      <3>4. Counted(maxDeg) <= Counted(maxDeg - 1) + 2 * meta.keySize + 24
        BY <3>2, <3>3 DEF d
      <3>5. Counted(maxDeg) \in Nat /\ Counted(maxDeg - 1) \in Nat
        BY <3>2, <3>3 DEF d
      <3> QED
        BY <1>1, <1>2, <2>2, <3>4, <3>5
    <2> QED
      BY <1>1, <2>1, <2>2
  <1>4. tmpPageSize = Counted(maxDeg) % 65536
    BY DEF tmpPageSize, Counted, u16
  <1>5. keysBytes(maxDeg) \in Nat /\ Counted(maxDeg) >= 16 * maxDeg + keysBytes(maxDeg) + 3
    BY <1>1, CountedSteps
  <1>6. tmpPageSize = Counted(maxDeg)
    BY <1>3, <1>4
  <1>7. maxDeg + 1 < 65536
    BY <1>1, <1>3, <1>5
  <1> QED
    BY <1>3, <1>6, <1>7

\* The number of bits is enough for every index of a slot.
LEMMA Bits ==
    /\ bit(0) = 1 /\ bit(1) = 2 /\ bit(2) = 4 /\ bit(3) = 8 /\ bit(4) = 16 /\ bit(5) = 32
    /\ bit(6) = 64 /\ bit(7) = 128 /\ bit(8) = 256 /\ bit(9) = 512 /\ bit(10) = 1024
    /\ bit(11) = 2048 /\ bit(12) = 4096 /\ bit(13) = 8192 /\ bit(14) = 16384
    /\ bit(15) = 32768 /\ bit(16) = 65536
  BY DEF bit

LEMMA BitPositive ==
    ASSUME NEW b \in 0 .. 16
    PROVE  bit(b) \in Nat \ {0}
  BY Bits

LEMMA BitsEnough ==
    ASSUME NEW n \in Nat, n < 65536
    PROVE  /\ countBits(n) \in 0 .. 16
           /\ n < bit(countBits(n))
           /\ n = 0 => countBits(n) = 0
  <1> DEFINE Good(b) == n < bit(b) /\ (b = 0 \/ n >= bit(b - 1))
  <1>1. \E b \in 0 .. 16 : Good(b)
    <2>1. /\ n < 1 => Good(0)
          /\ n >= 1 /\ n < 2 => Good(1)
          /\ n >= 2 /\ n < 4 => Good(2)
          /\ n >= 4 /\ n < 8 => Good(3)
          /\ n >= 8 /\ n < 16 => Good(4)
          /\ n >= 16 /\ n < 32 => Good(5)
          /\ n >= 32 /\ n < 64 => Good(6)
          /\ n >= 64 /\ n < 128 => Good(7)
          /\ n >= 128 /\ n < 256 => Good(8)
      BY Bits
    <2>2. /\ n >= 256 /\ n < 512 => Good(9)
          /\ n >= 512 /\ n < 1024 => Good(10)
          /\ n >= 1024 /\ n < 2048 => Good(11)
          /\ n >= 2048 /\ n < 4096 => Good(12)
          /\ n >= 4096 /\ n < 8192 => Good(13)
          /\ n >= 8192 /\ n < 16384 => Good(14)
          /\ n >= 16384 /\ n < 32768 => Good(15)
          /\ n >= 32768 /\ n < 65536 => Good(16)
      BY Bits
    <2> HIDE DEF Good
    <2>3. CASE n < 256
      BY <2>1, <2>3
    <2>4. CASE n >= 256 /\ n < 4096
      BY <2>2, <2>4
    <2>5. CASE n >= 4096 /\ n < 65536
      BY <2>2, <2>5
    <2> QED
      BY <2>3, <2>4, <2>5
  <1>2. countBits(n) = CHOOSE b \in 0 .. 16 : Good(b)
    BY DEF countBits
  <1> HIDE DEF Good
  <1>3. countBits(n) \in 0 .. 16 /\ Good(countBits(n))
    BY <1>1, <1>2
  <1>4. countBits(n) \in 0 .. 16 /\ n < bit(countBits(n))
    BY <1>3 DEF Good
  <1>5. n = 0 => countBits(n) = 0
    <2>1. countBits(n) = 0 \/ n >= bit(countBits(n) - 1)
      BY <1>3 DEF Good
    <2>2. SUFFICES ASSUME n = 0, countBits(n) # 0
                   PROVE  FALSE
      OBVIOUS
    <2> DEFINE b == countBits(n) - 1
    <2>3. b \in 0 .. 16
      BY <1>4, <2>2
    <2>4. bit(b) \in Nat \ {0}
      BY <2>3, BitPositive
    <2>5. n >= bit(b)
      BY <2>1, <2>2
    <2> HIDE DEF b
    <2> QED
      BY <2>2, <2>4, <2>5
  <1> QED
    BY <1>4, <1>5

LEMMA BitSize ==
    ASSUME meta \in Config \cup {Default}
    PROVE  /\ calculateBitSizeValueIndex \in 0 .. 16
           /\ meta = Default => calculateBitSizeValueIndex # 0
           /\ calculateBitSizeValueIndex # 0 =>
                /\ (meta.pageSize \div meta.valueSize) * meta.valueSize <= meta.pageSize
                /\ meta.pageSize \div meta.valueSize \in Nat
                /\ meta.pageSize \div meta.valueSize >= 2
                /\ meta.pageSize \div meta.valueSize <= bit(calculateBitSizeValueIndex)
  <1> DEFINE p == meta.pageSize
             v == meta.valueSize
             n == p \div v
  <1>1. p \in Nat /\ v \in Nat \ {0} /\ p < 65536
    BY SizesInUse
  <1>2. CASE p < v
    <2>1. calculateBitSizeValueIndex = 0
      BY <1>2 DEF calculateBitSizeValueIndex
    <2>2. meta # Default
      BY <1>2 DEF Default
    <2> QED
      BY <2>1, <2>2
  <1>3. CASE v <= p
    <2>1. /\ n \in Nat /\ n >= 1 /\ n < 65536
          /\ n * v <= p
      <3> HIDE DEF p, v
      <3> DEFINE r == p % v
      <3>1. n \in Nat /\ r \in Nat /\ r < v /\ p = v * n + r
        BY <1>1, DivMod
      <3> HIDE DEF n, r
      <3>2. n # 0
        BY <1>1, <1>3, <3>1
      <3>3. n <= v * n /\ n * v = v * n /\ v * n \in Nat
        BY <1>1, <3>1, Whole
      <3> QED
        BY <1>1, <3>1, <3>2, <3>3
    <2>2. calculateBitSizeValueIndex = countBits(n - 1)
      BY <1>1, <1>3 DEF calculateBitSizeValueIndex
    <2>3. meta = Default => n = 4
      BY DEF Default
    <2> HIDE DEF n
    <2> DEFINE m == n - 1
    <2>4. /\ m \in Nat /\ m < 65536
          /\ calculateBitSizeValueIndex = countBits(m)
      BY <2>1, <2>2
    <2> HIDE DEF m
    <2>5. /\ countBits(m) \in 0 .. 16 /\ m < bit(countBits(m))
          /\ m = 0 => countBits(m) = 0
      BY <2>4, BitsEnough
    <2>6. bit(countBits(m)) \in Nat
      BY <2>5, BitPositive
    <2>7. m = 3 => countBits(m) # 0
      BY <2>5, Bits
    <2>8. countBits(m) # 0 => n >= 2 /\ n <= bit(countBits(m))
      BY <2>1, <2>5, <2>6 DEF m
    <2> QED
      BY <2>1, <2>3, <2>4, <2>5, <2>7, <2>8 DEF m, n
  <1> QED
    BY <1>1, <1>2, <1>3

----------------------------------------------------------------------------
(* The degree *)

LEMMA DegreeInit ==
    ASSUME LayoutInit
    PROVE  LayoutTypeOK /\ DegreeInv
  <1>1. <<>> \in Seq([at : Nat, to : Nat])
    OBVIOUS
  <1>2. /\ meta \in Config \cup {Default} /\ defaulted = FALSE
        /\ maxDeg \in Nat /\ bSizeOfValueIdx \in 0 .. 16 /\ eof \in Nat /\ emptyOffset \in Nat
        /\ opening \in {"loop", "degree", "ready"}
        /\ extents \in Seq([at : Nat, to : Nat])
    BY <1>1 DEF LayoutInit
  <1>3. spilled \in BOOLEAN
    BY Zenon DEF LayoutInit
  <1>4. DegreeInv
    BY DEF LayoutInit, DegreeInv
  <1> QED
    BY <1>2, <1>3, <1>4, Zenon DEF LayoutTypeOK

\* Nothing of the sizes changes.
LEMMA SizesKept ==
    ASSUME DegreeInv, UNCHANGED <<meta, maxDeg, bSizeOfValueIdx, defaulted>>,
           opening' = opening \/ (opening # "loop" /\ opening' = "ready" /\ ~Unusable)
    PROVE  DegreeInv'
  BY DEF DegreeInv, Counted, keysBytes, calculateBitSizeValueIndex, Unusable

LEMMA DegreeStep ==
    ASSUME LayoutTypeOK, DegreeInv, [LayoutNext]_layoutVars
    PROVE  DegreeInv'
  <1>1. /\ maxDeg \in Nat /\ meta \in Config \cup {Default}
        /\ defaulted => meta = Default
    BY DEF LayoutTypeOK
  <1>2. meta.pageSize \in Nat /\ meta.keySize \in Nat
    BY <1>1, SizesInUse
  <1>3. CASE Grow
    <2>1. /\ opening = "loop" /\ maxDeg >= 2
          /\ tmpPageSize = Counted(maxDeg) /\ maxDeg + 1 < 65536
          /\ tmpPageSize < meta.pageSize
      BY <1>3, NothingCut DEF Grow, DegreeInv
    <2>2. maxDeg' = maxDeg + 1 /\ UNCHANGED <<meta, opening>>
      BY <1>1, <1>3, <2>1 DEF Grow, u16
    <2>3. Counted(maxDeg) < meta.pageSize /\ maxDeg' - 1 = maxDeg
      BY <1>1, <2>1, <2>2
    <2>4. Counted(maxDeg - 1)' = Counted(maxDeg)
      BY <2>2, <2>3 DEF Counted, keysBytes
    <2> QED
      BY <1>1, <2>1, <2>2, <2>3, <2>4 DEF DegreeInv
  <1>4. CASE DegreeFound
    <2>1. /\ opening = "loop" /\ maxDeg >= 2
          /\ maxDeg > 2 => Counted(maxDeg - 1) < meta.pageSize
          /\ tmpPageSize = Counted(maxDeg) /\ Counted(maxDeg) \in Nat
          /\ tmpPageSize >= meta.pageSize
      BY <1>4, NothingCut DEF DegreeFound, DegreeInv
    <2>2. /\ opening' = "degree" /\ UNCHANGED <<meta, defaulted>>
          /\ maxDeg' = IF Counted(maxDeg) = meta.pageSize THEN maxDeg ELSE maxDeg - 1
          /\ bSizeOfValueIdx' = calculateBitSizeValueIndex
      BY <1>4, <2>1 DEF DegreeFound
    <2>3. maxDeg' \in Nat /\ maxDeg' >= 1
      BY <1>1, <2>1, <2>2
    <2>4. maxDeg' >= 2 => Counted(maxDeg') <= meta.pageSize
      <3>1. CASE Counted(maxDeg) = meta.pageSize
        <4>1. maxDeg' = maxDeg
          BY <2>2, <3>1
        <4> QED
          BY <1>2, <3>1, <4>1
      <3>2. CASE Counted(maxDeg) # meta.pageSize
        <4>1. maxDeg' = maxDeg - 1
          BY <2>2, <3>2
        <4>2. maxDeg' >= 2 => Counted(maxDeg - 1) < meta.pageSize /\ Counted(maxDeg - 1) \in Nat
          BY <1>1, <2>1, <4>1, CountedSteps
        <4> QED
          BY <1>2, <4>1, <4>2
      <3> QED
        BY <3>1, <3>2
    <2>5. Counted(maxDeg' + 1) > meta.pageSize
      <3>1. CASE Counted(maxDeg) = meta.pageSize
        <4>1. Counted(maxDeg) < Counted(maxDeg + 1) /\ maxDeg' = maxDeg
          BY <1>1, <2>1, <2>2, <3>1, CountedSteps, SMTT(30)
        <4> QED
          BY <3>1, <4>1
      <3>2. CASE Counted(maxDeg) # meta.pageSize
        <4>1. maxDeg' + 1 = maxDeg
          BY <1>1, <2>2, <3>2
        <4> QED
          BY <1>2, <2>1, <3>2, <4>1
      <3> QED
        BY <3>1, <3>2
    <2>6. calculateBitSizeValueIndex' = calculateBitSizeValueIndex
      BY <2>2 DEF calculateBitSizeValueIndex
    <2>7. defaulted' => ~Unusable'
      <3> SUFFICES ASSUME defaulted'
                   PROVE  maxDeg' > 1 /\ bSizeOfValueIdx' # 0
        BY <2>3 DEF Unusable
      <3>1. meta = Default
        BY <1>1, <2>2
      <3>2. Counted(2) < meta.pageSize /\ Counted(2) \in Nat
        BY <1>1, <3>1, CountedTwo, CountedSteps
      <3>3. maxDeg # 2
        BY <1>2, <2>1, <3>2
      <3>4. maxDeg' > 1
        BY <1>1, <2>1, <2>2, <3>3
      <3>5. bSizeOfValueIdx' # 0
        BY <1>1, <2>2, <3>1, BitSize
      <3> QED
        BY <3>4, <3>5
    <2>8. maxDeg' >= 2 => (Counted(maxDeg))' <= meta.pageSize
      BY <2>2, <2>4 DEF Counted, keysBytes
    <2>9. (Counted(maxDeg + 1))' > meta.pageSize
      BY <2>2, <2>5 DEF Counted, keysBytes
    <2> QED
      BY <2>2, <2>3, <2>6, <2>7, <2>8, <2>9 DEF DegreeInv
  <1>5. CASE FallBack
    BY <1>5 DEF FallBack, DegreeInv
  <1>6. CASE Opened
    <2>1. /\ UNCHANGED <<meta, maxDeg, bSizeOfValueIdx, defaulted>>
          /\ opening = "degree" /\ opening' = "ready" /\ ~Unusable
      BY <1>6 DEF Opened, DegreeInv
    <2> QED
      BY <2>1, SizesKept
  <1>7. CASE AppendNode \/ AppendValue \/ LayoutRest \/ UNCHANGED layoutVars
    <2>1. UNCHANGED <<meta, maxDeg, bSizeOfValueIdx, defaulted, opening>>
      BY <1>7 DEF AppendNode, AppendValue, LayoutRest, layoutVars, sizeVars
    <2> QED
      BY <2>1, SizesKept
  <1> QED
    BY <1>3, <1>4, <1>5, <1>6, <1>7 DEF LayoutNext

\* In a store that is open, a node fits its page.
LEMMA NodeFits ==
    ASSUME LayoutTypeOK, DegreeInv, opening # "loop", ~Unusable
    PROVE  /\ NodeBytes(maxDeg) \in Nat
           /\ NodeBytes(maxDeg) <= meta.pageSize
           /\ NodeBytes(maxDeg + 1) + 7 > meta.pageSize
  <1>1. /\ maxDeg \in Nat /\ meta \in Config \cup {Default}
        /\ maxDeg >= 2 /\ Counted(maxDeg) <= meta.pageSize /\ Counted(maxDeg + 1) > meta.pageSize
    BY DEF LayoutTypeOK, DegreeInv, Unusable
  <1>2. meta.pageSize \in Nat
    BY <1>1, SizesInUse
  <1>3. ASSUME NEW d \in Nat \ {0}
        PROVE  /\ NodeBytes(d) = 16 * d + keysBytes(d) + 3
               /\ keysBytes(d) \in Nat /\ Counted(d) \in Nat
               /\ NodeBytes(d) <= Counted(d)
               /\ Counted(d) <= NodeBytes(d) + 7
    <2>1. /\ keysBytes(d) \in Nat /\ Counted(d) \in Nat
          /\ Counted(d) >= 16 * d + keysBytes(d) + 3
          /\ Counted(d) <= 16 * d + keysBytes(d) + 10
      BY <1>1, CountedSteps
    <2>2. NodeBytes(d) = 16 * d + keysBytes(d) + 3
      BY DEF NodeBytes, keysBytes, OffsetSize, FlagAndSize
    <2> QED
      BY <2>1, <2>2
  <1>4. maxDeg \in Nat \ {0} /\ maxDeg + 1 \in Nat \ {0}
    BY <1>1
  <1>5. NodeBytes(maxDeg) \in Nat /\ NodeBytes(maxDeg) <= Counted(maxDeg) /\ Counted(maxDeg) \in Nat
    BY <1>3, <1>4
  <1>6. /\ Counted(maxDeg + 1) <= NodeBytes(maxDeg + 1) + 7 /\ Counted(maxDeg + 1) \in Nat
        /\ NodeBytes(maxDeg + 1) \in Nat
    BY <1>3, <1>4
  <1> QED
    BY <1>1, <1>2, <1>5, <1>6

----------------------------------------------------------------------------
(* The offsets *)

LEMMA MaxOfTwo ==
    ASSUME NEW a \in Nat, NEW b \in Nat
    PROVE  Max({a, b}) = IF a >= b THEN a ELSE b
  <1> DEFINE m == IF a >= b THEN a ELSE b
  <1>1. m \in {a, b} /\ \A y \in {a, b} : m >= y
    OBVIOUS
  <1>2. \A x \in {a, b} : (\A y \in {a, b} : x >= y) => x = m
    OBVIOUS
  <1> HIDE DEF m
  <1>3. Max({a, b}) = m
    BY <1>1, <1>2 DEF Max
  <1> QED
    BY <1>3 DEF m

\* The sizes of a store that is open: a page has room for two values, and the index of a
\* slot that lies in the page fits its bits.
LEMMA OpenSizes ==
    ASSUME LayoutTypeOK, DegreeInv, opening # "loop", ~Unusable
    PROVE  /\ meta.pageSize \in Nat \ {0} /\ meta.valueSize \in Nat \ {0}
           /\ bit(bSizeOfValueIdx) \in Nat \ {0}
           /\ meta.pageSize \div meta.valueSize \in Nat
           /\ meta.pageSize \div meta.valueSize >= 2
           /\ meta.pageSize \div meta.valueSize <= bit(bSizeOfValueIdx)
           /\ (meta.pageSize \div meta.valueSize) * meta.valueSize <= meta.pageSize
           /\ meta.valueSize <= meta.pageSize
  <1>1. /\ meta \in Config \cup {Default}
        /\ bSizeOfValueIdx = calculateBitSizeValueIndex /\ bSizeOfValueIdx # 0
        /\ bSizeOfValueIdx \in 0 .. 16
    BY DEF LayoutTypeOK, DegreeInv, Unusable
  <1> DEFINE p == meta.pageSize
             v == meta.valueSize
             n == p \div v
  <1>2. /\ p \in Nat /\ v \in Nat \ {0}
        /\ n \in Nat /\ n >= 2 /\ n <= bit(bSizeOfValueIdx)
        /\ n * v <= p
    BY <1>1, SizesInUse, BitSize
  <1>3. bit(bSizeOfValueIdx) \in Nat \ {0}
    BY <1>1, BitPositive
  <1>4. \A x \in Nat, y \in Nat \ {0} : x >= 2 => y <= x * y /\ x * y \in Nat
    OBVIOUS
  <1> HIDE DEF p, v, n
  <1>5. v <= p /\ p # 0
    BY <1>2, <1>4
  <1> QED
    BY <1>2, <1>3, <1>5 DEF p, v, n

\* The bytes that an offset of page q and index i stands for.
LEMMA RealOffset ==
    ASSUME LayoutTypeOK, DegreeInv, opening # "loop", ~Unusable,
           NEW q \in Nat, NEW i \in Nat, i < bit(bSizeOfValueIdx)
    PROVE  calculateRealOffset(q * bit(bSizeOfValueIdx) + i) = q * meta.pageSize + i * meta.valueSize
  <1> DEFINE b == bit(bSizeOfValueIdx)
             off == q * b + i
  <1>1. b \in Nat \ {0} /\ i < b
    BY OpenSizes
  <1> HIDE DEF b
  <1>2. off \div b = q /\ off % b = i
    BY <1>1, TakenApart
  <1>3. calculateRealOffset(off) = (off \div b) * meta.pageSize + (off % b) * meta.valueSize
    BY DEF calculateRealOffset, b
  <1> HIDE DEF off
  <1>4. calculateRealOffset(off) = q * meta.pageSize + i * meta.valueSize
    BY <1>2, <1>3
  <1> QED
    BY <1>4 DEF off, b

\* getNextFreeOffset stands for the end of the file.
LEMMA NextFree ==
    ASSUME LayoutTypeOK, DegreeInv, opening # "loop", ~Unusable, eof % meta.pageSize = 0
    PROVE  /\ eof \div meta.pageSize \in Nat
           /\ eof = (eof \div meta.pageSize) * meta.pageSize
           /\ getNextFreeOffset = (eof \div meta.pageSize) * bit(bSizeOfValueIdx)
           /\ getNextFreeOffset \in Nat
           /\ calculateRealOffset(getNextFreeOffset) = eof
  <1> DEFINE k == eof \div meta.pageSize
             b == bit(bSizeOfValueIdx)
             p == meta.pageSize
             v == meta.valueSize
  <1>1. p \in Nat \ {0} /\ b \in Nat \ {0} /\ v \in Nat /\ eof \in Nat
    BY OpenSizes DEF LayoutTypeOK
  <1>2. k \in Nat /\ eof = p * k + (eof % p)
    <2> HIDE DEF p
    <2> QED
      BY <1>1, DivMod DEF p
  <1>3. getNextFreeOffset = k * b
    BY DEF getNextFreeOffset, calculatePageNodeID
  <1>4. calculateRealOffset(k * b + 0) = k * p + 0 * v
    <2>1. 0 \in Nat /\ 0 < b
      BY <1>1
    <2> HIDE DEF k
    <2> QED
      BY <1>2, <2>1, RealOffset
  <1>5. eof % p = 0
    OBVIOUS
  <1> HIDE DEF k, b, p, v
  <1>6. k * b + 0 = k * b /\ k * b \in Nat /\ eof = k * p /\ k * p + 0 * v = eof
    BY <1>1, <1>2, <1>5
  <1>7. calculateRealOffset(getNextFreeOffset) = eof
    BY <1>3, <1>4, <1>6
  <1> QED
    BY <1>2, <1>3, <1>6, <1>7 DEF k, b, p, v

LEMMA ExtentsType ==
    ASSUME LayoutTypeOK
    PROVE  \A e \in DOMAIN extents : extents[e].at \in Nat /\ extents[e].to \in Nat
  <1> DEFINE E == [at : Nat, to : Nat]
  <1>1. extents \in Seq(E)
    BY DEF LayoutTypeOK
  <1>2. \A x \in E : x.at \in Nat /\ x.to \in Nat
    OBVIOUS
  <1> HIDE DEF E
  <1>3. \A e \in DOMAIN extents : extents[e] \in E
    BY <1>1
  <1> QED
    BY <1>2, <1>3

\* A write that meets none before it, below the end of the file, keeps all apart.
LEMMA Added ==
    ASSUME LayoutTypeOK, NoneMeet,
           \A e \in DOMAIN extents : extents[e].at <= extents[e].to /\ extents[e].to <= eof,
           NEW a \in Nat, NEW n \in Nat,
           \A e \in DOMAIN extents : extents[e].to <= a \/ a + n <= extents[e].at,
           extents' = Append(extents, [at |-> a, to |-> a + n]),
           eof' \in Nat, eof <= eof', a + n <= eof'
    PROVE  /\ extents' \in Seq([at : Nat, to : Nat])
           /\ NoneMeet'
           /\ \A e \in DOMAIN extents' : extents'[e].at <= extents'[e].to /\ extents'[e].to <= eof'
           /\ \A e \in DOMAIN extents' : \/ e \in DOMAIN extents /\ extents'[e] = extents[e]
                                         \/ extents'[e] = [at |-> a, to |-> a + n]
  <1> DEFINE new == [at |-> a, to |-> a + n]
             E == [at : Nat, to : Nat]
  <1>1. extents \in Seq(E) /\ eof \in Nat
    BY DEF LayoutTypeOK
  <1>2. new \in E /\ new.at = a /\ new.to = a + n
    OBVIOUS
  <1> HIDE DEF new
  <1>3. extents' = Append(extents, new)
    BY DEF new
  <1>4. /\ extents' \in Seq(E)
        /\ Len(extents) \in Nat
        /\ DOMAIN extents = 1 .. Len(extents)
        /\ DOMAIN extents' = 1 .. Len(extents) + 1
        /\ \A e \in DOMAIN extents : extents'[e] = extents[e] /\ extents[e] \in E
        /\ extents'[Len(extents) + 1] = new
    <2> HIDE DEF E
    <2> QED
      BY <1>1, <1>2, <1>3
  <1>5. \A e \in DOMAIN extents' : \/ e \in DOMAIN extents /\ extents'[e] = extents[e]
                                   \/ e = Len(extents) + 1 /\ extents'[e] = new
    BY <1>4
  <1>6. \A e \in DOMAIN extents : /\ extents[e].at \in Nat /\ extents[e].to \in Nat
                                  /\ e < Len(extents) + 1
    BY <1>4
  <1>7. \A e \in DOMAIN extents' : extents'[e].at <= extents'[e].to /\ extents'[e].to <= eof'
    <2> SUFFICES ASSUME NEW e \in DOMAIN extents'
                 PROVE  extents'[e].at <= extents'[e].to /\ extents'[e].to <= eof'
      OBVIOUS
    <2>1. CASE e \in DOMAIN extents /\ extents'[e] = extents[e]
      BY <1>1, <1>6, <2>1, SMTT(30)
    <2>2. CASE extents'[e] = new
      BY <1>2, <2>2
    <2> QED
      BY <1>5, <2>1, <2>2
  <1>8. \A e, f \in DOMAIN extents' : e < f =>
           extents'[e].to <= extents'[f].at \/ extents'[f].to <= extents'[e].at
    <2> SUFFICES ASSUME NEW e \in DOMAIN extents', NEW f \in DOMAIN extents', e < f
                 PROVE  extents'[e].to <= extents'[f].at \/ extents'[f].to <= extents'[e].at
      OBVIOUS
    <2>1. e \in DOMAIN extents /\ extents'[e] = extents[e]
      BY <1>4
    <2>2. CASE f \in DOMAIN extents
      BY <1>4, <2>1, <2>2 DEF NoneMeet
    <2>3. CASE f = Len(extents) + 1
      BY <1>2, <1>4, <2>1, <2>3
    <2> QED
      BY <1>5, <2>2, <2>3
  <1>9. NoneMeet'
    BY <1>8 DEF NoneMeet
  <1>10. \A e \in DOMAIN extents' : \/ e \in DOMAIN extents /\ extents'[e] = extents[e]
                                    \/ extents'[e] = [at |-> a, to |-> a + n]
    BY <1>5 DEF new
  <1> QED
    BY <1>4, <1>7, <1>9, <1>10

\* The write of a new page is behind all others.
LEMMA PageWritten ==
    ASSUME LayoutTypeOK, DegreeInv, opening # "loop", ~Unusable, Placed, NoneMeet,
           NEW n \in Nat, n <= meta.pageSize,
           WriteAt(getNextFreeOffset, n, eof + meta.pageSize)
    PROVE  /\ extents' \in Seq([at : Nat, to : Nat])
           /\ NoneMeet'
           /\ eof' = eof + meta.pageSize
           /\ \A e \in DOMAIN extents' : extents'[e].at <= extents'[e].to /\ extents'[e].to <= eof'
           /\ \A e \in DOMAIN extents' : \/ e \in DOMAIN extents /\ extents'[e] = extents[e]
                                         \/ extents'[e] = [at |-> eof, to |-> eof + n]
  <1> DEFINE p == meta.pageSize
  <1>1. p \in Nat /\ n <= p /\ eof \in Nat
    BY OpenSizes DEF LayoutTypeOK
  <1>2. calculateRealOffset(getNextFreeOffset) = eof
    BY NextFree DEF Placed
  <1>3. /\ extents' = Append(extents, [at |-> eof, to |-> eof + n])
        /\ eof' = Max({eof + p, eof + n})
    BY <1>2 DEF WriteAt
  <1> HIDE DEF p
  <1>4. eof' = eof + p
    <2>1. eof + p \in Nat /\ eof + n \in Nat /\ eof + p >= eof + n
      BY <1>1
    <2> QED
      BY <1>3, <2>1, MaxOfTwo
  <1>5. eof' \in Nat /\ eof <= eof' /\ eof + n <= eof'
    BY <1>1, <1>4
  <1>6. \A e \in DOMAIN extents : extents[e].at <= extents[e].to /\ extents[e].to <= eof
    BY DEF Placed
  <1> QED
    BY <1>1, <1>3, <1>4, <1>5, <1>6, Added DEF p

\* What is left of Placed once the writes are apart.
LEMMA AfterPage ==
    ASSUME NEW p \in Nat \ {0}, NEW e \in Nat, e % p = 0
    PROVE  (e + p) % p = 0
  <1>1. e \div p \in Nat /\ e = p * (e \div p) + (e % p)
    BY DivMod
  <1> DEFINE k == e \div p
  <1> HIDE DEF k
  <1>2. k + 1 \in Nat /\ e + p = (k + 1) * p + 0
    BY <1>1 DEF k
  <1> QED
    BY <1>2, TakenApart, SMTT(30)

\* A new node: the last value slot is as before.
LEMMA NodeStep ==
    ASSUME LayoutTypeOK, DegreeInv, opening # "loop", ~Unusable, Placed, NoneMeet,
           WriteAt(getNextFreeOffset, NodeBytes(maxDeg), eof + meta.pageSize),
           UNCHANGED <<meta, bSizeOfValueIdx, emptyOffset>>
    PROVE  /\ extents' \in Seq([at : Nat, to : Nat]) /\ eof' \in Nat /\ eof' > 0
           /\ NoneMeet' /\ Placed'
  <1> DEFINE p == meta.pageSize
             v == meta.valueSize
             n == NodeBytes(maxDeg)
             new == [at |-> eof, to |-> eof + n]
  <1>1. p \in Nat \ {0} /\ v \in Nat \ {0} /\ eof \in Nat /\ n \in Nat /\ n <= p
    BY OpenSizes, NodeFits DEF LayoutTypeOK
  <1>2. /\ extents' \in Seq([at : Nat, to : Nat])
        /\ NoneMeet'
        /\ eof' = eof + p
        /\ \A e \in DOMAIN extents' : extents'[e].at <= extents'[e].to /\ extents'[e].to <= eof'
        /\ \A e \in DOMAIN extents' : \/ e \in DOMAIN extents /\ extents'[e] = extents[e]
                                      \/ extents'[e] = new
    <2> HIDE DEF n
    <2>1. WriteAt(getNextFreeOffset, n, eof + meta.pageSize)
      BY DEF n
    <2> QED
      BY <1>1, <2>1, PageWritten
  <1>3. eof' % p = 0
    <2>1. eof % p = 0
      BY DEF Placed
    <2> HIDE DEF p
    <2> QED
      BY <1>1, <1>2, <2>1, AfterPage
  <1>4. new.at = eof
    OBVIOUS
  <1> DEFINE q == lastPage
             i == lastIndex
  <1>5. q' = q /\ i' = i
    BY DEF lastPage, lastIndex
  <1>6. ASSUME emptyOffset # 0
        PROVE  /\ i < p \div v
               /\ (q + 1) * p <= eof'
               /\ \A e \in DOMAIN extents' : \/ extents'[e].to <= q * p + (i + 1) * v
                                             \/ extents'[e].at >= (q + 1) * p
    <2>1. /\ i < p \div v
          /\ (q + 1) * p <= eof
          /\ \A e \in DOMAIN extents : \/ extents[e].to <= q * p + (i + 1) * v
                                       \/ extents[e].at >= (q + 1) * p
      BY <1>6 DEF Placed
    <2>2. q \in Nat
      BY OpenSizes, DivMod DEF LayoutTypeOK, lastPage
    <2> HIDE DEF q, i, p, v, new
    <2>3. (q + 1) * p \in Nat
      BY <1>1, <2>2
    <2>4. (q + 1) * p <= eof'
      BY <1>1, <1>2, <2>1, <2>3
    <2>5. new.at >= (q + 1) * p
      BY <1>1, <1>4, <2>1, <2>3
    <2> QED
      BY <1>2, <2>1, <2>4, <2>5
  <1>7. Placed'
    BY <1>2, <1>3, <1>5, <1>6 DEF Placed
  <1>8. eof' \in Nat /\ eof' > 0
    BY <1>1, <1>2
  <1> QED
    BY <1>2, <1>7, <1>8

\* The first value of a new page.
LEMMA NewPageStep ==
    ASSUME LayoutTypeOK, DegreeInv, opening # "loop", ~Unusable, Placed, NoneMeet,
           emptyOffset' = getNextFreeOffset,
           WriteAt(getNextFreeOffset, meta.valueSize, eof + meta.pageSize),
           UNCHANGED <<meta, bSizeOfValueIdx>>
    PROVE  /\ extents' \in Seq([at : Nat, to : Nat]) /\ eof' \in Nat /\ eof' > 0
           /\ emptyOffset' \in Nat
           /\ NoneMeet' /\ Placed'
  <1> DEFINE p == meta.pageSize
             v == meta.valueSize
             b == bit(bSizeOfValueIdx)
             k == eof \div p
             new == [at |-> eof, to |-> eof + v]
  <1>1. /\ p \in Nat \ {0} /\ v \in Nat \ {0} /\ b \in Nat \ {0} /\ eof \in Nat /\ v <= p
        /\ 0 < p \div v
    BY OpenSizes DEF LayoutTypeOK
  <1>2. /\ extents' \in Seq([at : Nat, to : Nat])
        /\ NoneMeet'
        /\ eof' = eof + p
        /\ \A e \in DOMAIN extents' : extents'[e].at <= extents'[e].to /\ extents'[e].to <= eof'
        /\ \A e \in DOMAIN extents' : \/ e \in DOMAIN extents /\ extents'[e] = extents[e]
                                      \/ extents'[e] = new
    BY <1>1, PageWritten
  <1>3. eof % p = 0 /\ \A e \in DOMAIN extents : extents[e].to <= eof
    BY DEF Placed
  <1>4. eof' % p = 0
    <2> HIDE DEF p
    <2> QED
      BY <1>1, <1>2, <1>3, AfterPage
  <1>5. k \in Nat /\ eof = k * p /\ emptyOffset' = k * b
    BY <1>3, NextFree
  <1>6. new.to = eof + v
    OBVIOUS
  <1>7. (lastPage)' = k /\ (lastIndex)' = 0
    <2>1. (lastPage)' = (k * b) \div b /\ (lastIndex)' = (k * b) % b
      BY <1>5 DEF lastPage, lastIndex
    <2> HIDE DEF k, b
    <2>2. k \in Nat /\ b \in Nat \ {0} /\ 0 < b /\ 0 \in Nat
      BY <1>1, <1>5
    <2>3. (k * b + 0) \div b = k /\ (k * b + 0) % b = 0
      BY <2>2, TakenApart
    <2>4. k * b + 0 = k * b
      BY <2>2
    <2> QED
      BY <2>1, <2>3, <2>4
  <1>8. \A e \in DOMAIN extents : extents[e].to \in Nat
    BY ExtentsType
  <1> HIDE DEF p, v, b, k, new
  <1>9. (k + 1) * p <= eof'
    BY <1>1, <1>2, <1>5
  <1>10. \A e \in DOMAIN extents' : extents'[e].to <= k * p + (0 + 1) * v
    <2> SUFFICES ASSUME NEW e \in DOMAIN extents'
                 PROVE  extents'[e].to <= k * p + (0 + 1) * v
      OBVIOUS
    <2>1. extents'[e].to \in Nat /\ extents'[e].to <= eof + v
      <3>1. CASE extents'[e] = new
        BY <1>1, <1>6, <3>1
      <3>2. CASE e \in DOMAIN extents /\ extents'[e] = extents[e]
        BY <1>1, <1>3, <1>8, <3>2
      <3> QED
        BY <1>2, <3>1, <3>2
    <2>2. eof + v = k * p + (0 + 1) * v
      BY <1>1, <1>5
    <2> QED
      BY <2>1, <2>2
  <1>11. Placed'
    BY <1>1, <1>2, <1>4, <1>7, <1>9, <1>10 DEF Placed, p, v
  <1>12. eof' \in Nat /\ eof' > 0 /\ emptyOffset' \in Nat
    BY <1>1, <1>2, <1>5
  <1> QED
    BY <1>2, <1>11, <1>12

\* Where the last value slot is, and the number of the next one.
LEMMA LastSlot ==
    ASSUME LayoutTypeOK, DegreeInv, opening # "loop", ~Unusable, Placed, emptyOffset # 0
    PROVE  /\ lastPage \in Nat /\ lastIndex \in Nat
           /\ lastIndex < meta.pageSize \div meta.valueSize
           /\ nextPos = lastIndex + 1
           /\ calculatePageNodeID(calculateRealOffset(emptyOffset)) = lastPage * bit(bSizeOfValueIdx)
  <1> DEFINE p == meta.pageSize
             v == meta.valueSize
             b == bit(bSizeOfValueIdx)
             n == p \div v
             q == lastPage
             i == lastIndex
  <1>1. /\ p \in Nat \ {0} /\ v \in Nat \ {0} /\ b \in Nat \ {0}
        /\ n \in Nat /\ n <= b /\ n * v <= p
        /\ emptyOffset \in Nat
    BY OpenSizes DEF LayoutTypeOK
  <1>2. /\ q \in Nat /\ i \in Nat /\ i < b /\ emptyOffset = q * b + i
    <2>1. q = emptyOffset \div b /\ i = emptyOffset % b
      BY DEF lastPage, lastIndex
    <2> HIDE DEF b, q, i
    <2>2. /\ emptyOffset \div b \in Nat /\ emptyOffset % b \in Nat /\ emptyOffset % b < b
          /\ emptyOffset = b * (emptyOffset \div b) + (emptyOffset % b)
      BY <1>1, DivMod
    <2> QED
      BY <1>1, <2>1, <2>2
  <1>3. i < n
    BY DEF Placed
  <1>4. calculateRealOffset(emptyOffset) = q * p + i * v
    <2>1. calculateRealOffset(q * b + i) = q * p + i * v
      <3> HIDE DEF q, i
      <3> QED
        BY <1>2, RealOffset
    <2> QED
      BY <1>2, <2>1
  <1>5. /\ (q * p + i * v) % p = i * v /\ (q * p + i * v) \div p = q
        /\ (i * v) \div v = i
    <2> HIDE DEF p, v, n, q, i
    <2>1. i * v \in Nat /\ i * v < p
      <3>1. \A x, y \in Nat, z \in Nat \ {0} : x < y => x * z < y * z /\ x * z \in Nat /\ y * z \in Nat
        OBVIOUS
      <3>2. i * v < n * v /\ i * v \in Nat /\ n * v \in Nat
        BY <1>1, <1>2, <1>3, <3>1
      <3> QED
        BY <1>1, <3>2
    <2>2. (q * p + i * v) % p = i * v /\ (q * p + i * v) \div p = q
      <3> DEFINE r == i * v
      <3>1. r \in Nat /\ q \in Nat /\ p \in Nat \ {0} /\ r < p
        BY <1>1, <1>2, <2>1
      <3> HIDE DEF r
      <3>2. (q * p + r) % p = r /\ (q * p + r) \div p = q
        BY <3>1, TakenApart
      <3> QED
        BY <3>2 DEF r
    <2>3. (i * v + 0) \div v = i /\ i * v + 0 = i * v
      BY <1>1, <1>2, TakenApart
    <2> QED
      BY <2>2, <2>3
  <1>6. nextPos = i + 1
    BY <1>4, <1>5 DEF nextPos
  <1>7. calculatePageNodeID(calculateRealOffset(emptyOffset)) = q * b
    BY <1>4, <1>5 DEF calculatePageNodeID
  <1> QED
    BY <1>2, <1>3, <1>6, <1>7

\* Where values fill their page, calculateNextEmtyValueNode goes on to a new page behind
\* the last slot that lies in it.
LEMMA FilledIsFull ==
    ASSUME LayoutTypeOK, DegreeInv, opening # "loop", ~Unusable, Placed, ~Full,
           nextPos >= wholeValues
    PROVE  meta.pageSize % meta.valueSize # 0
  <1> DEFINE p == meta.pageSize
             v == meta.valueSize
             n == p \div v
             i == lastIndex
  <1>1. /\ p \in Nat /\ v \in Nat \ {0}
        /\ n \in Nat /\ p = v * n + (p % v)
    BY OpenSizes, DivMod
  <1>2. i \in Nat /\ i < n /\ nextPos = i + 1 /\ i + 1 >= n /\ i + 1 # ceilValues
    BY LastSlot DEF Full, wholeValues
  <1>3. ASSUME p % v = 0
        PROVE  ceilValues = n
    <2>1. ceilValues = (p + v - 1) \div v
      BY DEF ceilValues
    <2> HIDE DEF p, v, n
    <2>2. v - 1 \in Nat /\ v - 1 < v /\ p + v - 1 = n * v + (v - 1)
      BY <1>1, <1>3
    <2>3. (n * v + (v - 1)) \div v = n
      BY <1>1, <2>2, TakenApart
    <2> QED
      BY <2>1, <2>2, <2>3
  <1>4. i + 1 = n
    <2> HIDE DEF i, n
    <2> QED
      BY <1>1, <1>2
  <1> QED
    BY <1>2, <1>3, <1>4

\* The value behind the last one in its page.
LEMMA NextSlotStep ==
    ASSUME LayoutTypeOK, DegreeInv, opening # "loop", ~Unusable, Placed, NoneMeet, ~Full,
           ~(nextPos >= wholeValues),
           emptyOffset' = withIndex(calculatePageNodeID(calculateRealOffset(emptyOffset)), nextPos),
           WriteAt(emptyOffset', meta.valueSize, eof),
           UNCHANGED <<meta, bSizeOfValueIdx>>, eof > 0
    PROVE  /\ extents' \in Seq([at : Nat, to : Nat]) /\ eof' \in Nat /\ eof' > 0
           /\ emptyOffset' \in Nat
           /\ NoneMeet' /\ Placed'
  <1> DEFINE p == meta.pageSize
             v == meta.valueSize
             b == bit(bSizeOfValueIdx)
             n == p \div v
             q == lastPage
             i == lastIndex
  <1>1. /\ p \in Nat \ {0} /\ v \in Nat \ {0} /\ b \in Nat \ {0} /\ eof \in Nat
        /\ n \in Nat /\ n <= b /\ n * v <= p /\ v <= p
        /\ emptyOffset \in Nat
    BY OpenSizes DEF LayoutTypeOK
  <1>2. /\ q \in Nat /\ i \in Nat /\ i < n /\ nextPos = i + 1
        /\ calculatePageNodeID(calculateRealOffset(emptyOffset)) = q * b
    BY LastSlot DEF Full
  <1>3. /\ eof % p = 0
        /\ \A e \in DOMAIN extents : extents[e].at <= extents[e].to /\ extents[e].to <= eof
        /\ i < n
        /\ (q + 1) * p <= eof
        /\ \A e \in DOMAIN extents : \/ extents[e].to <= q * p + (i + 1) * v
                                     \/ extents[e].at >= (q + 1) * p
    BY DEF Placed, Full
  <1>7. i + 1 < n
    <2>1. ~(i + 1 >= n)
      BY <1>2 DEF wholeValues
    <2> HIDE DEF i, n
    <2> QED
      BY <1>1, <1>2, <2>1
  <1>8. emptyOffset' = q * b + (i + 1)
    <2>2. i + 1 # b
      <3> HIDE DEF i, n, b
      <3> QED
        BY <1>1, <1>2, <1>7
    <2> QED
      BY <1>2, <2>2 DEF withIndex
  <1> DEFINE j == i + 1
  <1>9. j \in Nat /\ j < n /\ j < b
    <2> HIDE DEF i, n, b
    <2> QED
      BY <1>1, <1>2, <1>7
  <1>10. (lastPage)' = q /\ (lastIndex)' = j
    <2>1. (lastPage)' = (q * b + j) \div b /\ (lastIndex)' = (q * b + j) % b
      BY <1>8 DEF lastPage, lastIndex
    <2> HIDE DEF q, j, b
    <2>2. (q * b + j) \div b = q /\ (q * b + j) % b = j
      BY <1>1, <1>2, <1>9, TakenApart
    <2> QED
      BY <2>1, <2>2
  <1> DEFINE a == q * p + j * v
  <1>11. calculateRealOffset(emptyOffset') = a
    <2>1. calculateRealOffset(q * b + j) = a
      <3> HIDE DEF q, j
      <3> QED
        BY <1>2, <1>9, RealOffset
    <2> QED
      BY <1>8, <2>1
  <1>12. /\ extents' = Append(extents, [at |-> a, to |-> a + v])
         /\ eof' = Max({eof, a + v})
    BY <1>11 DEF WriteAt
  <1>13. a \in Nat /\ a + v <= (q + 1) * p /\ (q + 1) * p \in Nat
    <2> HIDE DEF q, j, p, v, n
    <2>1. \A x, y, z \in Nat : x < y => x * z + z <= y * z
      OBVIOUS
    <2>2. j * v + v <= n * v /\ j * v \in Nat /\ n * v \in Nat /\ q * p \in Nat
      BY <1>1, <1>2, <1>9, <2>1
    <2>3. (q + 1) * p = q * p + p
      BY <1>1, <1>2
    <2> QED
      BY <1>1, <2>2, <2>3
  <1>14. \A e \in DOMAIN extents : extents[e].at \in Nat /\ extents[e].to \in Nat
    BY ExtentsType
  <1>15. eof' = eof /\ a + v <= eof
    <2> HIDE DEF a, q, p, v
    <2>1. a + v \in Nat /\ a + v <= eof
      BY <1>1, <1>3, <1>13
    <2> QED
      BY <1>1, <1>12, <2>1, MaxOfTwo
  <1> HIDE DEF p, v, b, n, q, i
  <1>16. \A e \in DOMAIN extents : extents[e].to <= a \/ a + v <= extents[e].at
    BY <1>1, <1>3, <1>13, <1>14
  <1> HIDE DEF a
  <1>17. /\ extents' \in Seq([at : Nat, to : Nat])
         /\ NoneMeet'
         /\ \A e \in DOMAIN extents' : extents'[e].at <= extents'[e].to /\ extents'[e].to <= eof'
         /\ \A e \in DOMAIN extents' : \/ e \in DOMAIN extents /\ extents'[e] = extents[e]
                                       \/ extents'[e] = [at |-> a, to |-> a + v]
    <2>1. a \in Nat /\ v \in Nat /\ eof' \in Nat /\ eof <= eof' /\ a + v <= eof'
      BY <1>1, <1>13, <1>15
    <2> QED
      BY <1>3, <1>12, <1>16, <2>1, Added
  <1>18. a <= q * p + (j + 1) * v /\ a + v <= q * p + (j + 1) * v
    BY <1>1, <1>2, <1>9 DEF a
  <1>19. \A e \in DOMAIN extents' : \/ extents'[e].to <= q * p + (j + 1) * v
                                    \/ extents'[e].at >= (q + 1) * p
    <2> SUFFICES ASSUME NEW e \in DOMAIN extents'
                 PROVE  \/ extents'[e].to <= q * p + (j + 1) * v
                        \/ extents'[e].at >= (q + 1) * p
      OBVIOUS
    <2>1. CASE extents'[e] = [at |-> a, to |-> a + v]
      BY <1>18, <2>1
    <2>2. CASE e \in DOMAIN extents /\ extents'[e] = extents[e]
      <3>1. q * p + (i + 1) * v = a
        BY DEF a
      <3>2. (q + 1) * p \in Nat /\ q * p + (j + 1) * v \in Nat
        BY <1>1, <1>2, <1>9
      <3> QED
        BY <1>3, <1>13, <1>14, <1>18, <2>2, <3>1, <3>2
    <2> QED
      BY <1>17, <2>1, <2>2
  <1>20. emptyOffset' \in Nat
    BY <1>1, <1>2, <1>8, <1>9
  <1>21. j < p \div v
    BY <1>9 DEF n
  <1>22. Placed'
    BY <1>3, <1>10, <1>15, <1>17, <1>19, <1>21 DEF Placed, p, v
  <1> QED
    BY <1>1, <1>15, <1>17, <1>20, <1>22

----------------------------------------------------------------------------
(* Types, after a slot that its page has no room for as well *)

LEMMA WriteType ==
    ASSUME LayoutTypeOK, DegreeInv, opening # "loop", ~Unusable,
           NEW offSet \in Nat, NEW n \in Nat, NEW end \in Nat, WriteAt(offSet, n, end)
    PROVE  extents' \in Seq([at : Nat, to : Nat]) /\ eof' \in Nat /\ eof' >= end
  <1> DEFINE b == bit(bSizeOfValueIdx)
             p == meta.pageSize
             v == meta.valueSize
             a == calculateRealOffset(offSet)
  <1>1. /\ p \in Nat /\ v \in Nat /\ b \in Nat \ {0}
        /\ extents \in Seq([at : Nat, to : Nat])
    BY OpenSizes DEF LayoutTypeOK
  <1>2. a \in Nat
    <2>1. a = (offSet \div b) * p + (offSet % b) * v
      BY DEF calculateRealOffset
    <2> HIDE DEF b, p, v, a
    <2>2. offSet \div b \in Nat /\ offSet % b \in Nat
      BY <1>1, DivMod
    <2> QED
      BY <1>1, <2>1, <2>2
  <1>3. extents' = Append(extents, [at |-> a, to |-> a + n]) /\ eof' = Max({end, a + n})
    BY DEF WriteAt
  <1> HIDE DEF a
  <1>4. a + n \in Nat
    BY <1>2
  <1>5. eof' \in Nat /\ eof' >= end
    BY <1>3, <1>4, MaxOfTwo
  <1>6. [at |-> a, to |-> a + n] \in [at : Nat, to : Nat]
    BY <1>2, <1>4
  <1> QED
    BY <1>1, <1>3, <1>5, <1>6

LEMMA OffsetType ==
    ASSUME LayoutTypeOK, DegreeInv, opening # "loop", ~Unusable
    PROVE  /\ getNextFreeOffset \in Nat
           /\ withIndex(calculatePageNodeID(calculateRealOffset(emptyOffset)), nextPos) \in Nat
  <1> DEFINE b == bit(bSizeOfValueIdx)
             p == meta.pageSize
             v == meta.valueSize
             a == calculateRealOffset(emptyOffset)
             id == calculatePageNodeID(a)
  <1>1. /\ p \in Nat \ {0} /\ v \in Nat \ {0} /\ b \in Nat \ {0}
        /\ eof \in Nat /\ emptyOffset \in Nat
    BY OpenSizes DEF LayoutTypeOK
  <1>2. a \in Nat
    <2>1. a = (emptyOffset \div b) * p + (emptyOffset % b) * v
      BY DEF calculateRealOffset
    <2> HIDE DEF b, p, v
    <2>2. emptyOffset \div b \in Nat /\ emptyOffset % b \in Nat
      BY <1>1, DivMod
    <2> QED
      BY <1>1, <2>1, <2>2
  <1>3. ASSUME NEW x \in Nat
        PROVE  calculatePageNodeID(x) \in Nat
    <2>1. calculatePageNodeID(x) = (x \div p) * b
      BY DEF calculatePageNodeID
    <2> HIDE DEF b, p
    <2>2. x \div p \in Nat
      BY <1>1, DivMod
    <2> QED
      BY <1>1, <2>1, <2>2
  <1>4. getNextFreeOffset \in Nat
    BY <1>1, <1>3 DEF getNextFreeOffset
  <1>5. nextPos \in Nat
    <2>1. nextPos = (a % p) \div v + 1
      BY DEF nextPos
    <2> HIDE DEF a, p, v
    <2>2. a % p \in Nat
      BY <1>1, <1>2, DivMod
    <2>3. (a % p) \div v \in Nat
      BY <1>1, <2>2, DivMod
    <2> QED
      BY <2>1, <2>3
  <1>6. withIndex(id, nextPos) = id \/ withIndex(id, nextPos) = id + nextPos
    BY DEF withIndex
  <1> HIDE DEF a
  <1>7. id \in Nat
    BY <1>2, <1>3
  <1> HIDE DEF id
  <1>8. withIndex(id, nextPos) \in Nat
    BY <1>5, <1>6, <1>7
  <1> QED
    BY <1>4, <1>8 DEF id, a

----------------------------------------------------------------------------
(* The theorems *)

LEMMA LayoutInitHolds == LayoutInit => LayoutInv
  <1> SUFFICES ASSUME LayoutInit PROVE LayoutInv
    OBVIOUS
  <1>1. LayoutTypeOK /\ DegreeInv
    BY DegreeInit
  <1>2. OffsetInv /\ WritesApart
    BY DEF LayoutInit, OffsetInv, WritesApart, NoneMeet
  <1> QED
    BY <1>1, <1>2 DEF LayoutInv

\* The sizes keep their types, until the store is open and then.
LEMMA SizeTypes ==
    ASSUME LayoutTypeOK, DegreeInv, [LayoutNext]_layoutVars
    PROVE  /\ meta' \in Config \cup {Default}
           /\ defaulted' \in BOOLEAN
           /\ defaulted' => meta' = Default
           /\ maxDeg' \in Nat
           /\ bSizeOfValueIdx' \in 0 .. 16
           /\ opening' \in {"loop", "degree", "ready"}
  <1>1. /\ meta \in Config \cup {Default} /\ defaulted \in BOOLEAN
        /\ defaulted => meta = Default
        /\ maxDeg \in Nat /\ bSizeOfValueIdx \in 0 .. 16
        /\ opening \in {"loop", "degree", "ready"}
    BY DEF LayoutTypeOK
  <1>2. CASE Grow
    <2>1. maxDeg' \in Nat
      BY <1>1, <1>2 DEF Grow, u16
    <2> QED
      BY <1>1, <1>2, <2>1 DEF Grow
  <1>3. CASE DegreeFound
    <2>1. maxDeg >= 2
      BY <1>3 DEF DegreeFound, DegreeInv
    <2>2. maxDeg' \in Nat
      BY <1>1, <1>3, <2>1 DEF DegreeFound
    <2>3. bSizeOfValueIdx' \in 0 .. 16
      BY <1>1, <1>3, BitSize DEF DegreeFound
    <2> QED
      BY <1>1, <1>3, <2>2, <2>3 DEF DegreeFound
  <1>4. CASE FallBack
    BY <1>1, <1>4 DEF FallBack
  <1>5. CASE Opened
    BY <1>1, <1>5 DEF Opened
  <1>6. CASE AppendNode \/ AppendValue \/ LayoutRest \/ UNCHANGED layoutVars
    BY <1>1, <1>6, SMTT(30) DEF AppendNode, AppendValue, LayoutRest, layoutVars, sizeVars
  <1> QED
    BY <1>2, <1>3, <1>4, <1>5, <1>6 DEF LayoutNext

LEMMA LayoutStep ==
    ASSUME LayoutInv, [LayoutNext]_layoutVars
    PROVE  LayoutInv'
  <1> DEFINE Extents == Seq([at : Nat, to : Nat])
  <1>1. /\ LayoutTypeOK /\ DegreeInv /\ OffsetInv /\ WritesApart
        /\ eof \in Nat /\ emptyOffset \in Nat /\ extents \in Extents /\ spilled \in BOOLEAN
    BY DEF LayoutInv, LayoutTypeOK
  <1>2. DegreeInv'
    BY <1>1, DegreeStep
  <1>3. SUFFICES /\ eof' \in Nat /\ emptyOffset' \in Nat /\ extents' \in Extents /\ spilled' \in BOOLEAN
                 /\ OffsetInv' /\ WritesApart'
    BY <1>1, <1>2, SizeTypes DEF LayoutInv, LayoutTypeOK
  <1> HIDE DEF Extents
  <1>4. CASE Grow \/ DegreeFound \/ FallBack
    <2>1. /\ opening # "ready" /\ opening' # "ready"
          /\ UNCHANGED <<eof, emptyOffset, extents, spilled>>
      BY <1>4 DEF Grow, DegreeFound, FallBack
    <2> QED
      BY <1>1, <2>1 DEF OffsetInv, WritesApart, NoneMeet
  <1>5. CASE Opened
    <2>1. /\ opening # "loop" /\ ~Unusable /\ opening' = "ready"
          /\ eof = 0 /\ emptyOffset = 0 /\ extents = <<>> /\ ~spilled
          /\ WriteAt(getNextFreeOffset, NodeBytes(maxDeg), eof + meta.pageSize)
          /\ UNCHANGED <<meta, bSizeOfValueIdx, emptyOffset, spilled>>
      BY <1>1, <1>5 DEF Opened, OffsetInv, DegreeInv
    <2>2. Placed /\ NoneMeet
      <3>1. meta.pageSize \in Nat \ {0}
        BY <1>1, <2>1, OpenSizes
      <3>2. \A p \in Nat \ {0} : 0 % p = 0
        OBVIOUS
      <3> QED
        BY <2>1, <3>1, <3>2 DEF Placed, NoneMeet
    <2>3. /\ extents' \in Extents /\ eof' \in Nat /\ eof' > 0
          /\ NoneMeet' /\ Placed'
      BY <1>1, <2>1, <2>2, NodeStep DEF Extents
    <2> QED
      BY <1>1, <2>1, <2>3 DEF OffsetInv, WritesApart
  <1>6. ASSUME AppendNode \/ AppendValue
        PROVE  /\ opening # "loop" /\ ~Unusable /\ opening' = "ready" /\ eof > 0
               /\ ~spilled => Placed /\ NoneMeet
               /\ spilled => meta.pageSize % meta.valueSize # 0
               /\ UNCHANGED <<meta, bSizeOfValueIdx>>
    BY <1>1, <1>6 DEF AppendNode, AppendValue, OffsetInv, DegreeInv, WritesApart, sizeVars
  \* What a write of pages or slots has to keep, before a spill and after it.
  <1>7. ASSUME AppendNode \/ AppendValue,
               eof' \in Nat /\ eof' > 0 /\ emptyOffset' \in Nat /\ extents' \in Extents,
               spilled' \in BOOLEAN,
               ~spilled' => Placed' /\ NoneMeet',
               spilled' => meta.pageSize % meta.valueSize # 0
        PROVE  OffsetInv' /\ WritesApart'
    <2>1. opening' = "ready" /\ UNCHANGED meta
      BY <1>6, <1>7
    <2> QED
      BY <1>7, <2>1 DEF OffsetInv, WritesApart
  <1>8. ASSUME AppendNode \/ AppendValue
        PROVE  /\ meta.pageSize \in Nat /\ meta.valueSize \in Nat /\ NodeBytes(maxDeg) \in Nat
               /\ getNextFreeOffset \in Nat
               /\ withIndex(calculatePageNodeID(calculateRealOffset(emptyOffset)), nextPos) \in Nat
               /\ eof + meta.pageSize \in Nat /\ eof + meta.pageSize > 0
    <2>1. meta.pageSize \in Nat /\ meta.valueSize \in Nat
      BY <1>1, <1>6, <1>8, OpenSizes
    <2>2. eof + meta.pageSize \in Nat /\ eof + meta.pageSize > 0
      BY <1>1, <1>6, <1>8, <2>1
    <2> QED
      BY <1>1, <1>6, <1>8, <2>1, <2>2, NodeFits, OffsetType
  <1>9. CASE AppendNode
    <2>1. /\ WriteAt(getNextFreeOffset, NodeBytes(maxDeg), eof + meta.pageSize)
          /\ UNCHANGED <<emptyOffset, spilled>>
      BY <1>9 DEF AppendNode
    <2>2. extents' \in Extents /\ eof' \in Nat /\ eof' > 0
      <3>1. extents' \in Extents /\ eof' \in Nat /\ eof' >= eof + meta.pageSize
        BY <1>1, <1>6, <1>8, <1>9, <2>1, WriteType DEF Extents
      <3> QED
        BY <1>8, <1>9, <3>1
    <2>3. ~spilled => NoneMeet' /\ Placed'
      BY <1>1, <1>6, <1>9, <2>1, NodeStep
    <2>4. spilled => meta.pageSize % meta.valueSize # 0
      BY <1>6, <1>9
    <2> QED
      BY <1>1, <1>7, <1>9, <2>1, <2>2, <2>3, <2>4
  <1>10. CASE AppendValue /\ Full
    <2>1. /\ emptyOffset' = getNextFreeOffset
          /\ WriteAt(getNextFreeOffset, meta.valueSize, eof + meta.pageSize)
          /\ UNCHANGED spilled
      BY <1>10 DEF AppendValue
    <2>2. extents' \in Extents /\ eof' \in Nat /\ eof' > 0 /\ emptyOffset' \in Nat
      <3>1. extents' \in Extents /\ eof' \in Nat /\ eof' >= eof + meta.pageSize
        BY <1>1, <1>6, <1>8, <1>10, <2>1, WriteType DEF Extents
      <3> QED
        BY <1>8, <1>10, <2>1, <3>1
    <2>3. ~spilled => NoneMeet' /\ Placed'
      BY <1>1, <1>6, <1>10, <2>1, NewPageStep
    <2>4. spilled => meta.pageSize % meta.valueSize # 0
      BY <1>6, <1>10
    <2> QED
      BY <1>1, <1>7, <1>10, <2>1, <2>2, <2>3, <2>4
  <1>11. CASE AppendValue /\ ~Full
    <2>1. /\ emptyOffset' = withIndex(calculatePageNodeID(calculateRealOffset(emptyOffset)), nextPos)
          /\ WriteAt(emptyOffset', meta.valueSize, eof)
          /\ spilled' = (spilled \/ nextPos >= wholeValues)
      BY <1>11 DEF AppendValue
    <2>2. extents' \in Extents /\ eof' \in Nat /\ eof' > 0 /\ emptyOffset' \in Nat
      <3>1. emptyOffset' \in Nat
        BY <1>8, <1>11, <2>1
      <3>2. extents' \in Extents /\ eof' \in Nat /\ eof' >= eof
        BY <1>1, <1>6, <1>8, <1>11, <2>1, <3>1, WriteType DEF Extents
      <3> QED
        BY <1>1, <1>6, <1>11, <3>1, <3>2
    <2>3. ~spilled' => NoneMeet' /\ Placed'
      BY <1>1, <1>6, <1>11, <2>1, NextSlotStep
    <2>4. spilled' => meta.pageSize % meta.valueSize # 0
      BY <1>1, <1>6, <1>11, <2>1, FilledIsFull
    <2>5. spilled' \in BOOLEAN
      BY <2>1
    <2> QED
      BY <1>7, <1>11, <2>2, <2>3, <2>4, <2>5
  <1>12. CASE LayoutRest \/ UNCHANGED layoutVars
    <2>1. UNCHANGED <<meta, bSizeOfValueIdx, opening, eof, emptyOffset, extents, spilled>>
      BY <1>12 DEF LayoutRest, layoutVars, sizeVars
    <2> QED
      BY <1>1, <2>1 DEF OffsetInv, Placed, lastPage, lastIndex, WritesApart, NoneMeet
  <1> QED
    BY <1>4, <1>5, <1>9, <1>10, <1>11, <1>12 DEF LayoutNext

\* The conjunction is inductive, for all sizes of ConfigAssumption and any number of
\* writes.
THEOREM LayoutInvariant == LayoutSpec => []LayoutInv
  BY LayoutInitHolds, LayoutStep, PTL DEF LayoutSpec

\* calculateMaxDegree and writeNodePageToFile: a node of the degree computed, or of the
\* degree of the default sizes, fits its page, and a larger degree would not.
THEOREM DegreeIsTight == LayoutSpec => []DegreeTight
  <1>1. LayoutInv => DegreeTight
    <2> SUFFICES ASSUME LayoutInv, opening = "ready"
                 PROVE  NodeBytes(maxDeg) <= meta.pageSize /\ NodeBytes(maxDeg + 1) + 7 > meta.pageSize
      BY DEF DegreeTight
    <2>1. LayoutTypeOK /\ DegreeInv /\ ~Unusable /\ opening # "loop"
      BY DEF LayoutInv, DegreeInv
    <2> QED
      BY <2>1, NodeFits
  <1> QED
    BY <1>1, LayoutInvariant, PTL

\* appendNodePageToFile and insertNewValueToFile, for all sizes: the offsets handed out, by
\* getNextFreeOffset and by calculateNextEmtyValueNode, stand for bytes that no other new
\* page or slot has, until the rounded-up count of values in a page hands out the slot that
\* its page has no room for; where valueSize divides pageSize that never happens.
THEOREM WritesStayApart == LayoutSpec => []WritesApart
  <1>1. LayoutInv => WritesApart
    BY DEF LayoutInv
  <1> QED
    BY <1>1, LayoutInvariant, PTL

\* BPlusTree's constructor: a store that opens has a degree of at least 2 and bits for
\* an index, the default sizes included.
THEOREM OpensUsable == LayoutSpec => [](opening = "ready" => ~Unusable)
  <1>1. LayoutInv => (opening = "ready" => ~Unusable)
    BY DEF LayoutInv, DegreeInv
  <1> QED
    BY <1>1, LayoutInvariant, PTL

----------------------------------------------------------------------------
(* The value slots *)

\* What the free list holds after a pop and after a push.
LEMMA PopFacts ==
    ASSUME NEW S, NEW s \in Seq(S), s # <<>>
    PROVE  /\ Last(s) = s[Len(s)]
           /\ Len(s) \in DOMAIN s
           /\ Last(s) \in S
           /\ Front(s) \in Seq(S)
           /\ DOMAIN Front(s) = 1 .. Len(s) - 1
           /\ \A i \in 1 .. Len(s) - 1 : Front(s)[i] = s[i]
  BY DEF Last, Front

LEMMA PushFacts ==
    ASSUME NEW S, NEW s \in Seq(S), NEW x \in S
    PROVE  /\ Append(s, x) \in Seq(S)
           /\ DOMAIN Append(s, x) = 1 .. Len(s) + 1
           /\ \A i \in 1 .. Len(s) : Append(s, x)[i] = s[i]
           /\ Append(s, x)[Len(s) + 1] = x
  OBVIOUS

USE ValuesPerPageAssumption, BoundsAssumption, NoSlotAssumption

\* The slot given to k was in nobody's hands and is in the free list no more.
LEMMA GiveExclusive ==
    ASSUME TypeOK, Exclusive,
           NEW k \in Key, slot[k] = NoSlot,
           NEW s \in Slot,
           slot' = [slot EXCEPT ![k] = s],
           \A l \in Key : slot[l] # s,
           \A i, j \in DOMAIN delValues' : delValues'[i] = delValues'[j] => i = j,
           \A i \in DOMAIN delValues' : delValues'[i] # s /\ delValues'[i] # NoSlot
                                        /\ \E j \in DOMAIN delValues : delValues'[i] = delValues[j]
    PROVE  Exclusive'
  <1>1. slot \in [Key -> Slot \cup {NoSlot}]
    BY DEF TypeOK
  <1>2. \A l, m \in Key : l # m /\ slot'[l] = slot'[m] => slot'[l] = NoSlot
    BY <1>1 DEF Exclusive
  <1>3. \A l \in Key : \A i \in DOMAIN delValues' : slot'[l] # delValues'[i]
    BY <1>1 DEF Exclusive
  <1> QED
    BY <1>2, <1>3 DEF Exclusive

\* Types, and that both copies of emptyValueNode lie in the file.
LEMMA TypeStep ==
    ASSUME TypeOK, currentValueNode.page < pages, emptyValueNode.page < pages, [Next]_vars
    PROVE  TypeOK' /\ (currentValueNode.page < pages)' /\ (emptyValueNode.page < pages)'
  <1> USE DEF TypeOK, Slot
  <1>1. CASE UNCHANGED vars
    BY <1>1 DEF vars
  <1>2. CASE Restart
    BY <1>2 DEF Restart
  <1>3. ASSUME NEW k \in Key, Reuse(k)
        PROVE  TypeOK' /\ (currentValueNode.page < pages)' /\ (emptyValueNode.page < pages)'
    <2>1. Last(delValues) \in Slot /\ Front(delValues) \in Seq(Slot)
      BY <1>3, PopFacts DEF Reuse
    <2>2. /\ slot' = [slot EXCEPT ![k] = Last(delValues)] /\ delValues' = Front(delValues)
          /\ pages' \in pages .. MaxPages /\ emptyValueNode' = emptyValueNode
          /\ currentValueNode' \in {currentValueNode, emptyValueNode}
          /\ UNCHANGED <<restarts, stale>>
      BY <1>3, Zenon DEF Reuse, Give, MayUpdateRoot
    <2>3. pages' \in Nat /\ pages <= pages'
      BY <2>2
    <2>4. slot' \in [Key -> Slot \cup {NoSlot}] /\ delValues' \in Seq(Slot)
      <3> HIDE DEF Slot
      <3> QED
        BY <2>1, <2>2
    <2>5. emptyValueNode' \in Slot /\ currentValueNode' \in Slot
      <3> HIDE DEF Slot
      <3> QED
        BY <2>2
    <2>6. (currentValueNode.page < pages)' /\ (emptyValueNode.page < pages)'
      BY <2>2, <2>3
    <2> QED
      BY <2>2, <2>3, <2>4, <2>5, <2>6, Zenon
  <1>4. ASSUME NEW k \in Key, NextInPage(k)
        PROVE  TypeOK' /\ (currentValueNode.page < pages)' /\ (emptyValueNode.page < pages)'
    BY <1>4, SMTT(30) DEF NextInPage, Give, MayUpdateRoot, PageFull
  <1>5. ASSUME NEW k \in Key, NewPage(k)
        PROVE  TypeOK' /\ (currentValueNode.page < pages)' /\ (emptyValueNode.page < pages)'
    BY <1>5 DEF NewPage, Give, MayUpdateRoot
  <1>6. ASSUME NEW k \in Key, GiveBack(k)
        PROVE  TypeOK' /\ (currentValueNode.page < pages)' /\ (emptyValueNode.page < pages)'
    <2>1. Append(delValues, slot[k]) \in Seq(Slot)
      BY <1>6, PushFacts DEF GiveBack
    <2> QED
      BY <1>6, <2>1 DEF GiveBack, Give, MayUpdateRoot
  <1> QED
    BY <1>1, <1>2, <1>3, <1>4, <1>5, <1>6 DEF Next

\* Along steps without a stale header, the slots stay exclusive and behind
\* emptyValueNode.
LEMMA ExclusiveStep ==
    ASSUME TypeOK, TypeOK', Exclusive, BehindEmpty, Next, ~stale'
    PROVE  Exclusive' /\ BehindEmpty'
  <1> USE DEF TypeOK
  <1>1. CASE Restart
    BY <1>1 DEF Restart, Exclusive, BehindEmpty, Taken
  <1>2. ASSUME NEW k \in Key, Reuse(k)
        PROVE  Exclusive' /\ BehindEmpty'
    <2> DEFINE n == Len(delValues)
               s == Last(delValues)
    <2>1. /\ s = delValues[n] /\ n \in DOMAIN delValues /\ s \in Slot
          /\ DOMAIN delValues' = 1 .. n - 1
          /\ \A i \in 1 .. n - 1 : delValues'[i] = delValues[i]
      BY <1>2, PopFacts DEF Reuse
    <2>2. n \in Nat /\ DOMAIN delValues = 1 .. n
      BY DEF Exclusive
    <2>3. \A i \in DOMAIN delValues' : delValues'[i] # s /\ delValues'[i] \in Slot
                                       /\ \E j \in DOMAIN delValues : delValues'[i] = delValues[j]
      BY <2>1, <2>2, SMTT(30) DEF Exclusive
    <2>4. \A l \in Key : slot[l] # s
      BY <2>1 DEF Exclusive
    <2>5. \A i, j \in DOMAIN delValues' : delValues'[i] = delValues'[j] => i = j
      <3>1. \A i \in DOMAIN delValues' : i \in DOMAIN delValues /\ delValues'[i] = delValues[i]
        BY <2>1, <2>2
      <3>2. \A i, j \in DOMAIN delValues : delValues[i] = delValues[j] => i = j
        BY DEF Exclusive
      <3> QED
        BY <3>1, <3>2, Zenon
    <2>6. Exclusive'
      <3>1. slot[k] = NoSlot /\ slot' = [slot EXCEPT ![k] = s]
        BY <1>2, Zenon DEF Reuse, Give
      <3>2. s \in Slot /\ \A i \in DOMAIN delValues' : /\ delValues'[i] # s /\ delValues'[i] # NoSlot
                                                       /\ \E j \in DOMAIN delValues : delValues'[i] = delValues[j]
        BY <2>1, <2>3
      <3> HIDE DEF s
      <3> QED
        BY <2>4, <2>5, <3>1, <3>2, GiveExclusive, Zenon DEF TypeOK
    <2>7. Taken(s) /\ \A i \in DOMAIN delValues' : Taken(delValues'[i])
      BY <2>1, <2>2, SMTT(30) DEF BehindEmpty
    <2>8. pages <= pages' /\ emptyValueNode' = emptyValueNode
      BY <1>2 DEF Reuse
    <2>9. \A x \in Slot : Taken(x) => Taken(x)'
      BY <2>8, SMTT(30) DEF Taken, Slot
    <2>10. \A l \in Key : slot'[l] # NoSlot => slot'[l] \in Slot /\ Taken(slot'[l])
      BY <1>2, <2>1, <2>7 DEF Reuse, Give, BehindEmpty
    <2>11. emptyValueNode'.page < pages'
      BY <2>8, SMTT(30) DEF BehindEmpty, Slot
    <2> QED
      BY <2>3, <2>6, <2>7, <2>9, <2>10, <2>11 DEF BehindEmpty
  <1>3. ASSUME NEW k \in Key, slot[k] = NoSlot, delValues = <<>>, delValues' = <<>>,
               slot' = [slot EXCEPT ![k] = emptyValueNode'], emptyValueNode'.page < pages',
               pages <= pages', ~Taken(emptyValueNode'),
               \A x \in Slot : Taken(x) => Taken(x)'
        PROVE  Exclusive' /\ BehindEmpty'
    <2>1. emptyValueNode' \in Slot /\ slot \in [Key -> Slot \cup {NoSlot}]
      OBVIOUS
    <2>2. \A l \in Key : slot[l] # emptyValueNode'
      BY <1>3, <2>1 DEF BehindEmpty
    <2>3. DOMAIN delValues' = {}
      BY <1>3
    <2>4. Exclusive'
      BY <1>3, <2>1, <2>2, <2>3, GiveExclusive
    <2>5. Taken(emptyValueNode)'
      BY <1>3, <2>1 DEF Taken, Slot
    <2>6. \A l \in Key : l # k /\ slot'[l] # NoSlot => slot'[l] \in Slot /\ Taken(slot'[l])
      BY <1>3, <2>1 DEF BehindEmpty
    <2>7. \A l \in Key : slot'[l] # NoSlot => Taken(slot[l])'
      BY <1>3, <2>1, <2>5, <2>6 DEF Taken
    <2> QED
      BY <1>3, <2>3, <2>4, <2>7 DEF BehindEmpty
  <1>4. ASSUME NEW k \in Key, NextInPage(k)
        PROVE  Exclusive' /\ BehindEmpty'
    <2>1. /\ emptyValueNode'.page = emptyValueNode.page
          /\ emptyValueNode'.index = emptyValueNode.index + 1
          /\ pages <= pages' /\ emptyValueNode.page < pages
      BY <1>4 DEF NextInPage, BehindEmpty
    <2>2. ~Taken(emptyValueNode') /\ \A x \in Slot : Taken(x) => Taken(x)'
      BY <2>1, SMTT(30) DEF Taken, Slot
    <2>3. emptyValueNode'.page < pages'
      BY <2>1, SMTT(30) DEF Slot
    <2> QED
      BY <1>3, <1>4, <2>1, <2>2, <2>3 DEF NextInPage, Give
  <1>5. ASSUME NEW k \in Key, NewPage(k)
        PROVE  Exclusive' /\ BehindEmpty'
    <2>1. /\ emptyValueNode'.page >= pages /\ emptyValueNode'.page < pages'
          /\ emptyValueNode'.index = 0
          /\ pages <= pages'
      BY <1>5 DEF NewPage
    <2>2. ~Taken(emptyValueNode') /\ \A x \in Slot : Taken(x) => Taken(x)'
      BY <2>1, SMTT(30) DEF Taken, Slot
    <2> QED
      BY <1>3, <1>5, <2>1, <2>2 DEF NewPage, Give
  <1>6. ASSUME NEW k \in Key, GiveBack(k)
        PROVE  Exclusive' /\ BehindEmpty'
    <2> DEFINE n == Len(delValues)
    <2>1. /\ n \in Nat /\ DOMAIN delValues = 1 .. n /\ slot[k] \in Slot
          /\ \A i \in 1 .. n : delValues[i] \in Slot
      BY <1>6 DEF GiveBack
    <2>2. /\ DOMAIN delValues' = 1 .. n + 1
          /\ \A i \in 1 .. n : delValues'[i] = delValues[i]
          /\ delValues'[n + 1] = slot[k]
      BY <1>6, <2>1, PushFacts DEF GiveBack
    <2>3. slot' = [slot EXCEPT ![k] = NoSlot] /\ slot \in [Key -> Slot \cup {NoSlot}]
      BY <1>6 DEF GiveBack, Give
    <2>4. \A l, m \in Key : l # m /\ slot'[l] = slot'[m] => slot'[l] = NoSlot
      BY <2>3 DEF Exclusive
    <2>5. \A l \in Key : \A i \in DOMAIN delValues' : slot'[l] # delValues'[i]
      <3> SUFFICES ASSUME NEW l \in Key, NEW i \in DOMAIN delValues'
                   PROVE  slot'[l] # delValues'[i]
        OBVIOUS
      <3>1. CASE l = k
        BY <3>1, <2>1, <2>2, <2>3
      <3>2. CASE l # k /\ i = n + 1
        BY <3>2, <2>1, <2>2, <2>3 DEF Exclusive
      <3>3. CASE l # k /\ i \in 1 .. n
        BY <3>3, <2>1, <2>2, <2>3 DEF Exclusive
      <3> QED
        BY <3>1, <3>2, <3>3, <2>1, <2>2
    <2>6. \A i, j \in DOMAIN delValues' : delValues'[i] = delValues'[j] => i = j
      BY <2>1, <2>2 DEF Exclusive
    <2>7. pages' = pages /\ emptyValueNode' = emptyValueNode
      BY <1>6 DEF GiveBack
    <2>8. \A i \in DOMAIN delValues' : Taken(delValues'[i])
      BY <1>6, <2>1, <2>2 DEF BehindEmpty, GiveBack
    <2>9. \A l \in Key : slot'[l] # NoSlot => Taken(slot'[l])
      BY <2>3 DEF BehindEmpty
    <2> QED
      BY <2>4, <2>5, <2>6, <2>7, <2>8, <2>9 DEF Exclusive, BehindEmpty, Taken
  <1> QED
    BY <1>1, <1>2, <1>4, <1>5, <1>6 DEF Next

LEMMA AllocInitHolds == Init => IInv
  <1> SUFFICES ASSUME Init PROVE IInv
    OBVIOUS
  <1>1. Origin \in Slot /\ Origin.page = 0
    BY DEF Origin, Slot
  <1>2. slot \in [Key -> Slot \cup {NoSlot}] /\ delValues \in Seq(Slot) /\ DOMAIN delValues = {}
    BY DEF Init
  <1>3. TypeOK
    BY <1>1, <1>2 DEF Init, TypeOK
  <1>4. currentValueNode.page < pages /\ emptyValueNode.page < pages
    BY <1>1 DEF Init
  <1>5. \A k \in Key : slot[k] = NoSlot
    BY DEF Init
  <1> QED
    BY <1>2, <1>3, <1>4, <1>5 DEF IInv, Exclusive, BehindEmpty

\* Type correctness of the allocator, and that every slot it works from lies
\* inside the file.
THEOREM AllocTypeOK == Spec => []TypeOK
  <1> DEFINE T == TypeOK /\ currentValueNode.page < pages /\ emptyValueNode.page < pages
  <1>1. Init => T
    BY AllocInitHolds DEF IInv
  <1>2. T /\ [Next]_vars => T'
    BY TypeStep
  <1> QED
    BY <1>1, <1>2, PTL DEF Spec

\* The inductive invariant: slots in use or free are behind emptyValueNode until
\* a restart reads a header that is behind.
THEOREM AllocInvariant == Spec => []IInv
  <1>1. IInv /\ [Next]_vars => IInv'
    <2> SUFFICES ASSUME IInv, [Next]_vars PROVE IInv'
      OBVIOUS
    <2>1. TypeOK' /\ (currentValueNode.page < pages)' /\ (emptyValueNode.page < pages)'
      BY TypeStep DEF IInv
    <2>2. CASE UNCHANGED vars
      BY <2>1, <2>2 DEF vars, IInv, Exclusive, BehindEmpty, Taken
    <2>3. ASSUME Next, ~stale' PROVE ~stale
      BY <2>3 DEF Next, Reuse, NextInPage, NewPage, GiveBack, Restart, IInv, TypeOK
    <2>4. CASE Next
      BY <2>1, <2>3, <2>4, ExclusiveStep DEF IInv
    <2> QED
      BY <2>2, <2>4
  <1> QED
    BY <1>1, AllocInitHolds, PTL DEF Spec

\* For every set of keys and every page geometry: whatever is inserted, removed
\* and restarted, two keys share a value slot only after a restart that found
\* the header behind emptyValueNode.
THEOREM SlotsExclusive == Spec => []ExclusiveUnlessStale
  <1>1. IInv => ExclusiveUnlessStale
    BY DEF IInv, ExclusiveUnlessStale
  <1> QED
    BY <1>1, AllocInvariant, PTL
=============================================================================
