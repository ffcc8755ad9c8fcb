--------------------------- MODULE NodePageProofs ---------------------------
(***************************************************************************)
(* For every buffer and node of the assumptions: what is read from a page  *)
(* is the node that was written to it.                                     *)
(***************************************************************************)
EXTENDS NodePage, SequenceTheorems, TLAPS

----------------------------------------------------------------------------
(* What the properties rest on *)

Kinds == {"child", "key", "flag", "size", "junk"}
Byte == Kinds \X Nat \X Nat
Stages == {"childs", "keys", "flag", "size", "none"}

PageTypeOK ==
    /\ metaData \in Layout
    /\ file \in Seq(Byte) /\ ioBuffer \in Seq(Byte) /\ rest \in Seq(Byte)
    /\ field \in Nat /\ field <= NumFields
    /\ at \in Stages \cup {"write", "fread", "done"}
    /\ stage \in Stages
    /\ stageReadSize \in Nat /\ idx \in Nat /\ pos \in Nat /\ reads \in Nat
    /\ nodePage \in [childs : [0 .. 2 * mD - 1 -> Seq(Byte)],
                     keys : [0 .. 2 * mD - 2 -> Seq(Byte)],
                     flag : Seq(Byte),
                     size : Seq(Byte)]

\* The fields in the order they are written in, and how many bytes are in front of each.
Fields ==
    [f \in 0 .. NumFields - 1 |->
       IF f < 2 * mD THEN NodeWritten.childs[f]
       ELSE IF f < 4 * mD - 1 THEN NodeWritten.keys[f - 2 * mD]
       ELSE IF f = 4 * mD - 1 THEN NodeWritten.flag
       ELSE NodeWritten.size]
Offsets ==
    [f \in 0 .. NumFields |->
       IF f < 2 * mD THEN f * ChildSize
       ELSE IF f < 4 * mD - 1 THEN valueSize + (f - 2 * mD) * metaData.keySize
       ELSE IF f = 4 * mD - 1 THEN valueSize + keysSize
       ELSE IF f = 4 * mD THEN valueSize + keysSize + 1
       ELSE valueSize + keysSize + 3]

\* The fields up to n are in their places.
Packed(s, n) == /\ Len(s) = Offsets[n]
                /\ \A f \in 0 .. n - 1 : \A b \in 1 .. Len(Fields[f]) : s[Offsets[f] + b] = Fields[f][b]

\* The writer: what is written and what is buffered are the fields so far.
WriteInv ==
    /\ at = "write" => /\ Packed(file \o ioBuffer, field)
                       /\ Len(ioBuffer) < IO_BUFFER_SIZE
                       /\ Len(file) % IO_BUFFER_SIZE = 0
                       /\ stage = "childs" /\ stageReadSize = 0 /\ idx = 0 /\ pos = 0 /\ rest = <<>> /\ reads = 0
    /\ at # "write" => Packed(file, NumFields)

\* The reader: the buffer is the part of the file that was read last.
Buffered ==
    at # "write" /\ reads > 0 =>
      /\ Len(ioBuffer) = IO_BUFFER_SIZE
      /\ \A x \in 1 .. IO_BUFFER_SIZE : (reads - 1) * IO_BUFFER_SIZE + x <= Len(file)
                                          => ioBuffer[x] = file[(reads - 1) * IO_BUFFER_SIZE + x]

\* Where the buffer being read starts in the file.
Base == (reads - 1) * IO_BUFFER_SIZE

\* How much of the file the reader has gone through, tmp included.
Here == IF at = "fread" THEN reads * IO_BUFFER_SIZE ELSE (reads - 1) * IO_BUFFER_SIZE + pos

ChildsRead(n) == \A i \in 0 .. n - 1 : nodePage.childs[i] = NodeWritten.childs[i]
KeysRead(n) == \A i \in 0 .. n - 1 : nodePage.keys[i] = NodeWritten.keys[i]

InChilds ==
    /\ at \in {"fread", "childs"}
    /\ stageReadSize = reads * IO_BUFFER_SIZE
    /\ pos = 0 \/ at = "fread"
    /\ rest = <<>>
    /\ ChildsRead(idx) /\ idx * ChildSize = Here /\ Here < valueSize

\* rest is the start of the key idx.
InKeys ==
    /\ at \in {"fread", "keys"}
    /\ stageReadSize + valueSize = reads * IO_BUFFER_SIZE
    /\ ChildsRead(2 * mD) /\ KeysRead(idx) /\ idx <= 2 * mD - 1
    /\ Here = valueSize + idx * metaData.keySize + Len(rest)
    /\ Len(rest) <= metaData.keySize
    /\ rest # <<>> => idx < 2 * mD - 1 /\ (at = "fread" \/ pos = 0)
    /\ \A b \in 1 .. Len(rest) : rest[b] = NodeWritten.keys[idx][b]
    /\ at = "fread" => Here < valueSize + keysSize

InFlag ==
    /\ at \in {"fread", "flag"}
    /\ stageReadSize + valueSize + keysSize = reads * IO_BUFFER_SIZE
    /\ ChildsRead(2 * mD) /\ KeysRead(2 * mD - 1)
    /\ rest = <<>>
    /\ Here = valueSize + keysSize

InSize ==
    /\ at \in {"fread", "size"}
    /\ stageReadSize + valueSize + keysSize + 1 = reads * IO_BUFFER_SIZE
    /\ ChildsRead(2 * mD) /\ KeysRead(2 * mD - 1) /\ nodePage.flag = NodeWritten.flag
    /\ rest = <<>>
    /\ Here = valueSize + keysSize + 1

AllRead ==
    /\ at \in {"fread", "none", "done"}
    /\ rest = <<>>
    /\ ChildsRead(2 * mD) /\ KeysRead(2 * mD - 1)
    /\ nodePage.flag = NodeWritten.flag /\ nodePage.size = NodeWritten.size

ReadInv ==
    at # "write" => /\ at # "fread" => reads > 0
                    /\ pos <= IO_BUFFER_SIZE
                    /\ reads <= readTimes
                    /\ stage = "childs" => InChilds
                    /\ stage = "keys" => InKeys
                    /\ stage = "flag" => InFlag
                    /\ stage = "size" => InSize
                    /\ stage = "none" => AllRead

PageInv == PageTypeOK /\ WriteInv /\ Buffered /\ ReadInv

----------------------------------------------------------------------------
(* Lemmas about numbers *)

LEMMA Quotient ==
    ASSUME NEW x \in Nat, NEW y \in Nat \ {0}
    PROVE  /\ x \div y \in Nat /\ x % y \in Nat
           /\ x = y * (x \div y) + (x % y)
           /\ x % y < y
  OBVIOUS

\* An item that starts at a multiple of its width c ends within a buffer of whole items.
LEMMA NoStraddle ==
    ASSUME NEW c \in Nat \ {0}, NEW q \in Nat, NEW k \in Nat, NEW f \in Nat, NEW b \in Nat,
           c * q * k + b = f * c, b < c * q
    PROVE  b + c <= c * q
  <1>1. b = c * (f - q * k)
    OBVIOUS
  <1>2. c * (f - q * k) < c * q
    BY <1>1
  <1> DEFINE z == f - q * k
  <1>3. z \in Int /\ c * z < c * q
    BY <1>2
  <1> HIDE DEF z
  <1>4. z < q
    BY <1>3
  <1>5. c * (z + 1) <= c * q
    BY <1>3, <1>4
  <1>6. c * (z + 1) = c * z + c
    BY <1>3
  <1> QED
    BY <1>1, <1>3, <1>5, <1>6 DEF z

LEMMA Products ==
    ASSUME NEW w \in Nat, NEW i \in Nat, NEW n \in Nat, i < n
    PROVE  i * w \in Nat /\ n * w \in Nat /\ i * w + w <= n * w
  <1>1. (i + 1) * w <= n * w
    OBVIOUS
  <1>2. (i + 1) * w = i * w + w
    OBVIOUS
  <1> QED
    BY <1>1, <1>2

\* readTimes buffers cover the page, and none is read behind it.
LEMMA CoveredBy ==
    ASSUME NEW p \in Nat, NEW s \in Nat \ {0}, NEW r \in Nat
    PROVE  /\ (p + s - 1) \div s \in Nat
           /\ r < (p + s - 1) \div s => r * s < p
           /\ r = (p + s - 1) \div s => r * s >= p
  <1> DEFINE t == (p + s - 1) \div s
             m == (p + s - 1) % s
  <1>1. t \in Nat /\ m \in Nat /\ p + s - 1 = s * t + m /\ m < s
    <2>1. p + s - 1 \in Nat
      OBVIOUS
    <2> QED
      BY <2>1, Quotient
  <1>2. t \in Nat
    BY <1>1
  <1> HIDE DEF t, m
  <1>3. r = t => r * s >= p
    BY <1>1
  <1>4. r < t => r * s < p
    <2> SUFFICES ASSUME r < t PROVE r * s < p
      OBVIOUS
    <2>1. r * s + s <= t * s
      BY Products, <1>2
    <2> QED
      BY <2>1, <1>1
  <1> QED
    BY <1>2, <1>3, <1>4 DEF t

\* WholeKeys: what is left of the r bytes behind them is at most one key.
LEMMA WholeItems ==
    ASSUME NEW r \in Nat, NEW k \in Nat \ {0}, NEW i \in Nat, i * k <= r
    PROVE  LET n == Max({i, (r - 1) \div k})
           IN  n \in Nat /\ i <= n /\ n * k <= r /\ r <= n * k + k
  <1> DEFINE q == (r - 1) \div k
  <1>1. q \in Int /\ (r > 0 => q \in Nat /\ q * k <= r - 1 /\ r - 1 < q * k + k)
    <2>1. CASE r = 0
      BY <2>1
    <2>2. CASE r > 0
      <3>1. r - 1 \in Nat
        BY <2>2
      <3> QED
        BY <3>1, Quotient
    <2> QED
      BY <2>1, <2>2
  <1>2. r = 0 => i = 0 /\ q = -1
    <2>1. r = 0 => i = 0
      BY Products
    <2>2. (0 - 1) \div k = -1
      OBVIOUS
    <2> QED
      BY <2>1, <2>2
  <1> HIDE DEF q
  <1> DEFINE n == Max({i, q})
  <1>3. n \in {i, q} /\ n >= i /\ n >= q
    <2>1. \E x \in {i, q} : \A y \in {i, q} : x >= y
      BY <1>1
    <2> QED
      BY <2>1 DEF Max
  <1> HIDE DEF n
  <1>4. n \in Nat /\ i <= n
    BY <1>3, <1>1
  <1>5. n * k <= r /\ r <= n * k + k
    <2>1. CASE r = 0
      BY <2>1, <1>2, <1>3
    <2>2. CASE r > 0 /\ n = q
      BY <2>2, <1>1
    <2>3. CASE r > 0 /\ n = i /\ n # q
      <3>1. q < i
        BY <2>3, <1>3, <1>1
      <3>2. q * k + k <= i * k
        BY <3>1, <2>3, <1>1, Products
      <3>3. q * k \in Int /\ i * k \in Int
        BY <1>1
      <3> QED
        BY <2>3, <3>2, <3>3, <1>1
    <2> QED
      BY <2>1, <2>2, <2>3, <1>3
  <1> QED
    BY <1>4, <1>5 DEF n, q

----------------------------------------------------------------------------
(* Lemmas about the node *)

LEMMA Sizes ==
    ASSUME metaData \in Layout
    PROVE  /\ IO_BUFFER_SIZE \in Nat \ {0} /\ ChildSize \in Nat \ {0}
           /\ mD \in Nat \ {0} /\ metaData.keySize \in Nat \ {0} /\ metaData.pageSize \in Nat
           /\ metaData.keySize <= IO_BUFFER_SIZE
           /\ NumFields = 4 * mD + 1
           /\ valueSize \in Nat /\ keysSize \in Nat
           /\ valueSize = (2 * mD) * ChildSize /\ keysSize = (2 * mD - 1) * metaData.keySize
           /\ valueSize + keysSize + 3 <= metaData.pageSize
           /\ valueSize <= 2 * IO_BUFFER_SIZE
           /\ (valueSize + keysSize + 2) % IO_BUFFER_SIZE # 0
  <1>1. /\ metaData.maxDegree \in Nat \ {0} /\ metaData.keySize \in Nat \ {0} /\ metaData.pageSize \in Nat
        /\ metaData.keySize <= IO_BUFFER_SIZE
        /\ NodeSize(metaData) <= metaData.pageSize
        /\ 2 * metaData.maxDegree * ChildSize <= 2 * IO_BUFFER_SIZE
        /\ (NodeSize(metaData) - 1) % IO_BUFFER_SIZE # 0
    BY LayoutAssumption
  <1>2. NodeSize(metaData) = valueSize + keysSize + 3
    BY DEF NodeSize, valueSize, keysSize, mD
  <1>3. mD \in Nat \ {0} /\ NumFields = 4 * mD + 1
    BY <1>1 DEF mD, NumFields
  <1>4. /\ valueSize = (2 * mD) * ChildSize /\ keysSize = (2 * mD - 1) * metaData.keySize
        /\ valueSize \in Nat /\ keysSize \in Nat
    <2>1. 2 * mD - 1 \in Nat
      BY <1>3
    <2> QED
      BY <1>1, <1>3, <2>1, BufferAssumption DEF valueSize, keysSize
  <1>5. NodeSize(metaData) - 1 = valueSize + keysSize + 2
    BY <1>2, <1>4
  <1>6. valueSize <= 2 * IO_BUFFER_SIZE
    BY <1>1 DEF valueSize, mD
  <1> QED
    BY <1>1, <1>2, <1>3, <1>4, <1>5, <1>6, BufferAssumption

\* The node is the same as long as the sizes are.
LEMMA NodeStays ==
    ASSUME metaData' = metaData
    PROVE  /\ mD' = mD /\ NumFields' = NumFields /\ valueSize' = valueSize /\ keysSize' = keysSize
           /\ readTimes' = readTimes
           /\ NodeWritten' = NodeWritten /\ Fields' = Fields /\ Offsets' = Offsets
  <1>1. mD' = mD
    BY DEF mD
  <1>2. /\ NumFields' = NumFields /\ valueSize' = valueSize /\ keysSize' = keysSize
        /\ readTimes' = readTimes /\ metaData'.keySize = metaData.keySize
    BY <1>1 DEF NumFields, valueSize, keysSize, readTimes
  <1>3. NodeWritten' = NodeWritten
    BY <1>1, <1>2 DEF NodeWritten, Bytes
  <1>4. Fields' = Fields /\ Offsets' = Offsets
    BY <1>1, <1>2, <1>3 DEF Fields, Offsets
  <1> QED
    BY <1>1, <1>2, <1>3, <1>4

LEMMA SeqOfLength ==
    ASSUME NEW B, NEW w \in Nat, NEW s \in [1 .. w -> B]
    PROVE  s \in Seq(B) /\ Len(s) = w
  OBVIOUS

LEMMA BytesType ==
    ASSUME NEW f \in Kinds, NEW i \in Nat, NEW w \in Nat
    PROVE  Bytes(f, i, w) \in Seq(Byte) /\ Len(Bytes(f, i, w)) = w
  <1>1. \A b \in Nat : <<f, i, b>> \in Byte
    BY Zenon DEF Byte
  <1>2. \A b \in 1 .. w : b \in Nat
    OBVIOUS
  <1>3. Bytes(f, i, w) \in [1 .. w -> Byte]
    BY <1>1, <1>2, Zenon DEF Bytes
  <1> QED
    BY <1>3, SeqOfLength

LEMMA NodeType ==
    ASSUME metaData \in Layout
    PROVE  /\ NodeWritten.childs \in [0 .. 2 * mD - 1 -> Seq(Byte)]
           /\ NodeWritten.keys \in [0 .. 2 * mD - 2 -> Seq(Byte)]
           /\ NodeWritten.flag \in Seq(Byte) /\ Len(NodeWritten.flag) = 1
           /\ NodeWritten.size \in Seq(Byte) /\ Len(NodeWritten.size) = 2
           /\ \A i \in 0 .. 2 * mD - 1 : Len(NodeWritten.childs[i]) = ChildSize
           /\ \A i \in 0 .. 2 * mD - 2 : Len(NodeWritten.keys[i]) = metaData.keySize
  <1>1. mD \in Nat \ {0} /\ ChildSize \in Nat /\ metaData.keySize \in Nat
    BY Sizes
  <1>2. /\ \A i \in 0 .. 2 * mD - 1 : Bytes("child", i, ChildSize) \in Seq(Byte) /\ Len(Bytes("child", i, ChildSize)) = ChildSize
        /\ \A i \in 0 .. 2 * mD - 2 : /\ Bytes("key", i, metaData.keySize) \in Seq(Byte)
                                      /\ Len(Bytes("key", i, metaData.keySize)) = metaData.keySize
        /\ Bytes("flag", 0, 1) \in Seq(Byte) /\ Len(Bytes("flag", 0, 1)) = 1
        /\ Bytes("size", 0, 2) \in Seq(Byte) /\ Len(Bytes("size", 0, 2)) = 2
    <2>1. \A n \in Nat : \A i \in 0 .. n : i \in Nat
      OBVIOUS
    <2>2. 2 * mD - 1 \in Nat /\ 2 * mD - 2 \in Nat /\ 0 \in Nat /\ 1 \in Nat /\ 2 \in Nat
      BY <1>1
    <2>3. "child" \in Kinds /\ "key" \in Kinds /\ "flag" \in Kinds /\ "size" \in Kinds
      BY DEF Kinds
    <2> QED
      BY <1>1, <2>1, <2>2, <2>3, BytesType, Zenon
  <1> QED
    BY <1>1, <1>2 DEF NodeWritten

\* FieldBytes gives the fields in their order.
LEMMA FieldsInOrder ==
    ASSUME metaData \in Layout, NEW f \in 0 .. NumFields - 1
    PROVE  FieldBytes(f) = Fields[f]
  <1>1. mD \in Nat /\ NumFields = 4 * mD + 1
    BY Sizes
  <1>2. f < 2 * mD => /\ f \notin 2 * mD .. NumFields - 3 /\ f # NumFields - 2 /\ f # NumFields - 1
                      /\ Fields[f] = NodeWritten.childs[f]
    BY <1>1 DEF Fields
  <1>3. f >= 2 * mD /\ f < 4 * mD - 1 => /\ ~(f < 2 * mD) /\ f \in 2 * mD .. NumFields - 3
                                         /\ f # NumFields - 2 /\ f # NumFields - 1
                                         /\ Fields[f] = NodeWritten.keys[f - 2 * mD]
    BY <1>1 DEF Fields
  <1>4. f = 4 * mD - 1 => /\ ~(f < 2 * mD) /\ f \notin 2 * mD .. NumFields - 3
                          /\ f = NumFields - 2 /\ f # NumFields - 1
                          /\ Fields[f] = NodeWritten.flag
    BY <1>1 DEF Fields
  <1>5. f = 4 * mD => /\ ~(f < 2 * mD) /\ f \notin 2 * mD .. NumFields - 3
                      /\ f # NumFields - 2 /\ f = NumFields - 1
                      /\ Fields[f] = NodeWritten.size
    BY <1>1 DEF Fields
  <1>6. f < 2 * mD \/ (f >= 2 * mD /\ f < 4 * mD - 1) \/ f = 4 * mD - 1 \/ f = 4 * mD
    BY <1>1
  <1> QED
    BY <1>2, <1>3, <1>4, <1>5, <1>6, Zenon DEF FieldBytes, keyOf

\* Each field starts where the one before it ends.
LEMMA OffsetsFollow ==
    ASSUME metaData \in Layout, NEW f \in 0 .. NumFields - 1
    PROVE  /\ Fields[f] \in Seq(Byte)
           /\ Len(Fields[f]) \in Nat \ {0}
           /\ Offsets[f] \in Nat
           /\ Offsets[f + 1] = Offsets[f] + Len(Fields[f])
           /\ f < 2 * mD => Len(Fields[f]) = ChildSize /\ Offsets[f] = f * ChildSize
           /\ f >= 2 * mD /\ f < 4 * mD - 1 => /\ Len(Fields[f]) = metaData.keySize
                                               /\ Offsets[f] = valueSize + (f - 2 * mD) * metaData.keySize
           /\ f = 4 * mD - 1 => Len(Fields[f]) = 1 /\ Offsets[f] = valueSize + keysSize
           /\ f = 4 * mD => Len(Fields[f]) = 2 /\ Offsets[f] = valueSize + keysSize + 1
  <1>1. /\ mD \in Nat \ {0} /\ NumFields = 4 * mD + 1
        /\ ChildSize \in Nat \ {0} /\ metaData.keySize \in Nat \ {0}
        /\ valueSize \in Nat /\ keysSize \in Nat
        /\ valueSize = (2 * mD) * ChildSize /\ keysSize = (2 * mD - 1) * metaData.keySize
    BY Sizes
  <1> DEFINE K == metaData.keySize
             d == 2 * mD
  <1>2. f \in 0 .. NumFields /\ f + 1 \in 0 .. NumFields
    BY <1>1
  <1>3. CASE f < 2 * mD
    <2>1. Fields[f] = NodeWritten.childs[f]
      BY <1>3 DEF Fields
    <2>2. Offsets[f] = f * ChildSize
      BY <1>2, <1>3 DEF Offsets
    <2>3. Fields[f] \in Seq(Byte) /\ Len(Fields[f]) = ChildSize
      BY <1>1, <1>3, <2>1, NodeType, SMTT(30)
    <2>4. Offsets[f + 1] = (f + 1) * ChildSize
      <3>1. CASE f + 1 < 2 * mD
        BY <1>2, <3>1 DEF Offsets
      <3>2. CASE f + 1 = 2 * mD
        <4>1. Offsets[f + 1] = valueSize + ((f + 1) - 2 * mD) * metaData.keySize
          BY <1>1, <1>2, <3>2 DEF Offsets
        <4>2. ((f + 1) - 2 * mD) * metaData.keySize = 0
          BY <3>2, <1>1
        <4> QED
          BY <4>1, <4>2, <3>2, <1>1
      <3> QED
        BY <1>1, <1>3, <3>1, <3>2
    <2>5. f * ChildSize \in Nat /\ (f + 1) * ChildSize = f * ChildSize + ChildSize
      BY <1>1
    <2> QED
      BY <1>1, <1>3, <2>2, <2>3, <2>4, <2>5
  <1>4. CASE f >= 2 * mD /\ f < 4 * mD - 1
    <2>1. Fields[f] = NodeWritten.keys[f - 2 * mD] /\ f - 2 * mD \in 0 .. 2 * mD - 2
      BY <1>1, <1>4 DEF Fields
    <2>2. Offsets[f] = valueSize + (f - 2 * mD) * metaData.keySize
      BY <1>1, <1>2, <1>4 DEF Offsets
    <2>3. Fields[f] \in Seq(Byte) /\ Len(Fields[f]) = metaData.keySize
      BY <1>1, <2>1, NodeType
    <2>4. Offsets[f + 1] = valueSize + ((f - 2 * mD) + 1) * metaData.keySize
      <3>1. CASE f + 1 < 4 * mD - 1
        <4>1. (f + 1) - 2 * mD = (f - 2 * mD) + 1 /\ ~(f + 1 < 2 * mD)
          BY <1>1, <1>4
        <4> QED
          BY <1>2, <3>1, <4>1 DEF Offsets
      <3>2. CASE f + 1 = 4 * mD - 1
        <4>1. (f - 2 * mD) + 1 = 2 * mD - 1 /\ ~(f + 1 < 2 * mD)
          BY <1>1, <3>2
        <4>2. Offsets[f + 1] = valueSize + keysSize
          BY <1>1, <1>2, <3>2, <4>1 DEF Offsets
        <4> QED
          BY <1>1, <4>1, <4>2
      <3> QED
        BY <1>1, <1>4, <3>1, <3>2
    <2> DEFINE j == f - 2 * mD
    <2>5. j \in Nat
      BY <2>1
    <2> HIDE DEF j
    <2>6. j * metaData.keySize \in Nat /\ (j + 1) * metaData.keySize = j * metaData.keySize + metaData.keySize
      BY <2>5, <1>1
    <2>7. Offsets[f] \in Nat /\ Offsets[f + 1] = Offsets[f] + metaData.keySize
      BY <1>1, <2>2, <2>4, <2>6 DEF j
    <2> QED
      BY <1>1, <1>4, <2>2, <2>3, <2>7
  <1>5. CASE f = 4 * mD - 1
    <2>1. Fields[f] = NodeWritten.flag /\ Offsets[f] = valueSize + keysSize /\ Offsets[f + 1] = valueSize + keysSize + 1
      BY <1>1, <1>2, <1>5 DEF Fields, Offsets
    <2>2. Fields[f] \in Seq(Byte) /\ Len(Fields[f]) = 1
      BY <2>1, NodeType
    <2>3. ~(f < 2 * mD) /\ ~(f < 4 * mD - 1) /\ f # 4 * mD
      BY <1>1, <1>5
    <2>4. /\ Len(Fields[f]) \in Nat \ {0} /\ Offsets[f] \in Nat
          /\ Offsets[f + 1] = Offsets[f] + Len(Fields[f])
      <3> DEFINE e == valueSize + keysSize
      <3>1. e \in Nat
        BY <1>1
      <3> HIDE DEF e
      <3>2. Offsets[f] = e /\ Offsets[f + 1] = e + 1
        BY <2>1 DEF e
      <3> QED
        BY <3>1, <3>2, <2>2
    <2> QED
      BY <2>1, <2>2, <2>3, <2>4, Zenon
  <1>6. CASE f = 4 * mD
    <2>1. Fields[f] = NodeWritten.size /\ Offsets[f] = valueSize + keysSize + 1 /\ Offsets[f + 1] = valueSize + keysSize + 3
      BY <1>1, <1>2, <1>6 DEF Fields, Offsets
    <2>2. Fields[f] \in Seq(Byte) /\ Len(Fields[f]) = 2
      BY <2>1, NodeType
    <2>3. ~(f < 2 * mD) /\ ~(f < 4 * mD - 1) /\ f # 4 * mD - 1
      BY <1>1, <1>6
    <2>4. /\ Len(Fields[f]) \in Nat \ {0} /\ Offsets[f] \in Nat
          /\ Offsets[f + 1] = Offsets[f] + Len(Fields[f])
      <3> DEFINE e == valueSize + keysSize
      <3>1. e \in Nat
        BY <1>1
      <3> HIDE DEF e
      <3>2. Offsets[f] = e + 1 /\ Offsets[f + 1] = e + 3
        BY <2>1 DEF e
      <3> QED
        BY <3>1, <3>2, <2>2
    <2> QED
      BY <2>1, <2>2, <2>3, <2>4, Zenon
  <1> QED
    BY <1>1, <1>3, <1>4, <1>5, <1>6

LEMMA Scaled ==
    ASSUME NEW w \in Nat, NEW i \in Nat, NEW n \in Nat, i <= n
    PROVE  i * w \in Nat /\ n * w \in Nat /\ i * w <= n * w
  OBVIOUS

LEMMA OffsetsGrow ==
    ASSUME metaData \in Layout, NEW n \in 0 .. NumFields, NEW f \in 0 .. n
    PROVE  Offsets[f] \in Nat /\ Offsets[n] \in Nat /\ Offsets[f] <= Offsets[n]
  <1>1. /\ mD \in Nat \ {0} /\ NumFields = 4 * mD + 1
        /\ ChildSize \in Nat /\ metaData.keySize \in Nat
        /\ valueSize \in Nat /\ keysSize \in Nat
        /\ valueSize = (2 * mD) * ChildSize /\ keysSize = (2 * mD - 1) * metaData.keySize
    BY Sizes
  <1>2. ASSUME NEW a \in 0 .. NumFields
        PROVE  /\ a < 2 * mD => Offsets[a] = a * ChildSize
               /\ 2 * mD <= a /\ a < 4 * mD - 1 => Offsets[a] = valueSize + (a - 2 * mD) * metaData.keySize
               /\ a = 4 * mD - 1 => Offsets[a] = valueSize + keysSize
               /\ a = 4 * mD => Offsets[a] = valueSize + keysSize + 1
               /\ a = 4 * mD + 1 => Offsets[a] = valueSize + keysSize + 3
    BY <1>1 DEF Offsets
  <1>3. ASSUME NEW a \in 0 .. NumFields, a < 2 * mD
        PROVE  Offsets[a] = a * ChildSize /\ Offsets[a] \in Nat /\ Offsets[a] <= valueSize
    <2>1. a \in Nat /\ 2 * mD \in Nat /\ a <= 2 * mD
      BY <1>1, <1>3
    <2>2. a * ChildSize \in Nat /\ a * ChildSize <= (2 * mD) * ChildSize
      BY <2>1, <1>1, Scaled
    <2> QED
      BY <1>1, <1>2, <1>3, <2>2
  <1>4. ASSUME NEW a \in 0 .. NumFields, 2 * mD <= a, a < 4 * mD - 1
        PROVE  /\ Offsets[a] = valueSize + (a - 2 * mD) * metaData.keySize
               /\ Offsets[a] \in Nat /\ valueSize <= Offsets[a] /\ Offsets[a] <= valueSize + keysSize
    <2>1. a - 2 * mD \in Nat /\ 2 * mD - 1 \in Nat /\ a - 2 * mD <= 2 * mD - 1
      BY <1>1, <1>4
    <2>2. /\ (a - 2 * mD) * metaData.keySize \in Nat
          /\ (a - 2 * mD) * metaData.keySize <= (2 * mD - 1) * metaData.keySize
      BY <2>1, <1>1, Scaled
    <2>3. Offsets[a] = valueSize + (a - 2 * mD) * metaData.keySize
      BY <1>2, <1>4
    <2> QED
      BY <1>1, <2>2, <2>3
  <1>5. f \in 0 .. NumFields /\ f <= n
    BY <1>1
  <1>6. CASE n < 2 * mD
    <2>1. Offsets[f] = f * ChildSize /\ Offsets[n] = n * ChildSize
      BY <1>1, <1>3, <1>5, <1>6
    <2>2. f * ChildSize <= n * ChildSize /\ f * ChildSize \in Nat /\ n * ChildSize \in Nat
      BY <1>1, <1>5, Scaled
    <2> QED
      BY <2>1, <2>2
  <1>7. CASE 2 * mD <= n /\ n < 4 * mD - 1
    <2>1. CASE f < 2 * mD
      BY <1>1, <1>3, <1>4, <1>5, <1>7, <2>1
    <2>2. CASE 2 * mD <= f
      <3>1. f < 4 * mD - 1
        BY <1>1, <1>5, <1>7
      <3>2. /\ Offsets[f] = valueSize + (f - 2 * mD) * metaData.keySize
            /\ Offsets[n] = valueSize + (n - 2 * mD) * metaData.keySize
            /\ Offsets[f] \in Nat /\ Offsets[n] \in Nat
        BY <1>4, <1>5, <1>7, <2>2, <3>1
      <3>3. f - 2 * mD \in Nat /\ n - 2 * mD \in Nat /\ f - 2 * mD <= n - 2 * mD
        BY <1>1, <1>5, <1>7, <2>2
      <3>4. (f - 2 * mD) * metaData.keySize <= (n - 2 * mD) * metaData.keySize
        BY <1>1, <3>3, Scaled
      <3>5. (f - 2 * mD) * metaData.keySize \in Nat /\ (n - 2 * mD) * metaData.keySize \in Nat
        BY <1>1, <3>3, Scaled
      <3> QED
        BY <1>1, <3>2, <3>4, <3>5
    <2> QED
      BY <1>1, <1>5, <2>1, <2>2
  <1>8. CASE 4 * mD - 1 <= n
    <2>1. Offsets[n] \in Nat /\ valueSize + keysSize <= Offsets[n]
      BY <1>1, <1>2, <1>8
    <2>2. CASE f < 2 * mD
      BY <1>1, <1>3, <1>5, <2>1, <2>2
    <2>3. CASE 2 * mD <= f /\ f < 4 * mD - 1
      BY <1>1, <1>4, <1>5, <2>1, <2>3
    <2>4. CASE 4 * mD - 1 <= f
      BY <1>1, <1>2, <1>5, <1>8, <2>4
    <2> QED
      BY <1>1, <1>5, <2>2, <2>3, <2>4
  <1> QED
    BY <1>1, <1>6, <1>7, <1>8

----------------------------------------------------------------------------
(* The writer *)

\* One more field.
LEMMA Packing ==
    ASSUME metaData \in Layout, NEW s \in Seq(Byte), NEW n \in 0 .. NumFields - 1, Packed(s, n)
    PROVE  Packed(s \o Fields[n], n + 1)
  <1>0. mD \in Nat /\ NumFields = 4 * mD + 1
    BY Sizes
  <1>1. NumFields \in Nat
    BY <1>0
  <1>2. Fields[n] \in Seq(Byte) /\ Offsets[n] \in Nat /\ Offsets[n + 1] = Offsets[n] + Len(Fields[n])
    BY OffsetsFollow
  <1>3. Len(s) = Offsets[n]
    BY DEF Packed
  <1> DEFINE t == s \o Fields[n]
  <1>4. /\ Len(t) = Len(s) + Len(Fields[n])
        /\ \A x \in 1 .. Len(s) : t[x] = s[x]
        /\ \A x \in 1 .. Len(Fields[n]) : t[Len(s) + x] = Fields[n][x]
    <2> HIDE DEF Fields
    <2> DEFINE u == Fields[n]
    <2>1. u \in Seq(Byte)
      BY <1>2
    <2> HIDE DEF u
    <2>2. /\ Len(s \o u) = Len(s) + Len(u)
          /\ \A x \in 1 .. Len(s) : (s \o u)[x] = s[x]
          /\ \A x \in 1 .. Len(u) : (s \o u)[Len(s) + x] = u[x]
      BY <2>1
    <2> QED
      BY <2>2 DEF u
  <1> HIDE DEF t
  <1>5. ASSUME NEW f \in 0 .. n, NEW b \in 1 .. Len(Fields[f])
        PROVE  t[Offsets[f] + b] = Fields[f][b]
    <2>1. CASE f = n
      BY <1>3, <1>4, <2>1
    <2>2. CASE f # n
      <3>1. f \in 0 .. n - 1 /\ f \in 0 .. NumFields - 1 /\ f + 1 \in 0 .. n /\ n \in 0 .. NumFields
        BY <1>1, <2>2
      <3>2. s[Offsets[f] + b] = Fields[f][b]
        BY <3>1 DEF Packed
      <3>3. /\ Offsets[f] \in Nat /\ Offsets[f + 1] = Offsets[f] + Len(Fields[f]) /\ Len(Fields[f]) \in Nat
            /\ Offsets[f + 1] <= Offsets[n]
        BY <3>1, OffsetsFollow, OffsetsGrow
      <3>4. Offsets[f] + b \in 1 .. Len(s)
        <4> DEFINE l == Len(Fields[f])
                   e == Offsets[f]
        <4>1. /\ l \in Nat /\ e \in Nat /\ b \in 1 .. l
              /\ Len(s) \in Nat /\ e + l <= Len(s)
          BY <3>3, <1>2, <1>3
        <4> HIDE DEF l, e
        <4>2. e + b \in 1 .. Len(s)
          BY <4>1
        <4> QED
          BY <4>2 DEF e
      <3> QED
        BY <3>2, <3>4, <1>4
    <2> QED
      BY <2>1, <2>2
  <1>6. Len(t) = Offsets[n + 1] /\ (n + 1) - 1 = n
    BY <1>2, <1>3, <1>4
  <1> QED
    BY <1>5, <1>6 DEF Packed, t

\* A field that does not end in the buffer is a key.
LEMMA OnlyKeysStraddle ==
    ASSUME PageTypeOK, WriteInv, at = "write", field < NumFields,
           Len(Fields[field]) > IO_BUFFER_SIZE - Len(ioBuffer)
    PROVE  field >= 2 * mD /\ field < 4 * mD - 1
  <1>0. /\ mD \in Nat \ {0} /\ NumFields = 4 * mD + 1
        /\ IO_BUFFER_SIZE \in Nat \ {0} /\ ChildSize \in Nat \ {0}
        /\ valueSize \in Nat /\ keysSize \in Nat
        /\ (valueSize + keysSize + 2) % IO_BUFFER_SIZE # 0
    BY Sizes DEF PageTypeOK
  <1>1. field \in 0 .. NumFields - 1
    BY <1>0 DEF PageTypeOK
  <1>2. /\ Len(file) \in Nat /\ Len(ioBuffer) \in Nat
        /\ Len(file) + Len(ioBuffer) = Offsets[field]
        /\ Len(ioBuffer) < IO_BUFFER_SIZE
        /\ Len(file) % IO_BUFFER_SIZE = 0
    BY DEF PageTypeOK, WriteInv, Packed
  <1> DEFINE k == Len(file) \div IO_BUFFER_SIZE
  <1>3. k \in Nat /\ Len(file) = IO_BUFFER_SIZE * k
    BY <1>0, <1>1, <1>2, Quotient
  <1> HIDE DEF k
  <1>4. ASSUME field < 2 * mD
        PROVE  FALSE
    <2>1. Len(Fields[field]) = ChildSize /\ Offsets[field] = field * ChildSize
      BY <1>0, <1>1, <1>4, OffsetsFollow DEF PageTypeOK
    <2>2. PICK q \in Nat : IO_BUFFER_SIZE = ChildSize * q
      <3>1. IO_BUFFER_SIZE = ChildSize * (IO_BUFFER_SIZE \div ChildSize) /\ IO_BUFFER_SIZE \div ChildSize \in Nat
        BY <1>0, <1>1, BufferAssumption, Quotient
      <3> QED
        BY <3>1
    <2>3. ChildSize * q * k + Len(ioBuffer) = field * ChildSize /\ Len(ioBuffer) < ChildSize * q
      BY <1>2, <1>3, <2>1, <2>2
    <2>4. Len(ioBuffer) + ChildSize <= ChildSize * q
      <3> HIDE DEF PageTypeOK, WriteInv
      <3> DEFINE b == Len(ioBuffer)
      <3>1. b \in Nat /\ ChildSize * q * k + b = field * ChildSize /\ b < ChildSize * q /\ field \in Nat
        BY <1>2, <2>3, <1>1
      <3> HIDE DEF b
      <3>2. b + ChildSize <= ChildSize * q
        BY <3>1, <1>0, <1>3, <2>2, NoStraddle
      <3> QED
        BY <3>2 DEF b
    <2> QED
      BY <1>0, <1>1, <1>2, <2>1, <2>2, <2>4
  <1>5. ASSUME field = 4 * mD - 1
        PROVE  FALSE
    <2>1. Len(Fields[field]) = 1
      BY <1>0, <1>1, <1>5, OffsetsFollow DEF PageTypeOK
    <2> QED
      BY <1>0, <1>1, <1>2, <2>1
  <1>6. ASSUME field = 4 * mD
        PROVE  FALSE
    <2>1. Len(Fields[field]) = 2 /\ Offsets[field] = valueSize + keysSize + 1
      BY <1>0, <1>1, <1>6, OffsetsFollow DEF PageTypeOK
    <2>2. valueSize + keysSize + 2 = IO_BUFFER_SIZE * k + IO_BUFFER_SIZE
      BY <1>0, <1>1, <1>2, <1>3, <2>1
    <2>3. valueSize + keysSize + 2 = IO_BUFFER_SIZE * (k + 1)
      BY <1>0, <1>1, <1>3, <2>2
    <2>4. (IO_BUFFER_SIZE * (k + 1)) % IO_BUFFER_SIZE = 0
      BY <1>0, <1>1, <1>3
    <2> QED
      BY <1>0, <1>1, <2>3, <2>4
  <1> QED
    BY <1>0, <1>1, <1>4, <1>5, <1>6

\* Concatenation and subsequences under names of their own: a step that cites a
\* fact about them reasons from that fact alone.
Join(s, t) == s \o t
Slice(s, o, n) == SubSeq(s, o + 1, o + n)
UpTo(s, n) == SubSeq(s, 1, n)
Behind(s, n) == SubSeq(s, n + 1, Len(s))

LEMMA Joined ==
    ASSUME NEW s \in Seq(Byte), NEW t \in Seq(Byte)
    PROVE  /\ Join(s, t) \in Seq(Byte) /\ Len(Join(s, t)) = Len(s) + Len(t)
           /\ \A x \in 1 .. Len(s) : Join(s, t)[x] = s[x]
           /\ \A x \in 1 .. Len(t) : Join(s, t)[Len(s) + x] = t[x]
  BY DEF Join

LEMMA Part ==
    ASSUME NEW s \in Seq(Byte), NEW o \in Nat, NEW n \in Nat, o + n <= Len(s)
    PROVE  /\ Slice(s, o, n) \in Seq(Byte) /\ Len(Slice(s, o, n)) = n
           /\ \A x \in 1 .. n : Slice(s, o, n)[x] = s[o + x]
  BY DEF Slice

LEMMA Three ==
    ASSUME NEW s \in Seq(Byte), NEW t \in Seq(Byte), NEW u \in Seq(Byte)
    PROVE  /\ Join(Join(s, t), u) \in Seq(Byte)
           /\ Len(Join(Join(s, t), u)) = Len(s) + Len(t) + Len(u)
  <1>1. Join(s, t) \in Seq(Byte) /\ Len(Join(s, t)) = Len(s) + Len(t)
    BY Joined
  <1> QED
    BY <1>1, Joined

LEMMA Associative ==
    ASSUME NEW s \in Seq(Byte), NEW t \in Seq(Byte), NEW u \in Seq(Byte)
    PROVE  Join(Join(s, t), u) = Join(s, Join(t, u))
  BY ConcatAssociative, SMTT(30) DEF Join

LEMMA Cut ==
    ASSUME NEW s \in Seq(Byte), NEW t \in Seq(Byte), NEW u \in Seq(Byte), NEW r \in 0 .. Len(u)
    PROVE  /\ UpTo(u, r) \in Seq(Byte) /\ Len(UpTo(u, r)) = r
           /\ Behind(u, r) \in Seq(Byte) /\ Len(Behind(u, r)) = Len(u) - r
           /\ Join(Join(Join(s, t), UpTo(u, r)), Behind(u, r)) = Join(Join(s, t), u)
  <1>1. UpTo(u, r) \in Seq(Byte) /\ Len(UpTo(u, r)) = r
    BY DEF UpTo
  <1>2. Behind(u, r) \in Seq(Byte) /\ Len(Behind(u, r)) = Len(u) - r
    BY DEF Behind
  <1>3. Join(UpTo(u, r), Behind(u, r)) = u
    <2>1. 1 \in 1 .. Len(u) + 1 /\ r \in 1 - 1 .. Len(u) /\ Len(u) \in r .. Len(u)
      OBVIOUS
    <2>2. Join(UpTo(u, r), Behind(u, r)) = SubSeq(u, 1, Len(u))
      BY <2>1, ConcatAdjacentSubSeq DEF Join, UpTo, Behind
    <2> QED
      BY <2>2, SubSeqFull
  <1>4. Join(s, t) \in Seq(Byte)
    BY Joined
  <1>5. Join(Join(Join(s, t), UpTo(u, r)), Behind(u, r)) = Join(Join(s, t), Join(UpTo(u, r), Behind(u, r)))
    BY <1>1, <1>2, <1>4, Associative
  <1> QED
    BY <1>1, <1>2, <1>3, <1>5

LEMMA Multiple ==
    ASSUME NEW s \in Nat \ {0}, NEW k \in Nat
    PROVE  (k * s) % s = 0
  OBVIOUS

LEMMA WholeBuffers ==
    ASSUME NEW s \in Nat \ {0}, NEW n \in Nat, n % s = 0
    PROVE  (n + s) % s = 0
  <1>1. n \div s \in Nat /\ n = s * (n \div s)
    BY Quotient
  <1> DEFINE k == n \div s
  <1>2. k \in Nat /\ n + s = s * (k + 1)
    BY <1>1
  <1> HIDE DEF k
  <1>3. (s * (k + 1)) % s = 0
    BY <1>2
  <1> QED
    BY <1>2, <1>3

\* A field is written behind the ones before it, whichever buffers it comes to lie in.
LEMMA PutAppends ==
    ASSUME PageTypeOK, WriteInv, Put
    PROVE  /\ file' \in Seq(Byte) /\ ioBuffer' \in Seq(Byte)
           /\ file' \o ioBuffer' = (file \o ioBuffer) \o Fields[field]
           /\ Len(ioBuffer') < IO_BUFFER_SIZE
           /\ Len(file') % IO_BUFFER_SIZE = 0
  <1> DEFINE S == IO_BUFFER_SIZE
             u == Fields[field]
             room == S - Len(ioBuffer)
  <1>1. /\ metaData \in Layout /\ file \in Seq(Byte) /\ ioBuffer \in Seq(Byte)
        /\ at = "write" /\ field < NumFields /\ field \in Nat
    BY DEF PageTypeOK, Put
  <1>2. /\ mD \in Nat \ {0} /\ NumFields = 4 * mD + 1 /\ S \in Nat \ {0}
        /\ metaData.keySize \in Nat /\ metaData.keySize <= S
    BY <1>1, Sizes
  <1>3. field \in 0 .. NumFields - 1
    BY <1>1, <1>2
  <1>4. u \in Seq(Byte) /\ Len(u) \in Nat \ {0} /\ FieldBytes(field) = u
    BY <1>1, <1>3, OffsetsFollow, FieldsInOrder
  <1>5. /\ Len(ioBuffer) \in Nat /\ Len(file) \in Nat /\ Len(ioBuffer) < S /\ Len(file) % S = 0
        /\ room \in Nat \ {0}
    BY <1>1, <1>2 DEF WriteInv
  <1>6. \/ /\ Len(u) > room
           /\ file' = Join(Join(file, ioBuffer), UpTo(u, room))
           /\ ioBuffer' = Spilled(field, room)
        \/ /\ Len(u) < room
           /\ ioBuffer' = Join(ioBuffer, u) /\ file' = file
        \/ /\ Len(u) = room
           /\ file' = Join(Join(file, ioBuffer), u)
           /\ ioBuffer' = <<>>
    BY <1>4, Zenon DEF Put, Join, UpTo
  <1>7. CASE /\ Len(u) > room
             /\ file' = Join(Join(file, ioBuffer), UpTo(u, room))
             /\ ioBuffer' = Spilled(field, room)
    <2>1. field >= 2 * mD /\ field < 4 * mD - 1
      BY <1>1, <1>7, OnlyKeysStraddle
    <2>2. Len(u) = metaData.keySize
      BY <1>1, <1>3, <2>1, OffsetsFollow
    <2>3. field \in 2 * mD .. NumFields - 3 /\ room + (Len(u) - room) = Len(u) /\ room \in 0 .. Len(u)
      BY <1>1, <1>2, <1>4, <1>5, <1>7, <2>1
    <2>4. Spilled(field, room) = Behind(u, room)
      BY <1>4, <2>3 DEF Spilled, Behind
    <2> HIDE DEF u, room
    <2> DEFINE a == UpTo(u, room)
               b == Behind(u, room)
    <2>5. /\ a \in Seq(Byte) /\ Len(a) = room
          /\ b \in Seq(Byte) /\ Len(b) = Len(u) - room
          /\ Join(Join(Join(file, ioBuffer), a), b) = Join(Join(file, ioBuffer), u)
      <3>1. u \in Seq(Byte) /\ room \in 0 .. Len(u) /\ file \in Seq(Byte) /\ ioBuffer \in Seq(Byte)
        BY <1>1, <1>4, <2>3
      <3> QED
        BY <3>1, Cut
    <2>6. file' = Join(Join(file, ioBuffer), a) /\ ioBuffer' = b
      BY <1>7, <2>4
    <2> HIDE DEF a, b
    <2>7. file' \in Seq(Byte) /\ Len(file') = Len(file) + Len(ioBuffer) + Len(a)
      BY <1>1, <2>5, <2>6, Three, ZenonT(40)
    <2>8. Len(file') = Len(file) + S
      BY <1>2, <1>5, <2>5, <2>7 DEF room
    <2>9. Len(b) < S
      BY <1>2, <1>5, <2>2, <2>5
    <2>10. Len(file') % S = 0
      BY <1>2, <1>5, <2>8, WholeBuffers
    <2> QED
      BY <2>5, <2>6, <2>7, <2>9, <2>10 DEF u, Join
  <1>8. CASE Len(u) < room /\ ioBuffer' = Join(ioBuffer, u) /\ file' = file
    <2> HIDE DEF u
    <2>1. /\ Join(ioBuffer, u) \in Seq(Byte) /\ Len(Join(ioBuffer, u)) = Len(ioBuffer) + Len(u)
          /\ Join(file, Join(ioBuffer, u)) = Join(Join(file, ioBuffer), u)
      BY <1>1, <1>4, Joined, Associative
    <2>2. Len(ioBuffer') < S
      BY <1>2, <1>4, <1>5, <1>8, <2>1
    <2> QED
      BY <1>1, <1>5, <1>8, <2>1, <2>2, Zenon DEF u, Join
  <1>9. CASE Len(u) = room /\ file' = Join(Join(file, ioBuffer), u) /\ ioBuffer' = <<>>
    <2> HIDE DEF u
    <2>1. file' \in Seq(Byte) /\ Len(file') = Len(file) + Len(ioBuffer) + Len(u)
      BY <1>1, <1>4, <1>9, Three, ZenonT(40)
    <2>2. file' \o ioBuffer' = (file \o ioBuffer) \o u
      <3>1. file' \o <<>> = file'
        BY <2>1, ConcatEmptySeq, Zenon
      <3> QED
        BY <1>9, <3>1, Zenon DEF Join
    <2>3. Len(file') = Len(file) + S
      BY <1>2, <1>4, <1>5, <1>9, <2>1
    <2>4. ioBuffer' \in Seq(Byte) /\ Len(ioBuffer') < S
      BY <1>2, <1>9
    <2>5. Len(file') % S = 0
      BY <1>2, <1>5, <2>3, WholeBuffers
    <2> QED
      BY <2>1, <2>2, <2>4, <2>5 DEF u
  <1> QED
    BY <1>6, <1>7, <1>8, <1>9, Zenon

LEMMA PutStep ==
    ASSUME PageInv, Put
    PROVE  PageInv'
  <1>0. PageTypeOK /\ WriteInv /\ at = "write" /\ field < NumFields
    BY DEF PageInv, Put
  <1>1. /\ metaData' = metaData /\ at' = at /\ field' = field + 1
        /\ stage' = stage /\ stageReadSize' = stageReadSize /\ idx' = idx /\ pos' = pos /\ rest' = rest
        /\ reads' = reads /\ nodePage' = nodePage
    BY DEF Put, locals
  <1>2. /\ mD' = mD /\ NumFields' = NumFields /\ Fields' = Fields /\ Offsets' = Offsets
    BY <1>1, NodeStays
  <1>3. /\ file' \in Seq(Byte) /\ ioBuffer' \in Seq(Byte)
        /\ file' \o ioBuffer' = (file \o ioBuffer) \o Fields[field]
        /\ Len(ioBuffer') < IO_BUFFER_SIZE
        /\ Len(file') % IO_BUFFER_SIZE = 0
    BY <1>0, PutAppends
  <1>4. field \in 0 .. NumFields - 1 /\ field + 1 \in Nat /\ field + 1 <= NumFields
    <2>1. mD \in Nat /\ NumFields = 4 * mD + 1
      BY <1>0, Sizes DEF PageTypeOK
    <2> QED
      BY <1>0, <2>1 DEF PageTypeOK
  <1>5. Packed(file' \o ioBuffer', field')
    <2>1. Packed(file \o ioBuffer, field) /\ file \o ioBuffer \in Seq(Byte) /\ metaData \in Layout
      BY <1>0 DEF PageTypeOK, WriteInv
    <2>2. Packed((file \o ioBuffer) \o Fields[field], field + 1)
      BY <1>4, <2>1, Packing
    <2> QED
      BY <1>1, <1>3, <2>2
  <1>6. PageTypeOK'
    <2>1. field' \in Nat /\ field' <= NumFields
      BY <1>1, <1>4
    <2> QED
      BY <1>0, <1>1, <1>2, <1>3, <2>1 DEF PageTypeOK
  <1>7. WriteInv'
    <2>1. Packed(file \o ioBuffer, field)'
      BY <1>2, <1>5 DEF Packed
    <2> QED
      BY <1>0, <1>1, <1>3, <2>1 DEF WriteInv
  <1>8. Buffered' /\ ReadInv'
    BY <1>0, <1>1 DEF Buffered, ReadInv
  <1> QED
    BY <1>6, <1>7, <1>8 DEF PageInv

LEMMA WrittenStep ==
    ASSUME PageInv, Written
    PROVE  PageInv'
  <1>0. PageTypeOK /\ WriteInv /\ at = "write" /\ field = NumFields
    BY DEF PageInv, Written
  <1>1. /\ metaData' = metaData /\ at' = "fread" /\ field' = field /\ ioBuffer' = ioBuffer
        /\ file' = file \o ioBuffer
        /\ stage' = stage /\ stageReadSize' = stageReadSize /\ idx' = idx /\ pos' = pos /\ rest' = rest
        /\ reads' = reads /\ nodePage' = nodePage
    BY DEF Written, locals
  <1>2. /\ mD' = mD /\ NumFields' = NumFields /\ Fields' = Fields /\ Offsets' = Offsets
        /\ valueSize' = valueSize /\ readTimes' = readTimes
    BY <1>1, NodeStays
  <1>3. PageTypeOK'
    BY <1>0, <1>1, <1>2 DEF PageTypeOK
  <1>4. WriteInv'
    <2>1. Packed(file', field)
      BY <1>0, <1>1 DEF WriteInv
    <2>2. Packed(file, NumFields)'
      BY <1>0, <1>2, <2>1 DEF Packed
    <2> QED
      BY <1>1, <2>2 DEF WriteInv
  <1>5. /\ stage' = "childs" /\ stageReadSize' = 0 /\ idx' = 0 /\ pos' = 0 /\ rest' = <<>> /\ reads' = 0
    BY <1>0, <1>1 DEF WriteInv
  <1>6. Buffered'
    BY <1>5 DEF Buffered
  <1>7. ReadInv'
    <2>1. /\ IO_BUFFER_SIZE \in Nat \ {0} /\ ChildSize \in Nat \ {0} /\ mD \in Nat \ {0}
          /\ valueSize = (2 * mD) * ChildSize /\ metaData.pageSize \in Nat
      BY <1>0, Sizes DEF PageTypeOK
    <2>2. valueSize > 0
      BY <2>1
    <2>3. readTimes \in Nat
      BY <2>1, CoveredBy DEF readTimes
    <2>4. Here' = 0
      BY <1>1, <1>5, <2>1 DEF Here
    <2>5. ChildsRead(idx)'
      BY <1>5 DEF ChildsRead
    <2>6. InChilds'
      BY <1>1, <1>2, <1>5, <2>1, <2>2, <2>4, <2>5 DEF InChilds
    <2> QED
      BY <1>1, <1>2, <1>5, <2>1, <2>3, <2>6 DEF ReadInv
  <1> QED
    BY <1>3, <1>4, <1>6, <1>7 DEF PageInv

----------------------------------------------------------------------------
(* The reader *)

\* Item i comes i - j items behind item j, and ends before item n starts.
LEMMA ItemPlace ==
    ASSUME NEW w \in Nat, NEW j \in Nat, NEW i \in Nat, NEW n \in Nat, j <= i, i < n
    PROVE  /\ (i - j) * w \in Nat /\ j * w \in Nat /\ i * w \in Nat /\ n * w \in Nat
           /\ (i - j) * w = i * w - j * w
           /\ i * w + w <= n * w
  <1>1. i * w + w <= n * w /\ i * w \in Nat /\ n * w \in Nat
    BY Products
  <1>2. (i - j) * w = i * w - j * w /\ j * w \in Nat
    OBVIOUS
  <1>3. j * w <= i * w
    BY Scaled
  <1> QED
    BY <1>1, <1>2, <1>3

LEMMA BaseFacts ==
    ASSUME PageTypeOK, reads > 0
    PROVE  Base \in Nat /\ Base + IO_BUFFER_SIZE = reads * IO_BUFFER_SIZE
  <1>1. IO_BUFFER_SIZE \in Nat /\ reads \in Nat /\ reads - 1 \in Nat
    BY Sizes DEF PageTypeOK
  <1> QED
    BY <1>1 DEF Base

LEMMA FromBuffer ==
    ASSUME PageTypeOK, Buffered, at # "write", reads > 0,
           NEW p \in Nat, NEW w \in Nat, p + w <= IO_BUFFER_SIZE, Base + p + w <= Len(file)
    PROVE  /\ At(p, w) \in Seq(Byte) /\ Len(At(p, w)) = w
           /\ \A b \in 1 .. w : At(p, w)[b] = file[Base + p + b]
  <1>1. IO_BUFFER_SIZE \in Nat /\ Base \in Nat
    BY Sizes, BaseFacts DEF PageTypeOK
  <1>2. ioBuffer \in Seq(Byte) /\ file \in Seq(Byte) /\ Len(file) \in Nat
    BY DEF PageTypeOK
  <1>3. /\ Len(ioBuffer) = IO_BUFFER_SIZE
        /\ \A x \in 1 .. IO_BUFFER_SIZE : Base + x <= Len(file) => ioBuffer[x] = file[Base + x]
    BY DEF Buffered, Base
  <1> HIDE DEF Base
  <1> DEFINE j == Junk(p + w)
  <1>4. j \in Seq(Byte) /\ Len(j) = p + w
    <2>1. "junk" \in Kinds /\ 0 \in Nat /\ p + w \in Nat
      BY DEF Kinds
    <2> QED
      BY <2>1, BytesType DEF Junk
  <1> HIDE DEF j
  <1> DEFINE m == Join(ioBuffer, j)
  <1>5. /\ m \in Seq(Byte) /\ Len(m) = IO_BUFFER_SIZE + (p + w)
        /\ \A x \in 1 .. IO_BUFFER_SIZE : m[x] = ioBuffer[x]
    <2>1. /\ m \in Seq(Byte) /\ Len(m) = Len(ioBuffer) + Len(j)
          /\ \A x \in 1 .. Len(ioBuffer) : m[x] = ioBuffer[x]
      BY <1>2, <1>4, Joined
    <2> QED
      BY <1>3, <1>4, <2>1, Zenon
  <1> HIDE DEF m
  <1>6. At(p, w) = Slice(m, p, w)
    BY Zenon DEF At, m, j, Join, Slice
  <1>7. /\ Slice(m, p, w) \in Seq(Byte) /\ Len(Slice(m, p, w)) = w
        /\ \A b \in 1 .. w : Slice(m, p, w)[b] = m[p + b]
    <2>1. p + w <= Len(m)
      BY <1>1, <1>5
    <2> QED
      BY <1>5, <2>1, Part
  <1>8. ASSUME NEW b \in 1 .. w
        PROVE  m[p + b] = file[Base + p + b]
    <2>1. p + b \in 1 .. IO_BUFFER_SIZE /\ Base + (p + b) <= Len(file) /\ Base + (p + b) = Base + p + b
      BY <1>1, <1>2
    <2> QED
      BY <1>3, <1>5, <2>1
  <1> QED
    BY <1>6, <1>7, <1>8

\* A field that ends in the buffer is read as it was written.
LEMMA FieldAt ==
    ASSUME PageTypeOK, Buffered, at # "write", reads > 0, Packed(file, NumFields),
           NEW f \in 0 .. NumFields - 1, NEW p \in Nat,
           Base + p = Offsets[f], p + Len(Fields[f]) <= IO_BUFFER_SIZE
    PROVE  At(p, Len(Fields[f])) = Fields[f]
  <1>1. Base \in Nat /\ mD \in Nat /\ NumFields = 4 * mD + 1
    BY Sizes, BaseFacts DEF PageTypeOK
  <1>2. /\ Fields[f] \in Seq(Byte) /\ Len(Fields[f]) \in Nat
        /\ Offsets[f] \in Nat /\ Offsets[f + 1] = Offsets[f] + Len(Fields[f])
    BY OffsetsFollow DEF PageTypeOK
  <1>3. Offsets[f + 1] <= Len(file)
    <2>1. NumFields \in 0 .. NumFields /\ f + 1 \in 0 .. NumFields
      BY <1>1
    <2>2. Offsets[f + 1] <= Offsets[NumFields]
      BY <2>1, OffsetsGrow DEF PageTypeOK
    <2> QED
      BY <2>2 DEF Packed
  <1> DEFINE w == Len(Fields[f])
  <1>4. w \in Nat /\ Base + p + w <= Len(file) /\ p + w <= IO_BUFFER_SIZE
    BY <1>1, <1>2, <1>3
  <1>5. \A b \in 1 .. w : file[Offsets[f] + b] = Fields[f][b]
    BY DEF Packed
  <1> HIDE DEF w, Base
  <1>6. /\ At(p, w) \in Seq(Byte) /\ Len(At(p, w)) = w
        /\ \A b \in 1 .. w : At(p, w)[b] = file[Base + p + b]
    BY <1>4, FromBuffer
  <1>7. \A b \in 1 .. w : At(p, w)[b] = Fields[f][b]
    BY <1>5, <1>6
  <1> QED
    BY <1>2, <1>6, <1>7, SeqEqual DEF w

LEMMA ChildsTaken ==
    ASSUME PageTypeOK, Buffered, at # "write", reads > 0, Packed(file, NumFields),
           NEW n \in Nat, n <= 2 * mD, ChildsRead(idx),
           idx * ChildSize = Base + pos, n * ChildSize <= reads * IO_BUFFER_SIZE
    PROVE  /\ TakenFrom(nodePage.childs, n, ChildSize) \in [0 .. 2 * mD - 1 -> Seq(Byte)]
           /\ \A i \in 0 .. n - 1 : TakenFrom(nodePage.childs, n, ChildSize)[i] = NodeWritten.childs[i]
  <1>1. /\ mD \in Nat \ {0} /\ NumFields = 4 * mD + 1 /\ ChildSize \in Nat /\ IO_BUFFER_SIZE \in Nat
        /\ Base \in Nat /\ Base + IO_BUFFER_SIZE = reads * IO_BUFFER_SIZE
    BY Sizes, BaseFacts DEF PageTypeOK
  <1>2. idx \in Nat /\ pos \in Nat /\ nodePage.childs \in [0 .. 2 * mD - 1 -> Seq(Byte)]
    BY DEF PageTypeOK
  <1>3. ASSUME NEW i \in idx .. n - 1
        PROVE  /\ i \in 0 .. 2 * mD - 1
               /\ At(pos + (i - idx) * ChildSize, ChildSize) = NodeWritten.childs[i]
    <2>1. i \in Nat /\ idx <= i /\ i < n /\ i < 2 * mD /\ i \in 0 .. NumFields - 1
      <3>1. i \in Nat /\ idx <= i /\ i < n
        BY <1>2
      <3>2. i < 2 * mD
        BY <1>1, <3>1
      <3> QED
        BY <1>1, <3>1, <3>2
    <2> DEFINE p == pos + (i - idx) * ChildSize
    <2>2. p \in Nat /\ Base + p = i * ChildSize /\ p + ChildSize <= IO_BUFFER_SIZE
      <3> HIDE DEF Base
      <3>1. /\ (i - idx) * ChildSize \in Nat /\ idx * ChildSize \in Nat /\ i * ChildSize \in Nat /\ n * ChildSize \in Nat
            /\ (i - idx) * ChildSize = i * ChildSize - idx * ChildSize
            /\ i * ChildSize + ChildSize <= n * ChildSize
        BY <1>1, <1>2, <2>1, ItemPlace
      <3> DEFINE x == (i - idx) * ChildSize
                 y == idx * ChildSize
                 z == i * ChildSize
                 m == n * ChildSize
      <3>2. /\ x \in Nat /\ y \in Nat /\ z \in Nat /\ m \in Nat /\ x = z - y /\ z + ChildSize <= m
            /\ y = Base + pos /\ m <= Base + IO_BUFFER_SIZE /\ p = pos + x
        BY <1>1, <3>1
      <3> HIDE DEF x, y, z, m, p
      <3>3. p \in Nat /\ Base + p = z /\ p + ChildSize <= IO_BUFFER_SIZE
        BY <1>1, <1>2, <3>2
      <3> QED
        BY <3>3 DEF z
    <2> HIDE DEF p, Base
    <2>3. Len(Fields[i]) = ChildSize /\ Offsets[i] = i * ChildSize
      BY <2>1, OffsetsFollow DEF PageTypeOK
    <2>4. At(p, Len(Fields[i])) = Fields[i]
      BY <2>1, <2>2, <2>3, FieldAt
    <2>5. Fields[i] = NodeWritten.childs[i]
      BY <2>1 DEF Fields
    <2> QED
      BY <1>1, <2>1, <2>3, <2>4, <2>5 DEF p
  <1>4. NodeWritten.childs \in [0 .. 2 * mD - 1 -> Seq(Byte)]
    BY NodeType DEF PageTypeOK
  <1> HIDE DEF Base
  <1>5. TakenFrom(nodePage.childs, n, ChildSize)
          = [i \in 0 .. 2 * mD - 1 |-> IF i \in idx .. n - 1 THEN At(pos + (i - idx) * ChildSize, ChildSize) ELSE nodePage.childs[i]]
    BY <1>2 DEF TakenFrom
  <1>6. TakenFrom(nodePage.childs, n, ChildSize)
          = [i \in 0 .. 2 * mD - 1 |-> IF i \in idx .. n - 1 THEN NodeWritten.childs[i] ELSE nodePage.childs[i]]
    BY <1>3, <1>5
  <1>7. ASSUME NEW i \in 0 .. n - 1
        PROVE  /\ i \in 0 .. 2 * mD - 1
               /\ i \notin idx .. n - 1 => nodePage.childs[i] = NodeWritten.childs[i]
    BY <1>1, <1>2 DEF ChildsRead
  <1> QED
    BY <1>2, <1>4, <1>6, <1>7

LEMMA KeysTaken ==
    ASSUME PageTypeOK, Buffered, at # "write", reads > 0, Packed(file, NumFields),
           NEW n \in Nat, n <= 2 * mD - 1, KeysRead(idx),
           valueSize + idx * metaData.keySize = Base + pos,
           valueSize + n * metaData.keySize <= reads * IO_BUFFER_SIZE
    PROVE  /\ TakenFrom(nodePage.keys, n, metaData.keySize) \in [0 .. 2 * mD - 2 -> Seq(Byte)]
           /\ \A i \in 0 .. n - 1 : TakenFrom(nodePage.keys, n, metaData.keySize)[i] = NodeWritten.keys[i]
  <1> DEFINE K == metaData.keySize
  <1>1. /\ mD \in Nat \ {0} /\ NumFields = 4 * mD + 1 /\ K \in Nat /\ IO_BUFFER_SIZE \in Nat /\ valueSize \in Nat
        /\ Base \in Nat /\ Base + IO_BUFFER_SIZE = reads * IO_BUFFER_SIZE
    BY Sizes, BaseFacts DEF PageTypeOK
  <1>2. idx \in Nat /\ pos \in Nat /\ nodePage.keys \in [0 .. 2 * mD - 2 -> Seq(Byte)]
    BY DEF PageTypeOK
  <1>3. ASSUME NEW i \in idx .. n - 1
        PROVE  /\ i \in 0 .. 2 * mD - 2
               /\ At(pos + (i - idx) * K, K) = NodeWritten.keys[i]
    <2>1. i \in Nat /\ idx <= i /\ i < n /\ i \in 0 .. 2 * mD - 2
      <3>1. i \in Nat /\ idx <= i /\ i < n
        BY <1>2
      <3>2. mD \in Nat /\ n \in Nat /\ n <= 2 * mD - 1
        BY <1>1
      <3> HIDE DEF K
      <3> QED
        BY <3>1, <3>2
    <2> DEFINE p == pos + (i - idx) * K
               f == i + 2 * mD
    <2>2. p \in Nat /\ Base + p = valueSize + i * K /\ p + K <= IO_BUFFER_SIZE
      <3>1. valueSize + idx * K = Base + pos /\ valueSize + n * K <= Base + IO_BUFFER_SIZE
        BY <1>1
      <3> HIDE DEF Base, K
      <3>2. /\ (i - idx) * K \in Nat /\ idx * K \in Nat /\ i * K \in Nat /\ n * K \in Nat
            /\ (i - idx) * K = i * K - idx * K
            /\ i * K + K <= n * K
        BY <1>1, <1>2, <2>1, ItemPlace
      <3> DEFINE x == (i - idx) * K
                 y == idx * K
                 z == i * K
                 m == n * K
      <3>3. /\ x \in Nat /\ y \in Nat /\ z \in Nat /\ m \in Nat /\ x = z - y /\ z + K <= m
            /\ valueSize + y = Base + pos /\ valueSize + m <= Base + IO_BUFFER_SIZE /\ p = pos + x
        BY <3>1, <3>2
      <3> HIDE DEF x, y, z, m, p
      <3>4. p \in Nat /\ Base + p = valueSize + z /\ p + K <= IO_BUFFER_SIZE
        <4>1. K \in Nat /\ IO_BUFFER_SIZE \in Nat /\ valueSize \in Nat /\ Base \in Nat /\ pos \in Nat
          BY <1>1, <1>2
        <4>2. p \in Nat /\ Base + p = valueSize + z
          BY <3>3, <4>1
        <4> QED
          BY <3>3, <4>1, <4>2
      <3> QED
        BY <3>4 DEF z
    <2>3. f \in 0 .. NumFields - 1 /\ f >= 2 * mD /\ f < 4 * mD - 1 /\ ~(f < 2 * mD) /\ f - 2 * mD = i
      BY <1>1, <2>1
    <2> HIDE DEF p, Base, f
    <2>4. Len(Fields[f]) = K /\ Offsets[f] = valueSize + (f - 2 * mD) * K
      BY <2>3, OffsetsFollow DEF PageTypeOK
    <2>5. At(p, Len(Fields[f])) = Fields[f]
      BY <2>2, <2>3, <2>4, FieldAt
    <2>6. Fields[f] = NodeWritten.keys[i]
      BY <2>3 DEF Fields
    <2> QED
      BY <2>1, <2>4, <2>5, <2>6 DEF p
  <1>4. NodeWritten.keys \in [0 .. 2 * mD - 2 -> Seq(Byte)]
    BY NodeType DEF PageTypeOK
  <1> HIDE DEF Base, K
  <1>5. TakenFrom(nodePage.keys, n, K)
          = [i \in 0 .. 2 * mD - 2 |-> IF i \in idx .. n - 1 THEN At(pos + (i - idx) * K, K) ELSE nodePage.keys[i]]
    BY <1>2 DEF TakenFrom
  <1>6. TakenFrom(nodePage.keys, n, K)
          = [i \in 0 .. 2 * mD - 2 |-> IF i \in idx .. n - 1 THEN NodeWritten.keys[i] ELSE nodePage.keys[i]]
    BY <1>3, <1>5
  <1>7. ASSUME NEW i \in 0 .. n - 1
        PROVE  /\ i \in 0 .. 2 * mD - 2
               /\ i \notin idx .. n - 1 => nodePage.keys[i] = NodeWritten.keys[i]
    <2>1. mD \in Nat /\ n \in Nat /\ n <= 2 * mD - 1 /\ idx \in Nat
      BY <1>1, <1>2
    <2>2. i \in 0 .. 2 * mD - 2 /\ (i \notin idx .. n - 1 => i \in 0 .. idx - 1)
      BY <2>1
    <2> QED
      BY <2>2 DEF KeysRead
  <1> QED
    BY <1>2, <1>4, <1>6, <1>7 DEF K

\* What the reader leaves alone.
LEMMA ReaderFrame ==
    ASSUME PageInv, at # "write", at' # "write", metaData' = metaData, UNCHANGED writer
    PROVE  /\ WriteInv' /\ Packed(file, NumFields)
           /\ ioBuffer' = ioBuffer /\ reads' = reads => Buffered'
  <1>1. NumFields' = NumFields /\ Fields' = Fields /\ Offsets' = Offsets /\ file' = file
    BY NodeStays DEF writer
  <1>2. Packed(file, NumFields)
    BY DEF PageInv, WriteInv
  <1>3. Packed(file, NumFields)'
    BY <1>1, <1>2 DEF Packed
  <1> QED
    BY <1>1, <1>2, <1>3 DEF PageInv, WriteInv, Buffered

LEMMA FreadStep ==
    ASSUME PageInv, Fread
    PROVE  PageInv'
  <1> DEFINE S == IO_BUFFER_SIZE
  <1>0. PageTypeOK /\ WriteInv /\ ReadInv /\ at = "fread" /\ reads < readTimes
    BY DEF PageInv, Fread
  <1>1. /\ metaData' = metaData /\ file' = file /\ field' = field
        /\ stage' = stage /\ idx' = idx /\ rest' = rest /\ nodePage' = nodePage
        /\ reads' = reads + 1 /\ stageReadSize' = stageReadSize + S /\ pos' = 0 /\ at' = stage
        /\ ioBuffer' = SubSeq(file \o Junk(metaData.pageSize + S), reads * S + 1, (reads + 1) * S)
    BY DEF Fread, writer
  <1>2. at' \in Stages /\ at' # "write" /\ at' # "fread"
    BY <1>0, <1>1 DEF PageTypeOK, Stages
  <1>3. /\ mD' = mD /\ NumFields' = NumFields /\ valueSize' = valueSize /\ keysSize' = keysSize
        /\ readTimes' = readTimes /\ NodeWritten' = NodeWritten
    BY <1>1, NodeStays
  <1>4. /\ S \in Nat \ {0} /\ metaData.pageSize \in Nat /\ reads \in Nat /\ readTimes \in Nat
        /\ reads * S < metaData.pageSize
    <2>1. S \in Nat \ {0} /\ metaData.pageSize \in Nat /\ reads \in Nat
      BY <1>0, Sizes DEF PageTypeOK
    <2>2. readTimes \in Nat /\ reads * S < metaData.pageSize
      BY <1>0, <2>1, CoveredBy DEF readTimes
    <2> QED
      BY <2>1, <2>2
  <1>5. reads * S \in Nat /\ (reads + 1) * S = reads * S + S /\ (reads' - 1) * S = reads * S /\ reads' * S = reads * S + S
    BY <1>1, <1>4
  <1> DEFINE o == reads * S
             j == Junk(metaData.pageSize + S)
             m == Join(file, j)
  <1>6. /\ ioBuffer' \in Seq(Byte) /\ Len(ioBuffer') = S
        /\ \A x \in 1 .. S : o + x <= Len(file) => ioBuffer'[x] = file[o + x]
    <2>1. j \in Seq(Byte) /\ Len(j) = metaData.pageSize + S
      <3>1. "junk" \in Kinds /\ 0 \in Nat /\ metaData.pageSize + S \in Nat
        BY <1>4 DEF Kinds
      <3> QED
        BY <3>1, BytesType DEF Junk
    <2>2. file \in Seq(Byte) /\ Len(file) \in Nat
      BY <1>0 DEF PageTypeOK
    <2> HIDE DEF j
    <2>3. /\ m \in Seq(Byte) /\ Len(m) = Len(file) + (metaData.pageSize + S)
          /\ \A x \in 1 .. Len(file) : m[x] = file[x]
      BY <2>1, <2>2, Joined, ZenonT(40)
    <2> HIDE DEF m, o
    <2>4. o \in Nat /\ o < metaData.pageSize
      BY <1>4, <1>5 DEF o
    <2>5. ioBuffer' = Slice(m, o, S)
      BY <1>1, <1>5 DEF m, o, j, Join, Slice
    <2>6. /\ Slice(m, o, S) \in Seq(Byte) /\ Len(Slice(m, o, S)) = S
          /\ \A x \in 1 .. S : Slice(m, o, S)[x] = m[o + x]
      <3>1. o + S <= Len(m) /\ S \in Nat
        BY <1>4, <2>2, <2>3, <2>4, SMTT(30)
      <3> QED
        BY <2>3, <2>4, <3>1, Part
    <2>7. \A x \in 1 .. S : o + x <= Len(file) => m[o + x] = file[o + x]
      BY <1>4, <2>2, <2>3, <2>4
    <2> QED
      BY <2>5, <2>6, <2>7
  <1> HIDE DEF j, m, o
  <1>7. PageTypeOK'
    <2>1. stageReadSize' \in Nat /\ reads' \in Nat /\ pos' \in Nat
      BY <1>0, <1>1, <1>4 DEF PageTypeOK
    <2>2. at' \in Stages \cup {"write", "fread", "done"}
      BY <1>2
    <2> QED
      BY <1>0, <1>1, <1>3, <1>6, <2>1, <2>2 DEF PageTypeOK
  <1>8. WriteInv'
    BY <1>0, <1>1, <1>2, ReaderFrame DEF writer
  <1>9. Buffered'
    BY <1>1, <1>5, <1>6 DEF Buffered, o
  <1>10. Here' = Here /\ Here = reads * S
    BY <1>0, <1>1, <1>2, <1>5 DEF Here
  <1>11. \A n : (ChildsRead(n) => ChildsRead(n)') /\ (KeysRead(n) => KeysRead(n)')
    BY <1>1, <1>3 DEF ChildsRead, KeysRead
  <1>12. ReadInv'
    <2>0. stageReadSize \in Nat /\ valueSize \in Nat /\ keysSize \in Nat
      BY <1>0, Sizes DEF PageTypeOK
    <2>1. stage = "childs" => InChilds'
      <3> SUFFICES ASSUME stage = "childs" PROVE InChilds'
        OBVIOUS
      <3>1. InChilds
        BY <1>0 DEF ReadInv
      <3>2. stageReadSize' = reads' * S
        BY <1>1, <1>4, <1>5, <3>1 DEF InChilds
      <3> QED
        BY <1>1, <1>3, <1>10, <3>1, <3>2, <1>11 DEF InChilds, ChildsRead
    <2>2. stage = "keys" => InKeys'
      <3> SUFFICES ASSUME stage = "keys" PROVE InKeys'
        OBVIOUS
      <3>1. InKeys
        BY <1>0 DEF ReadInv
      <3>2. stageReadSize' + valueSize = reads' * S
        BY <1>1, <1>4, <1>5, <2>0, <3>1 DEF InKeys
      <3> QED
        BY <1>1, <1>3, <1>10, <3>1, <3>2 DEF InKeys, ChildsRead, KeysRead
    <2>3. stage = "flag" => InFlag'
      <3> SUFFICES ASSUME stage = "flag" PROVE InFlag'
        OBVIOUS
      <3>1. InFlag
        BY <1>0 DEF ReadInv
      <3>2. stageReadSize' + valueSize + keysSize = reads' * S
        BY <1>1, <1>4, <1>5, <2>0, <3>1 DEF InFlag
      <3> QED
        BY <1>1, <1>3, <1>10, <3>1, <3>2 DEF InFlag, ChildsRead, KeysRead
    <2>4. stage = "size" => InSize'
      <3> SUFFICES ASSUME stage = "size" PROVE InSize'
        OBVIOUS
      <3>1. InSize
        BY <1>0 DEF ReadInv
      <3>2. stageReadSize' + valueSize + keysSize + 1 = reads' * S
        <4>1. stageReadSize + valueSize + keysSize + 1 = reads * S
          BY <3>1 DEF InSize
        <4> HIDE DEF S
        <4> QED
          BY <1>1, <1>4, <1>5, <2>0, <4>1
      <3> QED
        BY <1>1, <1>3, <1>10, <3>1, <3>2 DEF InSize, ChildsRead, KeysRead
    <2>5. stage = "none" => AllRead'
      BY <1>0, <1>1, <1>3 DEF ReadInv, AllRead, ChildsRead, KeysRead
    <2>6. reads' > 0 /\ reads' <= readTimes' /\ pos' <= S
      BY <1>0, <1>1, <1>3, <1>4
    <2> QED
      BY <1>1, <2>1, <2>2, <2>3, <2>4, <2>5, <2>6 DEF ReadInv
  <1> QED
    BY <1>7, <1>8, <1>9, <1>12 DEF PageInv

LEMMA NodeReadStep ==
    ASSUME PageInv, NodeRead
    PROVE  PageInv'
  <1>0. PageTypeOK /\ WriteInv /\ ReadInv /\ at = "fread" /\ reads = readTimes
    BY DEF PageInv, NodeRead
  <1>1. /\ metaData' = metaData /\ UNCHANGED writer /\ file' = file /\ field' = field /\ ioBuffer' = ioBuffer
        /\ stage' = stage /\ idx' = idx /\ rest' = rest /\ nodePage' = nodePage
        /\ reads' = reads /\ stageReadSize' = stageReadSize /\ pos' = pos /\ at' = "done"
    BY DEF NodeRead, writer, locals
  <1>2. /\ mD' = mD /\ NumFields' = NumFields /\ readTimes' = readTimes /\ NodeWritten' = NodeWritten
    BY <1>1, NodeStays
  <1>3. /\ IO_BUFFER_SIZE \in Nat \ {0} /\ metaData.pageSize \in Nat /\ reads \in Nat
        /\ valueSize \in Nat /\ keysSize \in Nat /\ valueSize + keysSize + 3 <= metaData.pageSize
    BY <1>0, Sizes DEF PageTypeOK
  <1>4. reads * IO_BUFFER_SIZE >= metaData.pageSize /\ reads * IO_BUFFER_SIZE \in Nat
    BY <1>0, <1>3, CoveredBy DEF readTimes
  <1>5. Here = reads * IO_BUFFER_SIZE
    BY <1>0 DEF Here
  <1>6. Here > valueSize + keysSize + 2 /\ Here \in Nat
    BY <1>3, <1>4, <1>5
  <1>7. stage = "none"
    <2>1. stage # "childs"
      BY <1>0, <1>3, <1>6 DEF ReadInv, InChilds
    <2>2. stage # "keys"
      BY <1>0, <1>3, <1>6 DEF ReadInv, InKeys
    <2>3. stage # "flag"
      BY <1>0, <1>3, <1>6 DEF ReadInv, InFlag
    <2>4. stage # "size"
      BY <1>0, <1>3, <1>6 DEF ReadInv, InSize
    <2> QED
      BY <1>0, <2>1, <2>2, <2>3, <2>4 DEF PageTypeOK, Stages
  <1>8. PageTypeOK'
    BY <1>0, <1>1, <1>2 DEF PageTypeOK
  <1>9. WriteInv' /\ Buffered'
    BY <1>0, <1>1, ReaderFrame
  <1>10. ReadInv'
    <2>1. AllRead'
      BY <1>0, <1>1, <1>2, <1>7 DEF ReadInv, AllRead, ChildsRead, KeysRead
    <2>2. reads > 0
      BY <1>3, <1>4
    <2> QED
      BY <1>0, <1>1, <1>2, <1>7, <2>1, <2>2 DEF ReadInv
  <1> QED
    BY <1>8, <1>9, <1>10 DEF PageInv

LEMMA SkipStep ==
    ASSUME PageInv, Skip
    PROVE  PageInv'
  <1>0. PageTypeOK /\ WriteInv /\ ReadInv /\ at = "none"
    BY DEF PageInv, Skip
  <1>1. /\ metaData' = metaData /\ UNCHANGED writer /\ file' = file /\ field' = field /\ ioBuffer' = ioBuffer
        /\ stage' = stage /\ idx' = idx /\ rest' = rest /\ nodePage' = nodePage
        /\ reads' = reads /\ stageReadSize' = stageReadSize /\ pos' = pos /\ at' = "fread"
    BY DEF Skip, writer, locals
  <1>2. /\ mD' = mD /\ NumFields' = NumFields /\ readTimes' = readTimes /\ NodeWritten' = NodeWritten
    BY <1>1, NodeStays
  <1>3. stage = "none"
    BY <1>0 DEF PageTypeOK, Stages, ReadInv, InChilds, InKeys, InFlag, InSize
  <1>4. PageTypeOK'
    BY <1>0, <1>1, <1>2 DEF PageTypeOK
  <1>5. WriteInv' /\ Buffered'
    BY <1>0, <1>1, ReaderFrame
  <1>6. ReadInv'
    <2>1. AllRead'
      BY <1>0, <1>1, <1>2, <1>3 DEF ReadInv, AllRead, ChildsRead, KeysRead
    <2> QED
      BY <1>0, <1>1, <1>2, <1>3, <2>1 DEF ReadInv
  <1> QED
    BY <1>4, <1>5, <1>6 DEF PageInv

\* In the switch, the case is that of the stage.
LEMMA InStage ==
    ASSUME PageTypeOK, ReadInv, at \in Stages
    PROVE  stage = at /\ reads > 0 /\ at # "fread" /\ at # "write"
  <1>1. at # "write" /\ at # "fread" /\ at # "done"
    BY DEF Stages
  <1>2. stage \in Stages
    BY DEF PageTypeOK
  <1> QED
    BY <1>1, <1>2 DEF ReadInv, Stages, InChilds, InKeys, InFlag, InSize, AllRead

LEMMA ReadChildsStep ==
    ASSUME PageInv, ReadChilds
    PROVE  PageInv'
  <1> DEFINE S == IO_BUFFER_SIZE
             C == ChildSize
  <1>0. PageTypeOK /\ WriteInv /\ Buffered /\ ReadInv /\ at = "childs"
    BY DEF PageInv, ReadChilds
  <1>1. /\ metaData' = metaData /\ UNCHANGED writer /\ file' = file /\ field' = field /\ ioBuffer' = ioBuffer
        /\ rest' = rest /\ reads' = reads
    BY DEF ReadChilds, writer
  <1>2. stage = "childs" /\ reads > 0 /\ at # "write" /\ at # "fread" /\ InChilds
    BY <1>0, InStage DEF Stages, ReadInv
  <1>3. /\ mD' = mD /\ NumFields' = NumFields /\ valueSize' = valueSize /\ keysSize' = keysSize
        /\ readTimes' = readTimes /\ NodeWritten' = NodeWritten
    BY <1>1, NodeStays
  <1>4. /\ S \in Nat \ {0} /\ C \in Nat \ {0} /\ mD \in Nat \ {0} /\ valueSize \in Nat /\ keysSize \in Nat
        /\ valueSize = (2 * mD) * C /\ valueSize <= 2 * S
        /\ Base \in Nat /\ Base + S = reads * S
        /\ metaData.keySize \in Nat /\ keysSize = (2 * mD - 1) * metaData.keySize
    BY <1>0, <1>2, Sizes, BaseFacts DEF PageTypeOK
  <1>5. /\ stageReadSize = reads * S /\ pos = 0 /\ rest = <<>> /\ ChildsRead(idx)
        /\ idx * C = Base /\ Base < valueSize
        /\ idx \in Nat /\ reads \in Nat
    <2>1. Here = Base + pos
      BY <1>2 DEF Here, Base
    <2> QED
      BY <1>0, <1>2, <1>4, <2>1 DEF InChilds, PageTypeOK
  <1>6. Packed(file, NumFields)
    BY <1>0, <1>2 DEF WriteInv
  <1>7. nodePage \in [childs : [0 .. 2 * mD - 1 -> Seq(Byte)], keys : [0 .. 2 * mD - 2 -> Seq(Byte)],
                      flag : Seq(Byte), size : Seq(Byte)]
    BY <1>0 DEF PageTypeOK
  <1>8. idx * C = Base + pos
    BY <1>4, <1>5
  <1>9. reads <= readTimes /\ reads' <= readTimes' /\ reads' > 0
    BY <1>0, <1>1, <1>2, <1>3 DEF ReadInv
  <1>10. ASSUME NEW n \in Nat, n <= 2 * mD, n * C <= reads * S,
                nodePage' = [nodePage EXCEPT !.childs = TakenFrom(@, n, C)]
         PROVE  /\ nodePage' \in [childs : [0 .. 2 * mD - 1 -> Seq(Byte)], keys : [0 .. 2 * mD - 2 -> Seq(Byte)],
                                  flag : Seq(Byte), size : Seq(Byte)]
                /\ \A i \in 0 .. n - 1 : nodePage'.childs[i] = NodeWritten.childs[i]
    <2>1. /\ TakenFrom(nodePage.childs, n, C) \in [0 .. 2 * mD - 1 -> Seq(Byte)]
          /\ \A i \in 0 .. n - 1 : TakenFrom(nodePage.childs, n, C)[i] = NodeWritten.childs[i]
      <3> HIDE DEF Base
      <3> QED
        BY <1>0, <1>2, <1>5, <1>6, <1>8, <1>10, ChildsTaken
    <2> DEFINE t == TakenFrom(nodePage.childs, n, C)
    <2>2. nodePage' = [nodePage EXCEPT !.childs = t]
      BY <1>10
    <2> HIDE DEF t
    <2>3. nodePage'.childs = t
      BY <1>7, <2>2
    <2>4. t \in [0 .. 2 * mD - 1 -> Seq(Byte)]
      BY <2>1 DEF t
    <2> QED
      BY <1>7, <2>1, <2>2, <2>3, <2>4 DEF t
  <1>11. CASE stageReadSize < valueSize
    <2> DEFINE q == S \div C
               n == Max({idx, q})
    <2>1. /\ nodePage' = [nodePage EXCEPT !.childs = TakenFrom(@, n, C)]
          /\ idx' = n /\ pos' = pos + (n - idx) * C
          /\ at' = "fread" /\ stage' = stage /\ stageReadSize' = stageReadSize
      <3>1. ~(stageReadSize >= valueSize)
        BY <1>11, <1>4, <1>5
      <3> QED
        BY <1>0, <3>1, Zenon DEF ReadChilds, Break
    <2>2. reads = 1
      <3>1. reads >= 2 => 2 * S <= reads * S
        BY <1>4, <1>5
      <3>2. reads * S < valueSize
        BY <1>5, <1>11
      <3> DEFINE x == reads * S
      <3>3. x \in Int /\ x < valueSize /\ (reads >= 2 => 2 * S <= x)
        BY <1>4, <1>5, <3>1, <3>2
      <3> HIDE DEF x
      <3>4. ~(reads >= 2)
        BY <1>4, <3>3
      <3> QED
        BY <1>2, <1>5, <3>4
    <2>3. Base = 0 /\ reads * S = S
      BY <1>4, <2>2 DEF Base
    <2>4. idx = 0
      BY <1>4, <1>5, <2>3
    <2>5. q \in Nat /\ S = C * q
      <3>1. S % C = 0
        BY BufferAssumption
      <3>2. q \in Nat /\ S = C * q + (S % C)
        BY <1>4, Quotient
      <3> HIDE DEF q
      <3> QED
        BY <1>4, <3>1, <3>2
    <2> HIDE DEF q
    <2>6. n = q
      <3>1. \A y \in {0, q} : q >= y
        BY <2>5
      <3>2. Max({0, q}) \in {0, q} /\ Max({0, q}) >= q /\ Max({0, q}) >= 0
        <4>1. \E x \in {0, q} : \A y \in {0, q} : x >= y
          BY <3>1
        <4> QED
          BY <4>1 DEF Max
      <3> QED
        BY <2>4, <2>5, <3>1, <3>2
    <2>7. q * C = S /\ q < 2 * mD
      <3>1. q * C = S
        BY <2>5, <1>4
      <3>2. q >= 2 * mD => (2 * mD) * C <= q * C
        BY <1>4, <2>5, Scaled
      <3> QED
        BY <1>4, <1>5, <1>11, <2>3, <2>5, <3>1, <3>2
    <2> HIDE DEF n
    <2>8. /\ nodePage' \in [childs : [0 .. 2 * mD - 1 -> Seq(Byte)], keys : [0 .. 2 * mD - 2 -> Seq(Byte)],
                            flag : Seq(Byte), size : Seq(Byte)]
          /\ \A i \in 0 .. q - 1 : nodePage'.childs[i] = NodeWritten.childs[i]
      <3>1. q <= 2 * mD /\ q * C <= reads * S
        BY <1>4, <2>3, <2>5, <2>7
      <3> QED
        BY <1>10, <2>1, <2>5, <2>6, <3>1
    <2>9. idx' = q /\ pos' = S
      <3>1. (q - 0) * C = S
        BY <2>5, <2>7
      <3> QED
        BY <1>4, <1>5, <2>1, <2>4, <2>6, <3>1
    <2>10. PageTypeOK'
      BY <1>0, <1>1, <1>3, <1>4, <2>1, <2>5, <2>8, <2>9 DEF PageTypeOK
    <2>11. WriteInv' /\ Buffered'
      BY <1>0, <1>1, <1>2, <2>1, ReaderFrame
    <2>12. InChilds'
      <3>1. Here' = S
        BY <1>1, <2>1, <2>3 DEF Here
      <3>2. ChildsRead(idx)'
        BY <1>3, <2>8, <2>9 DEF ChildsRead
      <3>3. S < valueSize
        BY <1>5, <1>11, <2>3
      <3> QED
        BY <1>1, <1>3, <1>5, <2>1, <2>7, <2>9, <3>1, <3>2, <3>3 DEF InChilds
    <2>13. ReadInv'
      BY <1>2, <1>4, <1>9, <2>1, <2>9, <2>12 DEF ReadInv
    <2> QED
      BY <2>10, <2>11, <2>13 DEF PageInv
  <1>12. CASE stageReadSize >= valueSize
    <2>1. /\ nodePage' = [nodePage EXCEPT !.childs = TakenFrom(@, 2 * mD, C)]
          /\ idx' = 0 /\ pos' = pos + (2 * mD - idx) * C
          /\ stageReadSize' = stageReadSize - valueSize
          /\ at' = "keys" /\ stage' = "keys"
      <3>1. ~(stageReadSize < valueSize)
        BY <1>12, <1>4, <1>5
      <3> QED
        BY <1>0, <3>1, Zenon DEF ReadChilds, FallInto
    <2>2. /\ nodePage' \in [childs : [0 .. 2 * mD - 1 -> Seq(Byte)], keys : [0 .. 2 * mD - 2 -> Seq(Byte)],
                            flag : Seq(Byte), size : Seq(Byte)]
          /\ \A i \in 0 .. 2 * mD - 1 : nodePage'.childs[i] = NodeWritten.childs[i]
      <3> DEFINE n == 2 * mD
      <3>1. n \in Nat /\ n <= 2 * mD /\ n * C <= reads * S
        BY <1>4, <1>5, <1>12
      <3> QED
        BY <1>10, <2>1, <3>1
    <2>3. pos' \in Nat /\ Base + pos' = valueSize /\ pos' <= S
      <3>1. (2 * mD - idx) * C = valueSize - idx * C
        BY <1>4, <1>5
      <3>2. pos' = valueSize - Base
        <4> DEFINE y == idx * C
                   z == (2 * mD - idx) * C
        <4>1. /\ pos' = pos + z /\ z = valueSize - y /\ y = Base + pos
              /\ y \in Nat /\ pos \in Nat /\ Base \in Nat /\ valueSize \in Nat
          BY <1>4, <1>5, <1>8, <2>1, <3>1
        <4> HIDE DEF y, z, Base
        <4> QED
          BY <4>1
      <3> HIDE DEF Base
      <3> QED
        BY <1>4, <1>5, <1>12, <3>2
    <2>4. stageReadSize' \in Nat /\ stageReadSize' + valueSize = reads * S
      <3> DEFINE x == reads * S
      <3>1. x \in Int /\ stageReadSize = x
        BY <1>4, <1>5
      <3> HIDE DEF x
      <3>2. stageReadSize' \in Nat /\ stageReadSize' + valueSize = x
        BY <1>4, <1>12, <2>1, <3>1
      <3> QED
        BY <3>2 DEF x
    <2>5. PageTypeOK'
      <3>1. at' \in Stages \cup {"write", "fread", "done"} /\ stage' \in Stages
        BY <2>1 DEF Stages
      <3> QED
        BY <1>0, <1>1, <1>3, <2>1, <2>2, <2>3, <2>4, <3>1 DEF PageTypeOK
    <2>6. WriteInv' /\ Buffered'
      BY <1>0, <1>1, <1>2, <2>1, ReaderFrame
    <2>7. InKeys'
      <3>1. Here' = valueSize
        BY <1>1, <2>1, <2>3 DEF Here, Base
      <3>2. ChildsRead(2 * mD)' /\ KeysRead(idx)'
        BY <1>3, <2>1, <2>2 DEF ChildsRead, KeysRead
      <3>3. valueSize + 0 * metaData.keySize + 0 = valueSize /\ 0 <= metaData.keySize /\ 0 <= 2 * mD - 1
        BY <1>4
      <3>4. rest' = <<>> /\ Len(rest') = 0
        BY <1>1, <1>5
      <3> QED
        BY <1>1, <1>3, <2>1, <2>4, <3>1, <3>2, <3>3, <3>4 DEF InKeys
    <2>8. ReadInv'
      BY <1>9, <2>1, <2>3, <2>7 DEF ReadInv
    <2> QED
      BY <2>5, <2>6, <2>8 DEF PageInv
  <1> QED
    BY <1>4, <1>11, <1>12, <1>0 DEF PageTypeOK

LEMMA KeyOnFile ==
    ASSUME PageTypeOK, Packed(file, NumFields), NEW i \in 0 .. 2 * mD - 2
    PROVE  /\ valueSize + i * metaData.keySize + metaData.keySize <= Len(file)
           /\ \A b \in 1 .. metaData.keySize : file[(valueSize + i * metaData.keySize) + b] = NodeWritten.keys[i][b]
  <1> DEFINE f == i + 2 * mD
  <1>1. mD \in Nat \ {0} /\ NumFields = 4 * mD + 1
    BY Sizes DEF PageTypeOK
  <1>2. /\ f \in 0 .. NumFields - 1 /\ f >= 2 * mD /\ f < 4 * mD - 1 /\ ~(f < 2 * mD) /\ f - 2 * mD = i
        /\ NumFields \in 0 .. NumFields /\ f + 1 \in 0 .. NumFields
    BY <1>1
  <1> HIDE DEF f
  <1>3. /\ Len(Fields[f]) = metaData.keySize /\ Offsets[f] = valueSize + i * metaData.keySize
        /\ Offsets[f + 1] = Offsets[f] + Len(Fields[f])
    BY <1>2, OffsetsFollow DEF PageTypeOK
  <1>4. Offsets[f + 1] <= Offsets[NumFields]
    BY <1>2, OffsetsGrow DEF PageTypeOK
  <1>5. Fields[f] = NodeWritten.keys[i]
    BY <1>2 DEF Fields
  <1> QED
    BY <1>2, <1>3, <1>4, <1>5 DEF Packed

\* What holds in the case of the keys.
LEMMA AtKeys ==
    ASSUME PageInv, at = "keys"
    PROVE  /\ PageTypeOK /\ WriteInv /\ Buffered /\ ReadInv
           /\ stage = "keys" /\ reads > 0 /\ at # "write" /\ at # "fread"
           /\ Packed(file, NumFields)
           /\ reads <= readTimes /\ pos <= IO_BUFFER_SIZE
           /\ stageReadSize + valueSize = Base + IO_BUFFER_SIZE
           /\ ChildsRead(2 * mD) /\ KeysRead(idx) /\ idx <= 2 * mD - 1
           /\ Base + pos = valueSize + idx * metaData.keySize + Len(rest)
           /\ Len(rest) <= metaData.keySize
           /\ rest # <<>> => idx < 2 * mD - 1 /\ pos = 0
           /\ \A b \in 1 .. Len(rest) : rest[b] = NodeWritten.keys[idx][b]
  <1>1. PageTypeOK /\ WriteInv /\ Buffered /\ ReadInv
    BY DEF PageInv
  <1>2. stage = "keys" /\ reads > 0 /\ at # "write" /\ at # "fread"
    BY <1>1, InStage DEF Stages
  <1>3. InKeys /\ reads <= readTimes /\ pos <= IO_BUFFER_SIZE
    BY <1>1, <1>2 DEF ReadInv
  <1>4. Packed(file, NumFields)
    BY <1>1, <1>2 DEF WriteInv
  <1>5. Here = Base + pos /\ Base + IO_BUFFER_SIZE = reads * IO_BUFFER_SIZE
    BY <1>1, <1>2, BaseFacts DEF Here, Base
  <1> QED
    BY <1>1, <1>2, <1>3, <1>4, <1>5 DEF InKeys

LEMMA CompleteKeyStep ==
    ASSUME PageInv, CompleteKey
    PROVE  PageInv'
  <1> DEFINE K == metaData.keySize
             S == IO_BUFFER_SIZE
             w == K - Len(rest)
             key == rest \o At(0, w)
  <1>0. at = "keys" /\ rest # <<>>
    BY DEF CompleteKey
  <1>1. /\ metaData' = metaData /\ UNCHANGED writer /\ file' = file /\ field' = field /\ ioBuffer' = ioBuffer
        /\ at' = at /\ stage' = stage /\ stageReadSize' = stageReadSize /\ reads' = reads
        /\ nodePage' = [nodePage EXCEPT !.keys[idx] = key]
        /\ idx' = idx + 1 /\ pos' = pos + K - Len(rest) /\ rest' = <<>>
    BY DEF CompleteKey, writer
  <1>2. /\ PageTypeOK /\ WriteInv /\ Buffered /\ ReadInv
        /\ stage = "keys" /\ reads > 0 /\ at # "write" /\ at # "fread"
        /\ Packed(file, NumFields)
        /\ reads <= readTimes
        /\ stageReadSize + valueSize = Base + S
        /\ ChildsRead(2 * mD) /\ KeysRead(idx)
        /\ Base + pos = valueSize + idx * K + Len(rest)
        /\ Len(rest) <= K
        /\ idx < 2 * mD - 1 /\ pos = 0
        /\ \A b \in 1 .. Len(rest) : rest[b] = NodeWritten.keys[idx][b]
    BY <1>0, AtKeys
  <1>3. /\ mD' = mD /\ NumFields' = NumFields /\ valueSize' = valueSize /\ keysSize' = keysSize
        /\ readTimes' = readTimes /\ NodeWritten' = NodeWritten
    BY <1>1, NodeStays
  <1>4. /\ S \in Nat \ {0} /\ mD \in Nat \ {0} /\ valueSize \in Nat /\ keysSize \in Nat
        /\ K \in Nat \ {0} /\ K <= S
        /\ Base \in Nat /\ Base + S = reads * S
    BY <1>2, Sizes, BaseFacts DEF PageTypeOK
  <1>5. /\ idx \in Nat /\ rest \in Seq(Byte) /\ Len(rest) \in Nat /\ idx \in 0 .. 2 * mD - 2
        /\ nodePage \in [childs : [0 .. 2 * mD - 1 -> Seq(Byte)], keys : [0 .. 2 * mD - 2 -> Seq(Byte)],
                         flag : Seq(Byte), size : Seq(Byte)]
    <2>1. /\ idx \in Nat /\ rest \in Seq(Byte) /\ Len(rest) \in Nat
          /\ nodePage \in [childs : [0 .. 2 * mD - 1 -> Seq(Byte)], keys : [0 .. 2 * mD - 2 -> Seq(Byte)],
                           flag : Seq(Byte), size : Seq(Byte)]
      BY <1>2 DEF PageTypeOK
    <2>2. idx < 2 * mD - 1 /\ mD \in Nat
      BY <1>2, <1>4
    <2>3. idx \in 0 .. 2 * mD - 2
      BY <2>1, <2>2
    <2> QED
      BY <2>1, <2>3
  <1>6. idx * K \in Nat /\ (idx + 1) * K = idx * K + K
    <2>1. K \in Nat /\ idx \in Nat
      BY <1>4, <1>5
    <2> HIDE DEF K
    <2> QED
      BY <2>1
  <1>7. /\ valueSize + idx * K + K <= Len(file) /\ Len(file) \in Nat
        /\ \A b \in 1 .. K : file[(valueSize + idx * K) + b] = NodeWritten.keys[idx][b]
    BY <1>2, <1>5, KeyOnFile DEF PageTypeOK
  <1>8. NodeWritten.keys[idx] \in Seq(Byte) /\ Len(NodeWritten.keys[idx]) = K
    BY <1>2, <1>5, NodeType DEF PageTypeOK
  <1> HIDE DEF K, w, Base
  <1> DEFINE o == idx * K
  <1>9. /\ o \in Nat /\ Base = valueSize + o + Len(rest) /\ w \in Nat /\ w <= S /\ w = K - Len(rest)
        /\ Base + 0 + w <= Len(file) /\ 0 + w <= S
    <2>1. o \in Nat /\ Base + 0 = valueSize + o + Len(rest) /\ valueSize + o + K <= Len(file)
      BY <1>2, <1>6, <1>7
    <2> HIDE DEF o
    <2>2. w \in Nat /\ w = K - Len(rest)
      BY <1>2, <1>4, <1>5 DEF w
    <2> QED
      <3>1. /\ S \in Nat /\ K \in Nat /\ K <= S /\ valueSize \in Nat /\ Base \in Nat
            /\ Len(rest) \in Nat /\ Len(file) \in Nat
        BY <1>4, <1>5, <1>7
      <3>2. Base = valueSize + o + Len(rest) /\ w <= S /\ 0 + w <= S
        BY <2>1, <2>2, <3>1
      <3>3. Base + 0 + w <= Len(file)
        BY <2>1, <2>2, <3>1, <3>2
      <3> QED
        BY <2>1, <2>2, <3>2, <3>3
  <1> HIDE DEF o
  <1>10. key = NodeWritten.keys[idx]
    <2>1. /\ At(0, w) \in Seq(Byte) /\ Len(At(0, w)) = w
          /\ \A b \in 1 .. w : At(0, w)[b] = file[Base + 0 + b]
      BY <1>2, <1>9, FromBuffer
    <2> DEFINE t == At(0, w)
    <2> HIDE DEF t
    <2>2. /\ t \in Seq(Byte) /\ Len(t) = w
          /\ \A b \in 1 .. w : t[b] = file[Base + b]
      BY <1>4, <2>1 DEF t
    <2>3. /\ Join(rest, t) \in Seq(Byte) /\ Len(Join(rest, t)) = Len(rest) + Len(t)
          /\ \A b \in 1 .. Len(rest) : Join(rest, t)[b] = rest[b]
          /\ \A b \in 1 .. Len(t) : Join(rest, t)[Len(rest) + b] = t[b]
      BY <1>5, <2>2, Joined
    <2>4. Len(Join(rest, t)) = K
      BY <1>4, <1>5, <1>9, <2>2, <2>3
    <2>5. ASSUME NEW b \in 1 .. K
          PROVE  Join(rest, t)[b] = NodeWritten.keys[idx][b]
      <3>1. CASE b <= Len(rest)
        BY <1>2, <1>5, <2>3, <3>1
      <3>2. CASE b > Len(rest)
        <4> DEFINE c == b - Len(rest)
        <4>1. c \in 1 .. w /\ Len(rest) + c = b /\ Base + c = (valueSize + o) + b
          BY <1>4, <1>5, <1>9, <3>2
        <4> HIDE DEF c
        <4>2. Join(rest, t)[b] = t[c] /\ t[c] = file[(valueSize + o) + b]
          BY <2>2, <2>3, <4>1
        <4> QED
          BY <1>7, <4>2 DEF o
      <3>3. b \in Nat /\ Len(rest) \in Nat
        BY <1>4, <1>5
      <3>4. b <= Len(rest) \/ b > Len(rest)
        BY <3>3
      <3> QED
        BY <3>1, <3>2, <3>4, Zenon
    <2>6. Join(rest, t) = NodeWritten.keys[idx]
      BY <1>8, <2>3, <2>4, <2>5, SeqEqual
    <2> QED
      BY <2>6 DEF t, Join
  <1> HIDE DEF key
  <1>11. /\ nodePage' \in [childs : [0 .. 2 * mD - 1 -> Seq(Byte)], keys : [0 .. 2 * mD - 2 -> Seq(Byte)],
                           flag : Seq(Byte), size : Seq(Byte)]
         /\ nodePage'.childs = nodePage.childs
         /\ nodePage'.keys = [nodePage.keys EXCEPT ![idx] = key]
    BY <1>1, <1>5, <1>8, <1>10
  <1>12. pos' \in Nat /\ pos' = w /\ pos' <= S /\ idx' \in Nat
    <2>1. pos' = 0 + K - Len(rest) /\ idx' = idx + 1
      BY <1>1, <1>2 DEF K
    <2>2. K \in Nat /\ Len(rest) \in Nat /\ idx \in Nat
      BY <1>4, <1>5
    <2> QED
      BY <1>9, <2>1, <2>2
  <1>13. PageTypeOK'
    <2>1. rest' \in Seq(Byte)
      BY <1>1
    <2> QED
      BY <1>1, <1>2, <1>3, <1>11, <1>12, <2>1 DEF PageTypeOK
  <1>14. WriteInv' /\ Buffered'
    BY <1>1, <1>2, ReaderFrame
  <1>15. InKeys'
    <2>1. Here' = valueSize + idx' * K + 0
      <3>1. Here' = Base + w
        BY <1>1, <1>2, <1>12 DEF Here, Base
      <3>2. Base + w = valueSize + o + K
        BY <1>4, <1>5, <1>9
      <3>3. (idx + 1) * K = o + K
        BY <1>6 DEF o
      <3> DEFINE z == (idx + 1) * K
      <3>4. idx' * K = z
        BY <1>1
      <3> HIDE DEF z
      <3>5. z = o + K
        BY <3>3 DEF z
      <3> QED
        BY <1>4, <1>9, <3>1, <3>2, <3>4, <3>5, SMTT(30)
    <2>2. ChildsRead(2 * mD)'
      BY <1>2, <1>3, <1>11 DEF ChildsRead
    <2>3. KeysRead(idx)'
      <3> SUFFICES ASSUME NEW i \in 0 .. idx' - 1
                   PROVE  nodePage'.keys[i] = NodeWritten.keys[i]
        BY <1>3 DEF KeysRead
      <3>1. i \in 0 .. 2 * mD - 2 /\ (i # idx => i \in 0 .. idx - 1)
        <4>1. idx' = idx + 1 /\ idx \in Nat /\ idx \in 0 .. 2 * mD - 2 /\ mD \in Nat
          BY <1>1, <1>4, <1>5
        <4> QED
          BY <4>1
      <3>2. nodePage'.keys = [nodePage.keys EXCEPT ![idx] = key] /\ i \in DOMAIN nodePage.keys
        BY <1>5, <1>11, <3>1
      <3>3. CASE i = idx
        BY <1>10, <3>2, <3>3
      <3>4. CASE i # idx
        BY <1>2, <3>1, <3>2, <3>4 DEF KeysRead
      <3> QED
        BY <3>3, <3>4
    <2>4. rest' = <<>> /\ Len(rest') = 0
      BY <1>1
    <2>5. idx' <= 2 * mD - 1
      <3>1. idx' = idx + 1 /\ idx \in Nat /\ idx \in 0 .. 2 * mD - 2 /\ mD \in Nat
        BY <1>1, <1>4, <1>5
      <3> QED
        BY <3>1
    <2>6. stageReadSize' + valueSize' = reads' * S
      BY <1>1, <1>2, <1>3, <1>4
    <2>7. \A b \in 1 .. Len(rest') : rest'[b] = NodeWritten'.keys[idx'][b]
      BY <2>4
    <2> QED
      BY <1>0, <1>1, <1>3, <1>4, <2>1, <2>2, <2>3, <2>4, <2>5, <2>6, <2>7 DEF InKeys, K
  <1>16. ReadInv'
    BY <1>1, <1>2, <1>3, <1>12, <1>15 DEF ReadInv
  <1> QED
    BY <1>13, <1>14, <1>16 DEF PageInv

LEMMA ReadKeysStep ==
    ASSUME PageInv, ReadKeys
    PROVE  PageInv'
  <1> DEFINE K == metaData.keySize
             S == IO_BUFFER_SIZE
             R == stageReadSize
  <1>0. at = "keys" /\ rest = <<>>
    BY DEF ReadKeys
  <1>1. /\ metaData' = metaData /\ UNCHANGED writer /\ file' = file /\ field' = field /\ ioBuffer' = ioBuffer
        /\ reads' = reads
    BY DEF ReadKeys, writer
  <1>2. /\ PageTypeOK /\ WriteInv /\ Buffered /\ ReadInv
        /\ stage = "keys" /\ reads > 0 /\ at # "write" /\ at # "fread"
        /\ Packed(file, NumFields)
        /\ reads <= readTimes /\ pos <= S
        /\ R + valueSize = Base + S
        /\ ChildsRead(2 * mD) /\ KeysRead(idx) /\ idx <= 2 * mD - 1
        /\ Base + pos = valueSize + idx * K + Len(rest)
    BY <1>0, AtKeys
  <1>3. /\ mD' = mD /\ NumFields' = NumFields /\ valueSize' = valueSize /\ keysSize' = keysSize
        /\ readTimes' = readTimes /\ NodeWritten' = NodeWritten
    BY <1>1, NodeStays
  <1>4. /\ S \in Nat \ {0} /\ mD \in Nat \ {0} /\ valueSize \in Nat /\ keysSize \in Nat
        /\ K \in Nat \ {0} /\ keysSize = (2 * mD - 1) * K
        /\ Base \in Nat /\ Base + S = reads * S
    BY <1>2, Sizes, BaseFacts DEF PageTypeOK
  <1>5. /\ idx \in Nat /\ pos \in Nat /\ R \in Nat /\ ioBuffer \in Seq(Byte) /\ file \in Seq(Byte)
        /\ nodePage \in [childs : [0 .. 2 * mD - 1 -> Seq(Byte)], keys : [0 .. 2 * mD - 2 -> Seq(Byte)],
                         flag : Seq(Byte), size : Seq(Byte)]
    BY <1>2 DEF PageTypeOK
  <1>6. Len(rest) = 0
    BY <1>0
  <1> HIDE DEF K, Base
  <1>7. idx * K \in Nat /\ Base + pos = valueSize + idx * K /\ idx * K <= R
    <2>1. idx * K \in Nat
      BY <1>4, <1>5
    <2> DEFINE o == idx * K
    <2>2. o \in Nat /\ Base + pos = valueSize + o + Len(rest)
      BY <1>2, <2>1
    <2> HIDE DEF o
    <2>3. Base + pos = valueSize + o /\ o <= R
      BY <1>2, <1>4, <1>5, <1>6, <2>2
    <2> QED
      BY <2>1, <2>3 DEF o
  <1>8. ASSUME NEW n \in Nat, n <= 2 * mD - 1, idx <= n, n * K <= R,
               nodePage' = [nodePage EXCEPT !.keys = TakenFrom(@, n, K)],
               pos' = pos + (n - idx) * K
        PROVE  /\ nodePage' \in [childs : [0 .. 2 * mD - 1 -> Seq(Byte)], keys : [0 .. 2 * mD - 2 -> Seq(Byte)],
                                 flag : Seq(Byte), size : Seq(Byte)]
               /\ nodePage'.childs = nodePage.childs
               /\ \A i \in 0 .. n - 1 : nodePage'.keys[i] = NodeWritten.keys[i]
               /\ n * K \in Nat
               /\ pos' \in Nat /\ Base + pos' = valueSize + n * K /\ pos' <= S
    <2>1. n * K \in Nat /\ (n - idx) * K = n * K - idx * K /\ idx * K <= n * K
      <3>1. K \in Nat /\ idx \in Nat
        BY <1>4, <1>5
      <3>2. n * K \in Nat /\ idx * K <= n * K
        BY <1>8, <3>1, Scaled
      <3>3. (n - idx) * K = n * K - idx * K
        BY <3>1
      <3> QED
        BY <3>2, <3>3
    <2>2. /\ pos' \in Nat /\ Base + pos' = valueSize + n * K /\ pos' <= S
      <3> DEFINE x == n * K
                 y == idx * K
      <3>1. /\ x \in Nat /\ y \in Nat /\ y <= x /\ x <= R
            /\ pos' = pos + (x - y) /\ Base + pos = valueSize + y
        BY <1>7, <1>8, <2>1
      <3> HIDE DEF x, y
      <3>2. Base + pos' = valueSize + x
        BY <1>4, <1>5, <3>1
      <3>3. R + valueSize = Base + S
        BY <1>2, <1>4
      <3>4. pos' \in Nat
        BY <1>5, <3>1
      <3>5. pos' <= S
        <4> DEFINE p == pos'
        <4>1. p \in Nat /\ Base + p = valueSize + x /\ x <= R /\ R \in Nat /\ x \in Nat
          BY <1>5, <3>1, <3>2, <3>4
        <4> HIDE DEF p, R
        <4>2. p <= S
          BY <1>4, <3>3, <4>1
        <4> QED
          BY <4>2 DEF p
      <3> QED
        BY <3>2, <3>4, <3>5 DEF x
    <2>3. valueSize + n * K <= reads * S
      <3> DEFINE x == n * K
                 z == reads * S
      <3>1. x \in Nat /\ x <= R /\ R + valueSize = Base + S /\ z = Base + S
        BY <1>2, <1>4, <1>8, <2>1
      <3> HIDE DEF x, z
      <3>2. valueSize + x <= z
        BY <1>4, <1>5, <3>1
      <3> QED
        BY <3>2 DEF x, z
    <2>4. /\ TakenFrom(nodePage.keys, n, K) \in [0 .. 2 * mD - 2 -> Seq(Byte)]
          /\ \A i \in 0 .. n - 1 : TakenFrom(nodePage.keys, n, K)[i] = NodeWritten.keys[i]
      <3>1. valueSize + idx * K = Base + pos
        BY <1>7
      <3> QED
        BY <1>2, <1>8, <2>3, <3>1, KeysTaken DEF K
    <2> DEFINE t == TakenFrom(nodePage.keys, n, K)
    <2>5. nodePage' = [nodePage EXCEPT !.keys = t]
      BY <1>8
    <2>6. t \in [0 .. 2 * mD - 2 -> Seq(Byte)]
      BY <2>4
    <2> HIDE DEF t
    <2>7. /\ nodePage' \in [childs : [0 .. 2 * mD - 1 -> Seq(Byte)], keys : [0 .. 2 * mD - 2 -> Seq(Byte)],
                            flag : Seq(Byte), size : Seq(Byte)]
          /\ nodePage'.childs = nodePage.childs /\ nodePage'.keys = t
      BY <1>5, <2>5, <2>6
    <2> QED
      BY <2>1, <2>2, <2>4, <2>7 DEF t
  <1>9. CASE stageReadSize < keysSize
    <2> DEFINE n == WholeKeys
    <2>1. /\ nodePage' = [nodePage EXCEPT !.keys = TakenFrom(@, n, K)]
          /\ idx' = n /\ pos' = pos + (n - idx) * K
          /\ rest' = SubSeq(ioBuffer, pos' + 1, S)
          /\ at' = "fread" /\ stage' = stage /\ stageReadSize' = R
      <3>1. ~(stageReadSize >= keysSize)
        BY <1>9, <1>4, <1>5
      <3> QED
        BY <1>0, <3>1, Zenon DEF ReadKeys, Break, K
    <2>2. n \in Nat /\ idx <= n /\ n * K <= R /\ R <= n * K + K
      BY <1>4, <1>5, <1>7, WholeItems DEF WholeKeys, K
    <2> HIDE DEF n
    <2>3. n < 2 * mD - 1
      <3>1. 2 * mD - 1 \in Nat /\ K \in Nat
        BY <1>4
      <3>2. n >= 2 * mD - 1 => (2 * mD - 1) * K <= n * K
        BY <2>2, <3>1, Scaled
      <3> DEFINE x == n * K
                 y == (2 * mD - 1) * K
      <3>3. /\ x \in Int /\ y \in Int /\ x <= R /\ R < y /\ (n >= 2 * mD - 1 => y <= x)
        BY <1>4, <1>9, <2>2, <3>1, <3>2
      <3> HIDE DEF x, y
      <3>4. ~(n >= 2 * mD - 1)
        BY <1>5, <3>3
      <3> QED
        BY <2>2, <3>1, <3>4
    <2>4. /\ nodePage' \in [childs : [0 .. 2 * mD - 1 -> Seq(Byte)], keys : [0 .. 2 * mD - 2 -> Seq(Byte)],
                            flag : Seq(Byte), size : Seq(Byte)]
          /\ nodePage'.childs = nodePage.childs
          /\ \A i \in 0 .. n - 1 : nodePage'.keys[i] = NodeWritten.keys[i]
          /\ n * K \in Nat
          /\ pos' \in Nat /\ Base + pos' = valueSize + n * K /\ pos' <= S
      <3>1. n <= 2 * mD - 1
        BY <1>4, <2>2, <2>3
      <3> QED
        BY <1>8, <2>1, <2>2, <3>1
    <2>5. n \in 0 .. 2 * mD - 2
      BY <1>4, <2>2, <2>3
    <2> DEFINE x == n * K
               w == S - pos'
    <2>6. /\ x \in Nat /\ Base + pos' = valueSize + x /\ x <= R /\ R <= x + K
      BY <2>2, <2>4
    <2> HIDE DEF x
    <2>7. w \in Nat /\ w = R - x /\ w <= K /\ pos' + w = S
      <3> DEFINE p == pos'
      <3>1. /\ p \in Nat /\ p <= S /\ S \in Nat /\ Base \in Nat /\ valueSize \in Nat /\ R \in Nat /\ K \in Nat
            /\ R + valueSize = Base + S /\ Base + p = valueSize + x /\ x \in Nat /\ x <= R /\ R <= x + K
            /\ w = S - p
        BY <1>2, <1>4, <1>5, <2>4, <2>6
      <3> HIDE DEF p, w, R
      <3>2. w = R - x /\ p + w = S
        BY <3>1
      <3>3. w \in Nat /\ w <= K
        BY <3>1, <3>2
      <3> QED
        BY <3>2, <3>3 DEF p, R
    <2> HIDE DEF w
    <2>8. /\ rest' \in Seq(Byte) /\ Len(rest') = w
          /\ \A b \in 1 .. w : rest'[b] = ioBuffer[pos' + b]
      <3>1. Len(ioBuffer) = S
        BY <1>2 DEF Buffered
      <3>2. pos' + w <= Len(ioBuffer)
        BY <1>4, <2>7, <3>1
      <3> DEFINE p == pos'
      <3>3. p \in Nat /\ p + w <= Len(ioBuffer) /\ rest' = Slice(ioBuffer, p, w)
        BY <2>1, <2>4, <2>7, <3>2 DEF Slice
      <3> HIDE DEF p
      <3>4. /\ rest' \in Seq(Byte) /\ Len(rest') = w
            /\ \A b \in 1 .. w : rest'[b] = ioBuffer[p + b]
        <4>1. ioBuffer \in Seq(Byte) /\ w \in Nat
          BY <1>5, <2>7
        <4>2. /\ Slice(ioBuffer, p, w) \in Seq(Byte) /\ Len(Slice(ioBuffer, p, w)) = w
              /\ \A b \in 1 .. w : Slice(ioBuffer, p, w)[b] = ioBuffer[p + b]
          BY <3>3, <4>1, Part
        <4> QED
          BY <3>3, <4>2
      <3> QED
        BY <3>4 DEF p
    <2>9. ASSUME NEW b \in 1 .. w
          PROVE  rest'[b] = NodeWritten.keys[n][b]
      <3>1. /\ valueSize + x + K <= Len(file) /\ Len(file) \in Nat
            /\ \A c \in 1 .. K : file[(valueSize + x) + c] = NodeWritten.keys[n][c]
        <4>1. PageTypeOK /\ Packed(file, NumFields) /\ Len(file) \in Nat
          BY <1>2, <1>5
        <4> QED
          BY <2>5, <4>1, KeyOnFile, Zenon DEF x, K
      <3>2. /\ pos' + b \in 1 .. S /\ b \in 1 .. K
            /\ Base + (pos' + b) = (valueSize + x) + b
            /\ (valueSize + x) + b <= Len(file)
        <4>1. /\ b \in Nat \ {0} /\ b <= w /\ w \in Nat /\ K \in Nat /\ S \in Nat /\ Base \in Nat /\ valueSize \in Nat
              /\ pos' \in Nat
          BY <1>4, <2>4, <2>7
        <4>2. pos' + b \in 1 .. S /\ b \in 1 .. K
          <5>1. pos' + w = S /\ w <= K
            BY <2>7
          <5> DEFINE p == pos'
          <5>2. p \in Nat /\ p + w = S
            BY <4>1, <5>1
          <5> HIDE DEF p
          <5>3. p + b \in 1 .. S /\ b \in 1 .. K
            BY <4>1, <5>1, <5>2
          <5> QED
            BY <5>3 DEF p
        <4>3. Base + (pos' + b) = (valueSize + x) + b
          <5> DEFINE p == pos'
          <5>1. p \in Nat /\ Base + p = valueSize + x /\ x \in Nat
            BY <2>6, <4>1
          <5> HIDE DEF p
          <5>2. Base + (p + b) = (valueSize + x) + b
            BY <4>1, <5>1
          <5> QED
            BY <5>2 DEF p
        <4>4. (valueSize + x) + b <= Len(file)
          BY <2>6, <3>1, <4>1, <4>2
        <4> QED
          BY <4>2, <4>3, <4>4
      <3>3. ioBuffer[pos' + b] = file[Base + (pos' + b)]
        BY <1>2, <3>2 DEF Buffered, Base
      <3> QED
        BY <2>8, <3>1, <3>2, <3>3
    <2>10. PageTypeOK'
      BY <1>1, <1>2, <1>3, <1>5, <2>1, <2>2, <2>4, <2>8 DEF PageTypeOK
    <2>11. WriteInv' /\ Buffered'
      BY <1>1, <1>2, <2>1, ReaderFrame
    <2>12. InKeys'
      <3>1. Here' = Base + S
        BY <1>1, <1>4, <2>1 DEF Here
      <3>2. Base + S = valueSize + x + w
        BY <1>2, <1>4, <1>5, <2>6, <2>7
      <3>3. Here' = valueSize' + idx' * metaData'.keySize + Len(rest')
        BY <1>1, <1>3, <2>1, <2>8, <3>1, <3>2 DEF x, K
      <3>4. ChildsRead(2 * mD)' /\ KeysRead(idx)'
        BY <1>2, <1>3, <2>1, <2>4 DEF ChildsRead, KeysRead
      <3>5. Here' < valueSize' + keysSize'
        BY <1>2, <1>3, <1>4, <1>5, <1>9, <3>1
      <3>6. idx' < 2 * mD - 1 /\ idx' <= 2 * mD - 1
        <4>1. idx' \in 0 .. 2 * mD - 2 /\ mD \in Nat
          BY <1>4, <2>1, <2>5
        <4> QED
          BY <4>1
      <3>7. stageReadSize' + valueSize' = reads' * S
        BY <1>1, <1>2, <1>3, <1>4, <2>1
      <3>8. Len(rest') <= metaData'.keySize
        BY <1>1, <2>7, <2>8 DEF K
      <3>9. \A b \in 1 .. Len(rest') : rest'[b] = NodeWritten'.keys[idx'][b]
        BY <1>3, <2>1, <2>8, <2>9
      <3> QED
        BY <1>3, <2>1, <3>3, <3>4, <3>5, <3>6, <3>7, <3>8, <3>9 DEF InKeys
    <2>13. ReadInv'
      BY <1>1, <1>2, <1>3, <2>1, <2>4, <2>12 DEF ReadInv
    <2> QED
      BY <2>10, <2>11, <2>13 DEF PageInv
  <1>10. CASE stageReadSize >= keysSize
    <2> DEFINE n == 2 * mD - 1
    <2>1. /\ nodePage' = [nodePage EXCEPT !.keys = TakenFrom(@, n, K)]
          /\ idx' = n /\ pos' = pos + (n - idx) * K
          /\ stageReadSize' = R - keysSize
          /\ at' = "flag" /\ stage' = "flag" /\ rest' = rest
      <3>1. ~(stageReadSize < keysSize)
        BY <1>10, <1>4, <1>5
      <3> QED
        BY <1>0, <3>1, Zenon DEF ReadKeys, FallInto, K
    <2>2. n \in Nat /\ n <= 2 * mD - 1 /\ idx <= n /\ n * K <= R /\ n * K = keysSize
      BY <1>2, <1>4, <1>10
    <2>3. /\ nodePage' \in [childs : [0 .. 2 * mD - 1 -> Seq(Byte)], keys : [0 .. 2 * mD - 2 -> Seq(Byte)],
                            flag : Seq(Byte), size : Seq(Byte)]
          /\ nodePage'.childs = nodePage.childs
          /\ \A i \in 0 .. n - 1 : nodePage'.keys[i] = NodeWritten.keys[i]
          /\ pos' \in Nat /\ Base + pos' = valueSize + keysSize /\ pos' <= S
      <3> HIDE DEF n
      <3>1. /\ nodePage' \in [childs : [0 .. 2 * mD - 1 -> Seq(Byte)], keys : [0 .. 2 * mD - 2 -> Seq(Byte)],
                              flag : Seq(Byte), size : Seq(Byte)]
            /\ nodePage'.childs = nodePage.childs
            /\ \A i \in 0 .. n - 1 : nodePage'.keys[i] = NodeWritten.keys[i]
            /\ pos' \in Nat /\ Base + pos' = valueSize + n * K /\ pos' <= S
        BY <1>8, <2>1, <2>2
      <3> QED
        BY <2>2, <3>1
    <2>4. stageReadSize' \in Nat /\ stageReadSize' + valueSize + keysSize = Base + S
      <3>1. /\ R \in Nat /\ keysSize \in Nat /\ valueSize \in Nat /\ S \in Nat /\ Base \in Nat
            /\ R + valueSize = Base + S /\ R >= keysSize
        BY <1>2, <1>4, <1>5, <1>10
      <3> DEFINE q == stageReadSize'
      <3>2. q = R - keysSize
        BY <2>1
      <3> HIDE DEF q, R
      <3>3. q \in Nat /\ q + valueSize + keysSize = Base + S
        BY <3>1, <3>2
      <3> QED
        BY <3>3 DEF q
    <2>5. PageTypeOK'
      <3>1. at' \in Stages \cup {"write", "fread", "done"} /\ stage' \in Stages
        BY <2>1 DEF Stages
      <3>2. idx' \in Nat /\ rest' \in Seq(Byte)
        BY <1>0, <2>1, <2>2
      <3> QED
        BY <1>1, <1>2, <1>3, <2>3, <2>4, <3>1, <3>2 DEF PageTypeOK
    <2>6. WriteInv' /\ Buffered'
      BY <1>1, <1>2, <2>1, ReaderFrame
    <2>7. InFlag'
      <3>1. Here' = valueSize + keysSize
        BY <1>1, <2>1, <2>3 DEF Here, Base
      <3>2. ChildsRead(2 * mD)' /\ KeysRead(2 * mD - 1)'
        BY <1>2, <1>3, <2>3 DEF ChildsRead, KeysRead
      <3>3. stageReadSize' + valueSize' + keysSize' = reads' * S
        BY <1>1, <1>3, <1>4, <2>4
      <3> QED
        BY <1>0, <1>3, <2>1, <3>1, <3>2, <3>3 DEF InFlag
    <2>8. ReadInv'
      BY <1>1, <1>2, <1>3, <2>1, <2>3, <2>7 DEF ReadInv
    <2> QED
      BY <2>5, <2>6, <2>8 DEF PageInv
  <1> QED
    BY <1>4, <1>5, <1>9, <1>10

LEMMA ReadFlagStep ==
    ASSUME PageInv, ReadFlag
    PROVE  PageInv'
  <1> DEFINE S == IO_BUFFER_SIZE
             R == stageReadSize
             here == valueSize + keysSize
  <1>0. at = "flag" /\ PageTypeOK /\ WriteInv /\ Buffered /\ ReadInv
    BY DEF PageInv, ReadFlag
  <1>1. /\ metaData' = metaData /\ UNCHANGED writer /\ file' = file /\ field' = field /\ ioBuffer' = ioBuffer
        /\ idx' = idx /\ rest' = rest /\ reads' = reads
    BY DEF ReadFlag, writer
  <1>2. stage = "flag" /\ reads > 0 /\ at # "write" /\ at # "fread" /\ InFlag /\ reads <= readTimes /\ pos <= S
    BY <1>0, InStage DEF Stages, ReadInv
  <1>3. /\ mD' = mD /\ NumFields' = NumFields /\ valueSize' = valueSize /\ keysSize' = keysSize
        /\ readTimes' = readTimes /\ NodeWritten' = NodeWritten
    BY <1>1, NodeStays
  <1>4. /\ S \in Nat \ {0} /\ mD \in Nat \ {0} /\ NumFields = 4 * mD + 1 /\ here \in Nat
        /\ Base \in Nat /\ Base + S = reads * S /\ valueSize \in Nat /\ keysSize \in Nat
    <2>1. S \in Nat \ {0} /\ mD \in Nat \ {0} /\ NumFields = 4 * mD + 1 /\ valueSize \in Nat /\ keysSize \in Nat
      BY <1>0, Sizes DEF PageTypeOK
    <2>2. Base \in Nat /\ Base + S = reads * S
      BY <1>0, <1>2, BaseFacts
    <2> QED
      BY <2>1, <2>2
  <1>5. /\ R \in Nat /\ pos \in Nat /\ rest = <<>> /\ ChildsRead(2 * mD) /\ KeysRead(2 * mD - 1)
        /\ Base + pos = here /\ R + here = Base + S
        /\ nodePage \in [childs : [0 .. 2 * mD - 1 -> Seq(Byte)], keys : [0 .. 2 * mD - 2 -> Seq(Byte)],
                         flag : Seq(Byte), size : Seq(Byte)]
    <2>1. Here = Base + pos
      BY <1>2 DEF Here, Base
    <2>2. R \in Nat /\ R + valueSize + keysSize = Base + S
      BY <1>0, <1>2, <1>4 DEF InFlag, PageTypeOK
    <2>3. R + here = Base + S
      BY <1>4, <2>2
    <2> QED
      BY <1>0, <1>2, <2>1, <2>2, <2>3 DEF InFlag, PageTypeOK
  <1> HIDE DEF Base, here
  <1>6. CASE stageReadSize < 1
    <2>1. at' = "fread" /\ stage' = stage /\ stageReadSize' = R /\ pos' = pos /\ nodePage' = nodePage
      BY <1>5, <1>6 DEF ReadFlag, Break
    <2>2. PageTypeOK'
      BY <1>0, <1>1, <1>3, <2>1 DEF PageTypeOK
    <2>3. WriteInv' /\ Buffered'
      BY <1>0, <1>1, <1>2, <2>1, ReaderFrame DEF PageInv
    <2>4. Here' = here
      <3>1. R = 0
        BY <1>5, <1>6
      <3>2. Base + S = here
        BY <1>4, <1>5, <3>1
      <3> QED
        BY <1>1, <1>4, <2>1, <3>2 DEF Here
    <2>5. InFlag'
      BY <1>1, <1>2, <1>3, <2>1, <2>4 DEF InFlag, ChildsRead, KeysRead, here
    <2>6. ReadInv'
      BY <1>1, <1>2, <1>3, <2>1, <2>5 DEF ReadInv
    <2> QED
      BY <2>2, <2>3, <2>6 DEF PageInv
  <1>7. CASE stageReadSize >= 1
    <2>1. /\ nodePage' = [nodePage EXCEPT !.flag = At(pos, 1)]
          /\ stageReadSize' = R - 1 /\ pos' = pos + 1
          /\ at' = "size" /\ stage' = "size"
      BY <1>5, <1>7 DEF ReadFlag, FallInto
    <2>2. pos + 1 <= S
      BY <1>4, <1>5, <1>7
    <2>3. At(pos, 1) = NodeWritten.flag
      <3> DEFINE f == 4 * mD - 1
      <3>1. f \in 0 .. NumFields - 1 /\ ~(f < 2 * mD) /\ ~(f < 4 * mD - 1)
        BY <1>4
      <3>2. Fields[f] = NodeWritten.flag
        BY <3>1 DEF Fields
      <3>3. Len(Fields[f]) = 1 /\ Offsets[f] = here
        BY <1>0, <3>1, OffsetsFollow DEF PageTypeOK, here
      <3>4. Packed(file, NumFields)
        BY <1>0, <1>2 DEF WriteInv
      <3> HIDE DEF f
      <3>5. At(pos, Len(Fields[f])) = Fields[f]
        BY <1>0, <1>2, <1>5, <2>2, <3>1, <3>3, <3>4, FieldAt
      <3> QED
        BY <3>2, <3>3, <3>5
    <2>4. NodeWritten.flag \in Seq(Byte)
      BY <1>0, NodeType DEF PageTypeOK
    <2>5. /\ nodePage' \in [childs : [0 .. 2 * mD - 1 -> Seq(Byte)], keys : [0 .. 2 * mD - 2 -> Seq(Byte)],
                            flag : Seq(Byte), size : Seq(Byte)]
          /\ nodePage'.childs = nodePage.childs /\ nodePage'.keys = nodePage.keys
          /\ nodePage'.flag = NodeWritten.flag
      BY <1>5, <2>1, <2>3, <2>4
    <2>6. PageTypeOK'
      <3>1. at' \in Stages \cup {"write", "fread", "done"} /\ stage' \in Stages
        BY <2>1 DEF Stages
      <3>2. stageReadSize' \in Nat /\ pos' \in Nat
        BY <1>5, <1>7, <2>1
      <3> QED
        BY <1>0, <1>1, <1>3, <2>5, <3>1, <3>2 DEF PageTypeOK
    <2>7. WriteInv' /\ Buffered'
      BY <1>0, <1>1, <1>2, <2>1, ReaderFrame DEF PageInv
    <2>8. InSize'
      <3>1. Here' = Base + (pos + 1)
        BY <1>1, <2>1 DEF Here, Base
      <3>2. Base + (pos + 1) = here + 1 /\ (R - 1) + here + 1 = reads * S
        <4>1. /\ Base \in Nat /\ pos \in Nat /\ here \in Nat /\ R \in Nat /\ S \in Nat
              /\ Base + pos = here /\ R + here = Base + S
          BY <1>4, <1>5
        <4> HIDE DEF R
        <4>2. Base + (pos + 1) = here + 1 /\ (R - 1) + here + 1 = Base + S
          BY <4>1
        <4> QED
          BY <1>4, <4>2
      <3>3. ChildsRead(2 * mD)' /\ KeysRead(2 * mD - 1)'
        BY <1>3, <1>5, <2>5 DEF ChildsRead, KeysRead
      <3>4. (R - 1) + here + 1 = (R - 1) + valueSize + keysSize + 1 /\ here + 1 = valueSize + keysSize + 1
        BY <1>4, <1>5 DEF here
      <3> QED
        BY <1>1, <1>3, <1>5, <2>1, <2>5, <3>1, <3>2, <3>3, <3>4 DEF InSize
    <2>9. ReadInv'
      BY <1>1, <1>2, <1>3, <2>1, <2>2, <2>8 DEF ReadInv
    <2> QED
      BY <2>6, <2>7, <2>9 DEF PageInv
  <1> QED
    BY <1>5, <1>6, <1>7

LEMMA ReadSizeStep ==
    ASSUME PageInv, ReadSize
    PROVE  PageInv'
  <1> DEFINE S == IO_BUFFER_SIZE
             R == stageReadSize
             here == valueSize + keysSize + 1
  <1>0. at = "size" /\ PageTypeOK /\ WriteInv /\ Buffered /\ ReadInv
    BY DEF PageInv, ReadSize
  <1>1. /\ metaData' = metaData /\ UNCHANGED writer /\ file' = file /\ field' = field /\ ioBuffer' = ioBuffer
        /\ idx' = idx /\ rest' = rest /\ reads' = reads
    BY DEF ReadSize, writer
  <1>2. stage = "size" /\ reads > 0 /\ at # "write" /\ at # "fread" /\ InSize /\ reads <= readTimes /\ pos <= S
    BY <1>0, InStage DEF Stages, ReadInv
  <1>3. /\ mD' = mD /\ NumFields' = NumFields /\ valueSize' = valueSize /\ keysSize' = keysSize
        /\ readTimes' = readTimes /\ NodeWritten' = NodeWritten
    BY <1>1, NodeStays
  <1>4. /\ S \in Nat \ {0} /\ mD \in Nat \ {0} /\ NumFields = 4 * mD + 1 /\ here \in Nat
        /\ Base \in Nat /\ Base + S = reads * S /\ valueSize \in Nat /\ keysSize \in Nat
        /\ (valueSize + keysSize + 2) % S # 0 /\ reads \in Nat
    <2>1. /\ S \in Nat \ {0} /\ mD \in Nat \ {0} /\ NumFields = 4 * mD + 1 /\ valueSize \in Nat /\ keysSize \in Nat
          /\ (valueSize + keysSize + 2) % S # 0 /\ reads \in Nat
      BY <1>0, Sizes DEF PageTypeOK
    <2>2. Base \in Nat /\ Base + S = reads * S
      BY <1>0, <1>2, BaseFacts
    <2>3. here \in Nat
      BY <2>1
    <2> QED
      BY <2>1, <2>2, <2>3
  <1>5. /\ R \in Nat /\ pos \in Nat /\ rest = <<>> /\ ChildsRead(2 * mD) /\ KeysRead(2 * mD - 1)
        /\ nodePage.flag = NodeWritten.flag
        /\ Base + pos = here /\ R + here = Base + S
        /\ nodePage \in [childs : [0 .. 2 * mD - 1 -> Seq(Byte)], keys : [0 .. 2 * mD - 2 -> Seq(Byte)],
                         flag : Seq(Byte), size : Seq(Byte)]
    <2>1. Here = Base + pos
      BY <1>2 DEF Here, Base
    <2>2. R \in Nat /\ R + valueSize + keysSize + 1 = Base + S
      BY <1>0, <1>2, <1>4 DEF InSize, PageTypeOK
    <2>3. R + here = Base + S
      BY <1>4, <2>2
    <2> QED
      BY <1>0, <1>2, <2>1, <2>2, <2>3 DEF InSize, PageTypeOK
  <1>6. CASE stageReadSize < 2
    <2>1. at' = "fread" /\ stage' = stage /\ stageReadSize' = R /\ pos' = pos /\ nodePage' = nodePage
      BY <1>5, <1>6 DEF ReadSize, Break
    <2>2. R # 1
      <3> SUFFICES ASSUME R = 1 PROVE FALSE
        OBVIOUS
      <3>1. valueSize + keysSize + 2 = reads * S
        <4> HIDE DEF Base
        <4>1. 1 + here = reads * S
          BY <1>4, <1>5
        <4>2. 1 + here = valueSize + keysSize + 2
          <5>1. valueSize \in Nat /\ keysSize \in Nat
            BY <1>4
          <5> QED
            BY <5>1
        <4> QED
          BY <4>1, <4>2
      <3>2. (reads * S) % S = 0
        BY <1>4, Multiple
      <3> QED
        BY <1>4, <3>1, <3>2
    <2> HIDE DEF Base, here
    <2>3. PageTypeOK'
      BY <1>0, <1>1, <1>3, <2>1 DEF PageTypeOK
    <2>4. WriteInv' /\ Buffered'
      BY <1>0, <1>1, <1>2, <2>1, ReaderFrame DEF PageInv
    <2>5. Here' = here
      <3>1. R = 0
        BY <1>5, <1>6, <2>2
      <3>2. Base + S = here
        BY <1>4, <1>5, <3>1
      <3> QED
        BY <1>1, <1>4, <2>1, <3>2 DEF Here
    <2>6. InSize'
      BY <1>1, <1>2, <1>3, <2>1, <2>5 DEF InSize, ChildsRead, KeysRead, here
    <2>7. ReadInv'
      BY <1>1, <1>2, <1>3, <2>1, <2>6 DEF ReadInv
    <2> QED
      BY <2>3, <2>4, <2>7 DEF PageInv
  <1> HIDE DEF Base, here
  <1>7. CASE stageReadSize >= 2
    <2>1. /\ nodePage' = [nodePage EXCEPT !.size = At(pos, 2)]
          /\ stageReadSize' = R - 2 /\ pos' = pos + 2
          /\ at' = "fread" /\ stage' = "none"
      BY <1>5, <1>7 DEF ReadSize
    <2>2. pos + 2 <= S
      BY <1>4, <1>5, <1>7
    <2>3. At(pos, 2) = NodeWritten.size
      <3> DEFINE f == 4 * mD
      <3>1. f \in 0 .. NumFields - 1 /\ ~(f < 2 * mD) /\ ~(f < 4 * mD - 1) /\ f # 4 * mD - 1
        BY <1>4
      <3>2. Fields[f] = NodeWritten.size
        BY <3>1 DEF Fields
      <3>3. Len(Fields[f]) = 2 /\ Offsets[f] = here
        BY <1>0, <3>1, OffsetsFollow DEF PageTypeOK, here
      <3>4. Packed(file, NumFields)
        BY <1>0, <1>2 DEF WriteInv
      <3> HIDE DEF f
      <3>5. At(pos, Len(Fields[f])) = Fields[f]
        BY <1>0, <1>2, <1>5, <2>2, <3>1, <3>3, <3>4, FieldAt
      <3> QED
        BY <3>2, <3>3, <3>5
    <2>4. NodeWritten.size \in Seq(Byte)
      BY <1>0, NodeType DEF PageTypeOK
    <2>5. /\ nodePage' \in [childs : [0 .. 2 * mD - 1 -> Seq(Byte)], keys : [0 .. 2 * mD - 2 -> Seq(Byte)],
                            flag : Seq(Byte), size : Seq(Byte)]
          /\ nodePage'.childs = nodePage.childs /\ nodePage'.keys = nodePage.keys
          /\ nodePage'.flag = nodePage.flag /\ nodePage'.size = NodeWritten.size
      BY <1>5, <2>1, <2>3, <2>4
    <2>6. PageTypeOK'
      <3>1. at' \in Stages \cup {"write", "fread", "done"} /\ stage' \in Stages
        BY <2>1 DEF Stages
      <3>2. stageReadSize' \in Nat /\ pos' \in Nat
        BY <1>5, <1>7, <2>1
      <3> QED
        BY <1>0, <1>1, <1>3, <2>5, <3>1, <3>2 DEF PageTypeOK
    <2>7. WriteInv' /\ Buffered'
      BY <1>0, <1>1, <1>2, <2>1, ReaderFrame DEF PageInv
    <2>8. AllRead'
      <3>1. ChildsRead(2 * mD)' /\ KeysRead(2 * mD - 1)'
        BY <1>3, <1>5, <2>5 DEF ChildsRead, KeysRead
      <3> QED
        BY <1>1, <1>3, <1>5, <2>1, <2>5, <3>1 DEF AllRead
    <2>9. ReadInv'
      BY <1>1, <1>2, <1>3, <2>1, <2>2, <2>8 DEF ReadInv
    <2> QED
      BY <2>6, <2>7, <2>9 DEF PageInv
  <1> QED
    BY <1>5, <1>6, <1>7

----------------------------------------------------------------------------
(* Theorems *)

LEMMA PageStart ==
    ASSUME PageInit
    PROVE  PageInv
  <1>1. /\ metaData \in Layout /\ file = <<>> /\ ioBuffer = <<>> /\ field = 0 /\ at = "write"
        /\ stage = "childs" /\ stageReadSize = 0 /\ idx = 0 /\ pos = 0 /\ rest = <<>> /\ reads = 0
        /\ nodePage = Unread
    BY DEF PageInit
  <1>2. /\ mD \in Nat \ {0} /\ NumFields = 4 * mD + 1 /\ IO_BUFFER_SIZE \in Nat \ {0}
        /\ ChildSize \in Nat /\ metaData.keySize \in Nat
    BY <1>1, Sizes
  <1>3. <<>> \in Seq(Byte) /\ Len(<<>>) = 0 /\ file \o ioBuffer = <<>>
    BY <1>1
  <1>4. /\ Junk(ChildSize) \in Seq(Byte) /\ Junk(metaData.keySize) \in Seq(Byte)
        /\ Junk(1) \in Seq(Byte) /\ Junk(2) \in Seq(Byte)
    <2>1. "junk" \in Kinds /\ 0 \in Nat /\ 1 \in Nat /\ 2 \in Nat
      BY DEF Kinds
    <2> QED
      BY <1>2, <2>1, BytesType DEF Junk
  <1>5. nodePage \in [childs : [0 .. 2 * mD - 1 -> Seq(Byte)], keys : [0 .. 2 * mD - 2 -> Seq(Byte)],
                      flag : Seq(Byte), size : Seq(Byte)]
    BY <1>1, <1>4 DEF Unread
  <1>6. PageTypeOK
    BY <1>1, <1>2, <1>3, <1>5 DEF PageTypeOK, Stages
  <1>7. Offsets[0] = 0
    BY <1>2 DEF Offsets
  <1>8. WriteInv
    <2>1. Packed(file \o ioBuffer, field)
      BY <1>1, <1>3, <1>7 DEF Packed
    <2>2. 0 % IO_BUFFER_SIZE = 0
      BY <1>2
    <2> QED
      BY <1>1, <1>2, <1>3, <2>1, <2>2 DEF WriteInv
  <1>9. Buffered /\ ReadInv
    BY <1>1 DEF Buffered, ReadInv
  <1> QED
    BY <1>6, <1>8, <1>9 DEF PageInv

\* Whatever is left alone stays as it is.
LEMMA PageStutter ==
    ASSUME PageInv, UNCHANGED pageVars
    PROVE  PageInv'
  <1>1. /\ metaData' = metaData /\ file' = file /\ field' = field /\ ioBuffer' = ioBuffer /\ at' = at
        /\ stage' = stage /\ stageReadSize' = stageReadSize /\ idx' = idx /\ pos' = pos /\ rest' = rest
        /\ reads' = reads /\ nodePage' = nodePage
    BY DEF pageVars, writer, locals
  <1>2. /\ mD' = mD /\ NumFields' = NumFields /\ valueSize' = valueSize /\ keysSize' = keysSize
        /\ readTimes' = readTimes /\ NodeWritten' = NodeWritten /\ Fields' = Fields /\ Offsets' = Offsets
    BY <1>1, NodeStays
  <1>3. PageTypeOK' /\ Buffered'
    BY <1>1, <1>2 DEF PageInv, PageTypeOK, Buffered
  <1>4. WriteInv'
    BY <1>1, <1>2 DEF PageInv, WriteInv, Packed
  <1>5. ReadInv'
    <2>1. Here' = Here
      BY <1>1 DEF Here
    <2>2. /\ InChilds => InChilds'
          /\ InFlag => InFlag'
          /\ InSize => InSize'
          /\ AllRead => AllRead'
      BY <1>1, <1>2, <2>1 DEF InChilds, InFlag, InSize, AllRead, ChildsRead, KeysRead
    <2>3. InKeys => InKeys'
      BY <1>1, <1>2, <2>1 DEF InKeys, ChildsRead, KeysRead
    <2> QED
      BY <1>1, <1>2, <2>2, <2>3 DEF PageInv, ReadInv
  <1> QED
    BY <1>3, <1>4, <1>5 DEF PageInv

\* Through all of writeNodePageToFile and getBNodeFromFile, the fields are on the file in
\* their places, the buffer is a part of the file, and what has been read is the node.
THEOREM PageInvariant == PageSpec => []PageInv
  <1>1. PageInit => PageInv
    BY PageStart
  <1>2. PageInv /\ [PageNext]_pageVars => PageInv'
    <2> SUFFICES ASSUME PageInv, [PageNext]_pageVars PROVE PageInv'
      OBVIOUS
    <2>1. CASE Put
      BY <2>1, PutStep
    <2>2. CASE Written
      BY <2>2, WrittenStep
    <2>3. CASE Fread
      BY <2>3, FreadStep
    <2>4. CASE NodeRead
      BY <2>4, NodeReadStep
    <2>5. CASE ReadChilds
      BY <2>5, ReadChildsStep
    <2>6. CASE CompleteKey
      BY <2>6, CompleteKeyStep
    <2>7. CASE ReadKeys
      BY <2>7, ReadKeysStep
    <2>8. CASE ReadFlag
      BY <2>8, ReadFlagStep
    <2>9. CASE ReadSize
      BY <2>9, ReadSizeStep
    <2>10. CASE Skip
      BY <2>10, SkipStep
    <2>11. CASE PageRest \/ UNCHANGED pageVars
      BY <2>11, PageStutter DEF PageRest
    <2> QED
      BY <2>1, <2>2, <2>3, <2>4, <2>5, <2>6, <2>7, <2>8, <2>9, <2>10, <2>11 DEF PageNext
  <1> QED
    BY <1>1, <1>2, PTL DEF PageSpec

\* The node that getBNodeFromFile returns is the one that writeNodePageToFile was given,
\* and what it carries over from one buffer to the next is never more than a key.
THEOREM NodeIsReadBack == PageSpec => []NodeRoundTrip
  <1>1. PageInv => NodeRoundTrip
    <2> SUFFICES ASSUME PageInv PROVE NodeRoundTrip
      OBVIOUS
    <2>1. PageTypeOK /\ WriteInv /\ ReadInv
      BY DEF PageInv
    <2>2. metaData.keySize \in Nat \ {0} /\ mD \in Nat \ {0}
      BY <2>1, Sizes DEF PageTypeOK
    <2>3. RestFits
      <3>1. rest = <<>> \/ Len(rest) <= metaData.keySize
        BY <2>1 DEF PageTypeOK, Stages, WriteInv, ReadInv, InChilds, InKeys, InFlag, InSize, AllRead
      <3> QED
        BY <2>2, <3>1 DEF RestFits
    <2>4. RoundTrip
      <3> SUFFICES ASSUME at = "done" PROVE nodePage = NodeWritten
        BY DEF RoundTrip
      <3>1. AllRead
        BY <2>1 DEF PageTypeOK, Stages, ReadInv, InChilds, InKeys, InFlag, InSize
      <3>2. /\ nodePage \in [childs : [0 .. 2 * mD - 1 -> Seq(Byte)], keys : [0 .. 2 * mD - 2 -> Seq(Byte)],
                             flag : Seq(Byte), size : Seq(Byte)]
            /\ NodeWritten.childs \in [0 .. 2 * mD - 1 -> Seq(Byte)]
            /\ NodeWritten.keys \in [0 .. 2 * mD - 2 -> Seq(Byte)]
        BY <2>1, NodeType DEF PageTypeOK
      <3>3. nodePage.childs = NodeWritten.childs
        <4> DEFINE c == nodePage.childs
                   d == NodeWritten.childs
                   I == 0 .. 2 * mD - 1
        <4>1. c \in [I -> Seq(Byte)] /\ d \in [I -> Seq(Byte)] /\ \A i \in I : c[i] = d[i]
          BY <3>1, <3>2 DEF AllRead, ChildsRead
        <4> HIDE DEF c, d, I
        <4>2. c = d
          BY <4>1
        <4> QED
          BY <4>2 DEF c, d
      <3>4. nodePage.keys = NodeWritten.keys
        <4>1. (2 * mD - 1) - 1 = 2 * mD - 2
          BY <2>2
        <4> DEFINE c == nodePage.keys
                   d == NodeWritten.keys
                   I == 0 .. 2 * mD - 2
        <4>2. c \in [I -> Seq(Byte)] /\ d \in [I -> Seq(Byte)] /\ \A i \in I : c[i] = d[i]
          BY <3>1, <3>2, <4>1 DEF AllRead, KeysRead
        <4> HIDE DEF c, d, I
        <4>3. c = d
          BY <4>2
        <4> QED
          BY <4>3 DEF c, d
      <3>5. nodePage.flag = NodeWritten.flag /\ nodePage.size = NodeWritten.size
        BY <3>1 DEF AllRead
      <3>6. NodeWritten = [childs |-> NodeWritten.childs, keys |-> NodeWritten.keys,
                           flag |-> NodeWritten.flag, size |-> NodeWritten.size]
        BY DEF NodeWritten
      <3>7. nodePage = [childs |-> nodePage.childs, keys |-> nodePage.keys,
                        flag |-> nodePage.flag, size |-> nodePage.size]
        BY <3>2
      <3> QED
        BY <3>3, <3>4, <3>5, <3>6, <3>7
    <2> QED
      BY <2>3, <2>4 DEF NodeRoundTrip
  <1> QED
    BY <1>1, PageInvariant, PTL
=============================================================================
