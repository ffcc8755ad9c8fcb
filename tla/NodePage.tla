------------------------------ MODULE NodePage ------------------------------
(***************************************************************************)
(* How a node of the B+ tree is put on its page and read back:             *)
(* writeNodePageToFile packs childs, keys, flag and size through a buffer  *)
(* of IO_BUFFER_SIZE bytes, and getBNodeFromFile reads the page buffer by  *)
(* buffer and carries the start of a key that straddles two buffers over.  *)
(* BPlusNode reads the node that was written; this module is about whether *)
(* that is so on pages of more than one buffer.  A byte is the field it    *)
(* belongs to, the field's index and its place in the field.               *)
(***************************************************************************)
EXTENDS Integers, Sequences, SequencesExt, FiniteSetsExt

CONSTANTS IO_BUFFER_SIZE,   \* 4096
          ChildSize,        \* sizeof(uint64_t), which divides it
          Layout            \* [maxDegree, keySize, pageSize] to check

\* The bytes of a node: childs, keys, flag and size.
NodeSize(l) == 2 * l.maxDegree * ChildSize + (2 * l.maxDegree - 1) * l.keySize + 3

\* Nodes that their page has room for, whose childs end within two buffers and whose size
\* does not straddle two of them; on others the functions below do not agree.
ASSUME BufferAssumption ==
    /\ IO_BUFFER_SIZE \in Nat \ {0} /\ ChildSize \in Nat \ {0}
    /\ IO_BUFFER_SIZE % ChildSize = 0
ASSUME LayoutAssumption ==
    \A l \in Layout : /\ l.maxDegree \in Nat \ {0} /\ l.keySize \in Nat \ {0} /\ l.pageSize \in Nat
                      /\ l.keySize <= IO_BUFFER_SIZE
                      /\ NodeSize(l) <= l.pageSize
                      /\ 2 * l.maxDegree * ChildSize <= 2 * IO_BUFFER_SIZE
                      /\ (NodeSize(l) - 1) % IO_BUFFER_SIZE # 0

VARIABLES metaData,                       \* the sizes
          file, ioBuffer, field,            \* written so far, and the field to write next
          at,                             \* "write", "fread", a stage of the reader, "done"
          stage, stageReadSize, idx, pos, \* locals of getBNodeFromFile
          rest,                           \* tmp, as far as remainingSize says
          reads,                          \* buffers read
          nodePage                        \* what has been read

writer == <<file, field>>
locals == <<stage, stageReadSize, idx, pos, rest, reads>>
pageVars == <<metaData, ioBuffer, at, writer, locals, nodePage>>

mD == metaData.maxDegree
Bytes(f, i, w) == [b \in 1 .. w |-> <<f, i, b>>]
Junk(w) == Bytes("junk", 0, w)   \* whatever is in memory

valueSize == 2 * mD * ChildSize
keysSize == (2 * mD - 1) * metaData.keySize

NodeWritten == [childs |-> [i \in 0 .. 2 * mD - 1 |-> Bytes("child", i, ChildSize)],
                keys |-> [i \in 0 .. 2 * mD - 2 |-> Bytes("key", i, metaData.keySize)],
                flag |-> Bytes("flag", 0, 1),
                size |-> Bytes("size", 0, 2)]
Unread == [childs |-> [i \in 0 .. 2 * mD - 1 |-> Junk(ChildSize)],
            keys |-> [i \in 0 .. 2 * mD - 2 |-> Junk(metaData.keySize)],
            flag |-> Junk(1),
            size |-> Junk(2)]

PageInit ==
    /\ metaData \in Layout
    /\ file = <<>> /\ ioBuffer = <<>> /\ field = 0
    /\ at = "write"
    /\ stage = "childs" /\ stageReadSize = 0 /\ idx = 0 /\ pos = 0 /\ rest = <<>> /\ reads = 0
    /\ nodePage = Unread

----------------------------------------------------------------------------
(* writeNodePageToFile *)

\* The childs, the keys, the flag and the size, in that order.
NumFields == 4 * mD + 1
keyOf(f) == f - 2 * mD
FieldBytes(f) ==
    CASE f < 2 * mD -> NodeWritten.childs[f]
      [] f \in 2 * mD .. NumFields - 3 -> NodeWritten.keys[keyOf(f)]
      [] f = NumFields - 2 -> NodeWritten.flag
      [] f = NumFields - 1 -> NodeWritten.size

\* What follows the first n bytes of a field in the next buffer.  The key's address is
\* moved by n bytes, those of a child and of size by n elements: past the field.
Spilled(f, n) ==
    LET w == Len(FieldBytes(f)) - n
    IN  IF f \in 2 * mD .. NumFields - 3 THEN SubSeq(FieldBytes(f), n + 1, n + w) ELSE Junk(w)

Put ==
    /\ at = "write" /\ field < NumFields
    /\ LET bytes == FieldBytes(field)
           room == IO_BUFFER_SIZE - Len(ioBuffer)
       IN  \/ /\ Len(bytes) > room
              /\ file' = file \o ioBuffer \o SubSeq(bytes, 1, room)
              /\ ioBuffer' = Spilled(field, room)
           \/ /\ Len(bytes) < room
              /\ ioBuffer' = ioBuffer \o bytes
              /\ UNCHANGED file
           \/ /\ Len(bytes) = room
              /\ file' = file \o ioBuffer \o bytes
              /\ ioBuffer' = <<>>
    /\ field' = field + 1
    /\ UNCHANGED <<metaData, at, locals, nodePage>>

Written ==
    /\ at = "write" /\ field = NumFields
    /\ file' = file \o ioBuffer
    /\ at' = "fread"
    /\ UNCHANGED <<metaData, ioBuffer, field, locals, nodePage>>

----------------------------------------------------------------------------
(* getBNodeFromFile *)

readTimes == (metaData.pageSize + IO_BUFFER_SIZE - 1) \div IO_BUFFER_SIZE

\* The next buffer of the file, whatever is behind the node included; the switch then
\* goes on in the stage it was left in.
Fread ==
    /\ at = "fread" /\ reads < readTimes
    /\ ioBuffer' = SubSeq(file \o Junk(metaData.pageSize + IO_BUFFER_SIZE),
                        reads * IO_BUFFER_SIZE + 1, (reads + 1) * IO_BUFFER_SIZE)
    /\ reads' = reads + 1
    /\ stageReadSize' = stageReadSize + IO_BUFFER_SIZE
    /\ pos' = 0
    /\ at' = stage
    /\ UNCHANGED <<metaData, writer, stage, idx, rest, nodePage>>

NodeRead ==
    /\ at = "fread" /\ reads = readTimes
    /\ at' = "done"
    /\ UNCHANGED <<metaData, writer, ioBuffer, locals, nodePage>>

\* w bytes of the buffer, and what is behind it in memory.
At(p, w) == SubSeq(ioBuffer \o Junk(p + w), p + 1, p + w)

\* items with those from idx up to n read from the buffer, one after the other.
TakenFrom(items, n, w) == [i \in DOMAIN items |-> IF i \in idx .. n - 1 THEN At(pos + (i - idx) * w, w) ELSE items[i]]

\* Leaves the switch until the next buffer.
Break == at' = "fread" /\ UNCHANGED stage
\* Falls through to the next case.
FallInto(s) == at' = s /\ stage' = s

\* Case CHILDS; remainingSize is 0 there, as nothing before it sets it.
ReadChilds ==
    /\ at = "childs"
    /\ \/ /\ stageReadSize < valueSize
          /\ LET n == Max({idx, IO_BUFFER_SIZE \div ChildSize})
             IN  /\ nodePage' = [nodePage EXCEPT !.childs = TakenFrom(@, n, ChildSize)]
                 /\ idx' = n
                 /\ pos' = pos + (n - idx) * ChildSize
          /\ Break
          /\ UNCHANGED stageReadSize
       \/ /\ stageReadSize >= valueSize
          /\ nodePage' = [nodePage EXCEPT !.childs = TakenFrom(@, 2 * mD, ChildSize)]
          /\ idx' = 0
          /\ pos' = pos + (2 * mD - idx) * ChildSize
          /\ stageReadSize' = stageReadSize - valueSize
          /\ FallInto("keys")
    /\ UNCHANGED <<metaData, writer, ioBuffer, rest, reads>>

\* Fault: the part of the key that was in the buffer is read as the next key too.
CompleteAndStay ==
    /\ at = "keys" /\ rest # <<>>
    /\ nodePage' = [nodePage EXCEPT !.keys[idx] = rest \o At(0, metaData.keySize - Len(rest))]
    /\ idx' = idx + 1
    /\ rest' = <<>>
    /\ UNCHANGED <<metaData, writer, ioBuffer, at, stage, stageReadSize, pos, reads>>

\* Case KEYS, the key that was cut off at the end of the buffer before.
CompleteKey ==
    /\ at = "keys" /\ rest # <<>>
    /\ nodePage' = [nodePage EXCEPT !.keys[idx] = rest \o At(0, metaData.keySize - Len(rest))]
    /\ idx' = idx + 1
    /\ pos' = pos + metaData.keySize - Len(rest)
    /\ rest' = <<>>
    /\ UNCHANGED <<metaData, writer, ioBuffer, at, stage, stageReadSize, reads>>

\* The first key that does not end before the buffer does.
WholeKeys == Max({idx, (stageReadSize - 1) \div metaData.keySize})

ReadKeys ==
    /\ at = "keys" /\ rest = <<>>
    /\ \/ /\ stageReadSize < keysSize
          /\ nodePage' = [nodePage EXCEPT !.keys = TakenFrom(@, WholeKeys, metaData.keySize)]
          /\ idx' = WholeKeys
          /\ pos' = pos + (WholeKeys - idx) * metaData.keySize
          /\ rest' = SubSeq(ioBuffer, pos' + 1, IO_BUFFER_SIZE)
          /\ Break
          /\ UNCHANGED stageReadSize
       \/ /\ stageReadSize >= keysSize
          /\ nodePage' = [nodePage EXCEPT !.keys = TakenFrom(@, 2 * mD - 1, metaData.keySize)]
          /\ idx' = 2 * mD - 1
          /\ pos' = pos + (2 * mD - 1 - idx) * metaData.keySize
          /\ stageReadSize' = stageReadSize - keysSize
          /\ FallInto("flag")
          /\ UNCHANGED rest
    /\ UNCHANGED <<metaData, writer, ioBuffer, reads>>

ReadFlag ==
    /\ at = "flag"
    /\ \/ /\ stageReadSize < 1
          /\ Break
          /\ UNCHANGED <<stageReadSize, pos, nodePage>>
       \/ /\ stageReadSize >= 1
          /\ nodePage' = [nodePage EXCEPT !.flag = At(pos, 1)]
          /\ stageReadSize' = stageReadSize - 1
          /\ pos' = pos + 1
          /\ FallInto("size")
    /\ UNCHANGED <<metaData, writer, ioBuffer, idx, rest, reads>>

ReadSize ==
    /\ at = "size"
    /\ \/ /\ stageReadSize < 2
          /\ Break
          /\ UNCHANGED <<stageReadSize, pos, nodePage>>
       \/ /\ stageReadSize >= 2
          /\ nodePage' = [nodePage EXCEPT !.size = At(pos, 2)]
          /\ stageReadSize' = stageReadSize - 2
          /\ pos' = pos + 2
          /\ at' = "fread" /\ stage' = "none"
    /\ UNCHANGED <<metaData, writer, ioBuffer, idx, rest, reads>>

\* All is read: the remaining buffers of the page pass by.
Skip ==
    /\ at = "none"
    /\ at' = "fread"
    /\ UNCHANGED <<metaData, writer, ioBuffer, locals, nodePage>>

PageRest == at = "done" /\ UNCHANGED pageVars

PageNext == Put \/ Written \/ Fread \/ NodeRead \/ ReadChilds \/ CompleteKey \/ ReadKeys \/ ReadFlag \/ ReadSize \/ Skip \/ PageRest

PageSpec == PageInit /\ [][PageNext]_pageVars

----------------------------------------------------------------------------
(* Properties *)

\* What is read from a page is what was written to it, wherever the ends of the buffers
\* cut the childs and the keys.
RoundTrip == at = "done" => nodePage = NodeWritten

\* What is carried over to the next buffer is the start of one key, so that the loop
\* over whole keys in tmp does nothing and tmp is not overrun.
RestFits == Len(rest) <= metaData.keySize
NodeRoundTrip == RoundTrip /\ RestFits
=============================================================================
