------------------------------ MODULE FreeList ------------------------------
(***************************************************************************)
(* A free list of the B+ tree on its file (DelNodeList.cpp), and a process *)
(* that may die at any point.  The file holds the number of entries and    *)
(* then the entries; the list in memory is read from it when the store     *)
(* opens.  Writes go through one stdio stream, whose buffer holds the last *)
(* fwrite until the next fseek or the fclose: what is in the buffer dies   *)
(* with the process.                                                       *)
(***************************************************************************)
EXTENDS Integers, Sequences, SequencesExt

CONSTANTS Entry,     \* offsets of pages or of values
          Garbage,   \* what a read past the end of the file leaves in res
          MaxEntries \* bound on the length of the list

ASSUME MaxEntriesAssumption == MaxEntries \in Nat

Data == Entry \cup {Garbage}

VARIABLES dList,   \* the list in memory
          fileSize,\* the number of entries on file
          cell,    \* the entries on file, as far as they were ever written
          buffer,  \* the write that is still in the stream: to the size, to a cell, or none
          step,    \* inside push: after its first write
          arg      \* its argument

listVars == <<dList, fileSize, cell, buffer, step, arg>>

Empty == [to |-> "none", at |-> 0, data |-> Garbage]
SetSize(n) == [to |-> "size", at |-> n, data |-> Garbage]
SetValue(v, i) == [to |-> "cell", at |-> i, data |-> v]

\* A new file.
ListInit == /\ dList = <<>>
            /\ fileSize = 0
            /\ cell = [i \in 1 .. MaxEntries |-> Garbage]
            /\ buffer = Empty
            /\ step = "rest"
            /\ arg = Garbage

\* fseek, or fclose: the buffer reaches the file.
sizeFlushed == IF buffer.to = "size" THEN buffer.at ELSE fileSize
cellFlushed == IF buffer.to = "cell" THEN [cell EXCEPT ![buffer.at] = buffer.data] ELSE cell
Flush == fileSize' = sizeFlushed /\ cell' = cellFlushed

\* Fault: push writes the size it had.
PushNoSize(v) ==
    /\ step = "rest"
    /\ Len(dList) < MaxEntries
    /\ Flush
    /\ buffer' = SetSize(Len(dList))
    /\ arg' = v
    /\ step' = "push"
    /\ UNCHANGED dList

\* push: setSize ...
PushSize(v) ==
    /\ step = "rest"
    /\ Len(dList) < MaxEntries
    /\ Flush
    /\ buffer' = SetSize(Len(dList) + 1)
    /\ arg' = v
    /\ step' = "push"
    /\ UNCHANGED dList

\* Fault: the entry goes over the one before it.
PushValueLow ==
    /\ step = "push"
    /\ Flush
    /\ buffer' = SetValue(arg, IF dList = <<>> THEN 1 ELSE Len(dList))
    /\ dList' = Append(dList, arg)
    /\ step' = "rest"
    /\ arg' = Garbage

\* ... then setValue and push_back.
PushValue ==
    /\ step = "push"
    /\ Flush
    /\ buffer' = SetValue(arg, Len(dList) + 1)
    /\ dList' = Append(dList, arg)
    /\ step' = "rest"
    /\ arg' = Garbage

\* pop; of an empty list it answers false and changes nothing.
Pop ==
    /\ step = "rest"
    /\ dList # <<>>
    /\ Flush
    /\ buffer' = SetSize(Len(dList) - 1)
    /\ dList' = Front(dList)
    /\ UNCHANGED <<step, arg>>

\* What the constructor reads.
ListOnFile(n, c) == [i \in 1 .. n |-> c[i]]

\* The destructor, and the constructor of the next run.
Reopen ==
    /\ step = "rest"
    /\ Flush
    /\ dList' = ListOnFile(sizeFlushed, cellFlushed)
    /\ buffer' = Empty
    /\ UNCHANGED <<step, arg>>

\* The process dies, and another one opens the file.
Crash ==
    /\ dList' = ListOnFile(fileSize, cell)
    /\ buffer' = Empty
    /\ step' = "rest"
    /\ arg' = Garbage
    /\ UNCHANGED <<fileSize, cell>>

ListNext == (\E v \in Entry : PushSize(v)) \/ PushValue \/ Pop \/ Reopen \/ Crash

ListSpec == ListInit /\ [][ListNext]_listVars

----------------------------------------------------------------------------
(* Properties *)

ListTypeOK ==
    /\ dList \in Seq(Data)
    /\ fileSize \in 0 .. MaxEntries
    /\ cell \in [1 .. MaxEntries -> Data]
    /\ buffer \in [to : {"none", "size", "cell"}, at : 0 .. MaxEntries, data : Data]
    /\ step \in {"rest", "push"}
    /\ arg \in Data

\* A process that dies at any point loses no entry: the file has every entry of
\* the list in memory, in its order, but for the value of the last push; and beyond
\* them at most one more, from a pop that has not reached the file.
CrashLosesLittle ==
    /\ fileSize \in Len(dList) .. Len(dList) + 1
    /\ \A i \in 1 .. Len(dList) - 1 : cell[i] = dList[i]
    /\ buffer.to # "cell" => \A i \in 1 .. Len(dList) : cell[i] = dList[i]

\* A clean end and a restart leave the list as it was.
CloseKeepsList == [][Reopen => dList' = dList]_listVars

\* What is in the buffer, at each point: what the two rest on.
Behind ==
    /\ Len(dList) <= MaxEntries
    /\ step = "push" => Len(dList) < MaxEntries /\ buffer = SetSize(Len(dList) + 1) /\ fileSize = Len(dList)
    /\ step = "rest" /\ buffer.to = "size" => buffer.at = Len(dList) /\ fileSize = Len(dList) + 1
    /\ buffer.to = "cell" => dList # <<>> /\ buffer.at = Len(dList) /\ buffer.data = dList[Len(dList)]
    /\ buffer.to \in {"none", "cell"} => fileSize = Len(dList)
=============================================================================
