----------------------------- MODULE BPlusStore -----------------------------
(***************************************************************************)
(* The B+ tree store under concurrent requests.  Every gRPC request calls  *)
(* the store on a thread of its own.  BPlusTreeStore.cpp takes a           *)
(* shared_mutex, shared for GET and EXIST and exclusive for SET and DEL.   *)
(* Below it, every read or write of a page or value takes a FILE* from a   *)
(* stack of handles (getpFile), seeks, reads or writes, and puts the       *)
(* handle back (returnpFile); getpFile waits on a condition variable while *)
(* the stack is empty.  The handles are stdio streams on the same file,    *)
(* each with a buffer of its own.                                          *)
(*                                                                         *)
(* What the tree does between two file calls is left out (BPlusTree models *)
(* it): a request is the sequence of cells it reads and writes.            *)
(***************************************************************************)
EXTENDS Integers, Sequences, SequencesExt, FiniteSets

CONSTANTS Thread,   \* threads that serve requests
          Handle,   \* the FILE* opened by MetaData, NO_PFILES of them
          MaxOps,   \* bound on the requests a thread serves
          NoThread, NoHandle

ASSUME MaxOpsAssumption == MaxOps \in Nat
ASSUME FiniteAssumption == IsFiniteSet(Thread) /\ IsFiniteSet(Handle)
ASSUME NoThreadAssumption == NoThread \notin Thread
ASSUME NoHandleAssumption == NoHandle \notin Handle

\* The root's page, a leaf's page and a value slot: what one key's requests read
\* and write.
Cell == {"root", "leaf", "value"}
Read(c) == [write |-> FALSE, cell |-> c]
Write(c) == [write |-> TRUE, cell |-> c]

\* The file calls of a request on a tree whose root (in memory) is the father of
\* the leaf; UPDATE is a SET of a key that exists.  Splits and merges only add
\* calls of the same kinds, under the same lock.
Op == {"GET", "EXIST", "SET", "UPDATE", "DEL"}
Calls(o) == CASE o = "GET"    -> <<Read("leaf"), Read("value")>>
              [] o = "EXIST"  -> <<Read("leaf")>>
              [] o = "SET"    -> <<Read("leaf"), Write("value"), Write("leaf")>>
              [] o = "UPDATE" -> <<Read("leaf"), Write("value")>>
              [] o = "DEL"    -> <<Read("leaf"), Write("leaf"), Write("root")>>
Shared(o) == o \in {"GET", "EXIST"}

PC == {"idle", "lock", "get", "wait", "seek", "io", "return", "notify", "unlock"}

VARIABLES pc,       \* where a thread is
          op,       \* the request it serves
          call,     \* the index of the file call in Calls(op)
          left,     \* how many requests it may still serve
          readers,  \* threads that hold mutex_ shared
          writer,   \* the thread that holds it exclusively
          pool,     \* MetaData::files, the top of the stack last
          held,     \* the handle a thread has taken
          file,     \* the file: the version of every cell
          buffer,   \* the stream's buffer: a cell, its version, not yet written?
          result,   \* the version the last read of a thread returned
          truth     \* the version last written to a cell by any request

lockVars == <<readers, writer>>
poolVars == <<pool, held>>
dataVars == <<file, buffer, result, truth>>
vars == <<pc, op, call, left, lockVars, poolVars, dataVars>>

Init ==
    /\ pc = [t \in Thread |-> "idle"]
    /\ op = [t \in Thread |-> "GET"]
    /\ call = [t \in Thread |-> 1]
    /\ left \in [Thread -> 0 .. MaxOps]
    /\ readers = {}
    /\ writer = NoThread
    /\ pool \in {s \in [1 .. Cardinality(Handle) -> Handle] :
                   IsInjective(s) /\ Range(s) = Handle}
    /\ held = [t \in Thread |-> NoHandle]
    /\ file = [c \in Cell |-> 0]
    /\ buffer = [h \in Handle |-> [cell |-> "none", version |-> 0, dirty |-> FALSE]]
    /\ result = [t \in Thread |-> 0]
    /\ truth = [c \in Cell |-> 0]

Goto(t, l) == pc' = [pc EXCEPT ![t] = l]
Current(t) == Calls(op[t])[call[t]]

\* A request arrives and calls the store.
Start(t, o) ==
    /\ pc[t] = "idle"
    /\ left[t] > 0
    /\ left' = [left EXCEPT ![t] = @ - 1]
    /\ op' = [op EXCEPT ![t] = o]
    /\ call' = [call EXCEPT ![t] = 1]
    /\ Goto(t, "lock")
    /\ UNCHANGED <<lockVars, poolVars, dataVars>>

LockShared(t) ==
    /\ pc[t] = "lock"
    /\ Shared(op[t])
    /\ writer = NoThread
    /\ readers' = readers \cup {t}
    /\ Goto(t, "get")
    /\ UNCHANGED <<op, call, left, writer, poolVars, dataVars>>

\* Fault: a writer enters among readers.
LockUniqueAnyway(t) ==
    /\ pc[t] = "lock"
    /\ ~Shared(op[t])
    /\ writer = NoThread
    /\ writer' = t
    /\ Goto(t, "get")
    /\ UNCHANGED <<op, call, left, readers, poolVars, dataVars>>

LockUnique(t) ==
    /\ pc[t] = "lock"
    /\ ~Shared(op[t])
    /\ writer = NoThread
    /\ readers = {}
    /\ writer' = t
    /\ Goto(t, "get")
    /\ UNCHANGED <<op, call, left, readers, poolVars, dataVars>>

\* Fault: top without pop.
GetTop(t) ==
    /\ pc[t] = "get"
    /\ pool # <<>>
    /\ held' = [held EXCEPT ![t] = Last(pool)]
    /\ Goto(t, "seek")
    /\ UNCHANGED <<op, call, left, lockVars, pool, dataVars>>

\* getpFile under mFiles: take the top of the stack, or wait.
GetHandle(t) ==
    /\ pc[t] = "get"
    /\ pool # <<>>
    /\ held' = [held EXCEPT ![t] = Last(pool)]
    /\ pool' = Front(pool)
    /\ Goto(t, "seek")
    /\ UNCHANGED <<op, call, left, lockVars, dataVars>>

Wait(t) ==
    /\ pc[t] = "get"
    /\ pool = <<>>
    /\ Goto(t, "wait")
    /\ UNCHANGED <<op, call, left, lockVars, poolVars, dataVars>>

\* cv.wait may return without a notification; the loop tests the stack again.
SpuriousWakeup(t) ==
    /\ pc[t] = "wait"
    /\ Goto(t, "get")
    /\ UNCHANGED <<op, call, left, lockVars, poolVars, dataVars>>

\* fseek writes what the stream has not written yet; the buffer keeps its cell.
Seek(t) ==
    /\ pc[t] = "seek"
    /\ LET b == buffer[held[t]]
       IN  /\ file' = IF b.dirty THEN [file EXCEPT ![b.cell] = b.version] ELSE file
           /\ buffer' = [buffer EXCEPT ![held[t]] = 
                        [cell |-> b.cell, version |-> b.version, dirty |-> FALSE]]
    /\ Goto(t, "io")
    /\ UNCHANGED <<op, call, left, lockVars, poolVars, result, truth>>

\* fread serves a cell from the stream's buffer if it is there, and else fills
\* the buffer from the file.
Fread(t) ==
    /\ pc[t] = "io"
    /\ ~Current(t).write
    /\ LET c == Current(t).cell
           b == buffer[held[t]]
           v == IF b.cell = c THEN b.version ELSE file[c]
       IN  /\ result' = [result EXCEPT ![t] = v]
           /\ buffer' = [buffer EXCEPT ![held[t]] = [cell |-> c, version |-> v, dirty |-> FALSE]]
    /\ Goto(t, "return")
    /\ UNCHANGED <<op, call, left, lockVars, poolVars, file, truth>>

\* fwrite leaves the new version in the buffer, or writes it through when it
\* does not fit there.
Fwrite(t) ==
    /\ pc[t] = "io"
    /\ Current(t).write
    /\ LET c == Current(t).cell
           v == truth[c] + 1
       IN  /\ truth' = [truth EXCEPT ![c] = v]
           /\ \E through \in BOOLEAN :
                /\ buffer' = [buffer EXCEPT ![held[t]] =
                                [cell |-> c, version |-> v, dirty |-> ~through]]
                /\ file' = IF through THEN [file EXCEPT ![c] = v] ELSE file
    /\ Goto(t, "return")
    /\ UNCHANGED <<op, call, left, lockVars, poolVars, result>>

\* Faults: the handle is never put back; it goes to the bottom (a queue).
KeepHandle(t) ==
    /\ pc[t] = "return"
    /\ held' = [held EXCEPT ![t] = NoHandle]
    /\ Goto(t, "notify")
    /\ UNCHANGED <<op, call, left, lockVars, pool, dataVars>>
ReturnToBottom(t) ==
    /\ pc[t] = "return"
    /\ pool' = <<held[t]>> \o pool
    /\ held' = [held EXCEPT ![t] = NoHandle]
    /\ Goto(t, "notify")
    /\ UNCHANGED <<op, call, left, lockVars, dataVars>>

\* returnpFile pushes the handle under mFiles and notifies after unlocking.
ReturnHandle(t) ==
    /\ pc[t] = "return"
    /\ pool' = Append(pool, held[t])
    /\ held' = [held EXCEPT ![t] = NoHandle]
    /\ Goto(t, "notify")
    /\ UNCHANGED <<op, call, left, lockVars, dataVars>>

Waiting == {t \in Thread : pc[t] = "wait"}

\* The call after this one, or the end of the request.
Resume(t) == IF call[t] < Len(Calls(op[t])) THEN "get" ELSE "unlock"

\* Fault: nobody is notified.
NotifyNone(t) ==
    /\ pc[t] = "notify"
    /\ call' = [call EXCEPT ![t] = IF Resume(t) = "get" THEN @ + 1 ELSE @]
    /\ Goto(t, Resume(t))
    /\ UNCHANGED <<op, left, lockVars, poolVars, dataVars>>

NotifyOne(t) ==
    /\ pc[t] = "notify"
    /\ call' = [call EXCEPT ![t] = IF Resume(t) = "get" THEN @ + 1 ELSE @]
    /\ IF Waiting = {} THEN Goto(t, Resume(t))
       ELSE \E w \in Waiting : pc' = [pc EXCEPT ![t] = Resume(t), ![w] = "get"]
    /\ UNCHANGED <<op, left, lockVars, poolVars, dataVars>>

\* The lock's destructor; the request is answered.
Unlock(t) ==
    /\ pc[t] = "unlock"
    /\ IF Shared(op[t])
       THEN readers' = readers \ {t} /\ UNCHANGED writer
       ELSE writer' = NoThread /\ UNCHANGED readers
    /\ Goto(t, "idle")
    /\ UNCHANGED <<op, call, left, poolVars, dataVars>>

\* What a thread does once a request has arrived.
Serve(t) == \/ LockShared(t) \/ LockUnique(t)
            \/ GetHandle(t) \/ Wait(t)
            \/ Seek(t) \/ Fread(t) \/ Fwrite(t)
            \/ ReturnHandle(t) \/ NotifyOne(t) \/ Unlock(t)

\* The store rests when every request has been answered.
AllAnswered == \A t \in Thread : pc[t] = "idle" /\ left[t] = 0
Rest == AllAnswered /\ UNCHANGED vars

Next == \/ \E t \in Thread : Serve(t) \/ SpuriousWakeup(t) \/ \E o \in Op : Start(t, o)
        \/ Rest

Spec == Init /\ [][Next]_vars
\* The operating system runs every thread that can run.
Fairness == \A t \in Thread : WF_vars(Serve(t))
FairSpec == Spec /\ Fairness

----------------------------------------------------------------------------
(* Properties *)

TypeOK ==
    /\ pc \in [Thread -> PC]
    /\ op \in [Thread -> Op]
    /\ call \in [Thread -> Nat]
    /\ \A t \in Thread : call[t] \in DOMAIN Calls(op[t])
    /\ left \in [Thread -> Nat]
    /\ readers \subseteq Thread
    /\ writer \in Thread \cup {NoThread}
    /\ pool \in Seq(Handle)
    /\ held \in [Thread -> Handle \cup {NoHandle}]
    /\ file \in [Cell -> Nat]
    /\ truth \in [Cell -> Nat]
    /\ result \in [Thread -> Nat]
    /\ buffer \in [Handle -> [cell : Cell \cup {"none"}, version : Nat, dirty : BOOLEAN]]

Inside(t) == pc[t] \notin {"idle", "lock"}   \* between lock and unlock

\* While a SET or DEL is inside the store nobody else is: the nodes it has read
\* and changes in memory are not read or changed by anybody else until it has
\* flushed them.
WriterAlone ==
    \A t, u \in Thread : t # u /\ Inside(t) /\ ~Shared(op[t]) => ~Inside(u)

\* A handle is in the stack once, or with one thread, never both: two threads
\* never seek and read through the same stream.
OneOwner ==
    /\ \A i, j \in DOMAIN pool : pool[i] = pool[j] => i = j
    /\ \A t \in Thread, i \in DOMAIN pool : held[t] # pool[i]
    /\ \A t, u \in Thread : t # u /\ held[t] = held[u] => held[t] = NoHandle

\* No handle is lost: the stack is full again whenever nobody is between
\* getpFile and returnpFile.
NoHandleLost == \A h \in Handle : (\E i \in DOMAIN pool : pool[i] = h)
                                  \/ (\E t \in Thread : held[t] = h)

\* mutex_ as the threads see it, and a handle in hand exactly between getpFile
\* and returnpFile: with TypeOK, what the properties above rest on.
LockState ==
    /\ \A t \in Thread : Inside(t) /\ Shared(op[t]) <=> t \in readers
    /\ \A t \in Thread : Inside(t) /\ ~Shared(op[t]) <=> writer = t
    /\ writer # NoThread => readers = {}
HoldState == \A t \in Thread : held[t] # NoHandle <=> pc[t] \in {"seek", "io", "return"}

\* No wakeup is lost: while threads wait for a handle, there are at least as
\* many threads about to take one or to notify as there are handles to take.
\* returnpFile notifies one waiter, after it has released the mutex.
Stirring == {t \in Thread : pc[t] \in {"get", "notify"}}
NoLostWakeup == Waiting # {} => Len(pool) <= Cardinality(Stirring)

\* Every request is answered, with fewer handles than threads too.
EveryRequestAnswered == \A t \in Thread : pc[t] # "idle" ~> pc[t] = "idle"

\* What README.md says of SET and GET ("SET a a" OK, then "GET a" "a"): a read
\* returns what was last written, whichever streams the two went through.
FreshReads ==
    \A t \in Thread : pc[t] = "return" /\ ~Current(t).write => result[t] = truth[Current(t).cell]
=============================================================================
