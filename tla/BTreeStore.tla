----------------------------- MODULE BTreeStore -----------------------------
(***************************************************************************)
(* The B-tree store under concurrent requests: KeyValueStore.cpp over      *)
(* FileManager.cpp.  A request takes the store's shared_mutex, shared for  *)
(* GET and EXIST and exclusive for SET and DEL, then one file handle from  *)
(* a pool for all it does, and gives the handle back at the end.  The tree *)
(* has early returns, for an empty tree, between the two: those keep the   *)
(* handle.  Of the tree only whether it is empty matters here (BTree       *)
(* models the rest); the pool's queue is a set, since its order decides    *)
(* only which of several equal handles is used.                            *)
(***************************************************************************)
EXTENDS Integers, FiniteSets

CONSTANTS Thread,   \* threads that serve requests
          Handle,   \* the FILE* opened by FileManager, filePtrPoolSize of them
          MaxOps,   \* bound on the requests a thread serves
          NoThread, NoHandle

ASSUME MaxOpsAssumption == MaxOps \in Nat
ASSUME FiniteAssumption == IsFiniteSet(Thread) /\ IsFiniteSet(Handle)
ASSUME NoThreadAssumption == NoThread \notin Thread
ASSUME NoHandleAssumption == NoHandle \notin Handle

Op == {"GET", "EXIST", "SET", "DEL"}
Shared(o) == o \in {"GET", "EXIST"}

PC == {"idle", "lock", "get", "wait", "work", "return", "notify", "unlock"}

VARIABLES pc,       \* where a thread is
          op,       \* the request it serves
          left,     \* how many requests it may still serve
          readers,  \* threads that hold mutex shared
          writer,   \* the thread that holds it exclusively
          pool,     \* FileManager::filePtrPool
          held,     \* the handle a thread has taken
          kept,     \* handles that an early return did not give back
          empty     \* BTree::root == NULL

lockVars == <<readers, writer>>
poolVars == <<pool, held, kept>>
vars == <<pc, op, left, lockVars, poolVars, empty>>

\* A store opened on a file, or a new one.
Init ==
    /\ pc = [t \in Thread |-> "idle"]
    /\ op = [t \in Thread |-> "GET"]
    /\ left = [t \in Thread |-> MaxOps]
    /\ readers = {}
    /\ writer = NoThread
    /\ pool = Handle
    /\ held = [t \in Thread |-> NoHandle]
    /\ kept = {}
    /\ empty \in BOOLEAN

Goto(t, l) == pc' = [pc EXCEPT ![t] = l]

\* A request arrives and calls the store.
Start(t, o) ==
    /\ pc[t] = "idle"
    /\ left[t] > 0
    /\ left' = [left EXCEPT ![t] = @ - 1]
    /\ op' = [op EXCEPT ![t] = o]
    /\ Goto(t, "lock")
    /\ UNCHANGED <<lockVars, poolVars, empty>>

LockShared(t) ==
    /\ pc[t] = "lock"
    /\ Shared(op[t])
    /\ writer = NoThread
    /\ readers' = readers \cup {t}
    /\ Goto(t, "get")
    /\ UNCHANGED <<op, left, writer, poolVars, empty>>

\* Fault: a writer enters among readers.
LockUniqueAnyway(t) ==
    /\ pc[t] = "lock"
    /\ ~Shared(op[t])
    /\ writer = NoThread
    /\ writer' = t
    /\ Goto(t, "get")
    /\ UNCHANGED <<op, left, readers, poolVars, empty>>

LockUnique(t) ==
    /\ pc[t] = "lock"
    /\ ~Shared(op[t])
    /\ writer = NoThread
    /\ readers = {}
    /\ writer' = t
    /\ Goto(t, "get")
    /\ UNCHANGED <<op, left, readers, poolVars, empty>>

\* Fault: front without pop.
GetFront(t) ==
    /\ pc[t] = "get"
    /\ \E h \in pool : held' = [held EXCEPT ![t] = h]
    /\ Goto(t, "work")
    /\ UNCHANGED <<op, left, lockVars, pool, kept, empty>>

\* getFilePtr under filePtrMutex: take a handle, or wait.
GetFilePtr(t) ==
    /\ pc[t] = "get"
    /\ \E h \in pool : /\ held' = [held EXCEPT ![t] = h]
                       /\ pool' = pool \ {h}
    /\ Goto(t, "work")
    /\ UNCHANGED <<op, left, lockVars, kept, empty>>

Wait(t) ==
    /\ pc[t] = "get"
    /\ pool = {}
    /\ Goto(t, "wait")
    /\ UNCHANGED <<op, left, lockVars, poolVars, empty>>

\* cv.wait may return without a notification; the loop tests the pool again.
SpuriousWakeup(t) ==
    /\ pc[t] = "wait"
    /\ Goto(t, "get")
    /\ UNCHANGED <<op, left, lockVars, poolVars, empty>>

\* The early returns: insert into an empty tree, after it has made the root, and
\* remove from an empty tree.  The handle is not given back.
EarlyReturn(t) ==
    /\ pc[t] = "work"
    /\ ~Shared(op[t]) /\ empty
    /\ empty' = (op[t] = "DEL")
    /\ kept' = kept \cup {held[t]}
    /\ held' = [held EXCEPT ![t] = NoHandle]
    /\ Goto(t, "unlock")
    /\ UNCHANGED <<op, left, lockVars, pool>>

\* The rest of insert, remove and search; a DEL may remove the last key.
Work(t) ==
    /\ pc[t] = "work"
    /\ Shared(op[t]) \/ ~empty
    /\ empty' \in IF op[t] = "DEL" THEN BOOLEAN ELSE {empty}
    /\ Goto(t, "return")
    /\ UNCHANGED <<op, left, lockVars, poolVars>>

\* Fault: the handle is dropped.
DropFilePtr(t) ==
    /\ pc[t] = "return"
    /\ held' = [held EXCEPT ![t] = NoHandle]
    /\ Goto(t, "notify")
    /\ UNCHANGED <<op, left, lockVars, pool, kept, empty>>

\* giveFilePtrBack pushes the handle under filePtrMutex and notifies after it.
GiveFilePtrBack(t) ==
    /\ pc[t] = "return"
    /\ pool' = pool \cup {held[t]}
    /\ held' = [held EXCEPT ![t] = NoHandle]
    /\ Goto(t, "notify")
    /\ UNCHANGED <<op, left, lockVars, kept, empty>>

Waiting == {t \in Thread : pc[t] = "wait"}

\* Fault: nobody is notified.
NotifyNone(t) ==
    /\ pc[t] = "notify"
    /\ Goto(t, "unlock")
    /\ UNCHANGED <<op, left, lockVars, poolVars, empty>>

NotifyOne(t) ==
    /\ pc[t] = "notify"
    /\ IF Waiting = {} THEN Goto(t, "unlock")
       ELSE \E w \in Waiting : pc' = [pc EXCEPT ![t] = "unlock", ![w] = "get"]
    /\ UNCHANGED <<op, left, lockVars, poolVars, empty>>

\* The lock's destructor; the request is answered.
Unlock(t) ==
    /\ pc[t] = "unlock"
    /\ IF Shared(op[t])
       THEN readers' = readers \ {t} /\ UNCHANGED writer
       ELSE writer' = NoThread /\ UNCHANGED readers
    /\ Goto(t, "idle")
    /\ UNCHANGED <<op, left, poolVars, empty>>

\* What a thread does once a request has arrived.
Serve(t) == \/ LockShared(t) \/ LockUnique(t)
            \/ GetFilePtr(t) \/ Wait(t)
            \/ EarlyReturn(t) \/ Work(t)
            \/ GiveFilePtrBack(t) \/ NotifyOne(t) \/ Unlock(t)

\* The store rests when every request has been answered, and when all handles
\* are gone and nobody can go on.
Rest == /\ \/ \A t \in Thread : pc[t] = "idle" /\ left[t] = 0
           \/ kept = Handle
        /\ UNCHANGED vars

Next == \/ \E t \in Thread : Serve(t) \/ SpuriousWakeup(t) \/ \E o \in Op : Start(t, o)
        \/ Rest

Spec == Init /\ [][Next]_vars
\* The operating system runs every thread that can run.
Fairness == \A t \in Thread : WF_vars(Serve(t))
FairSpec == Spec /\ Fairness

----------------------------------------------------------------------------
(* Properties *)

TypeOK ==
    /\ pc \in [Thread -> PC]
    /\ op \in [Thread -> Op]
    /\ left \in [Thread -> Nat]
    /\ readers \subseteq Thread
    /\ writer \in Thread \cup {NoThread}
    /\ pool \subseteq Handle
    /\ held \in [Thread -> Handle \cup {NoHandle}]
    /\ kept \subseteq Handle
    /\ empty \in BOOLEAN

Inside(t) == pc[t] \notin {"idle", "lock"}   \* between lock and unlock

\* While a SET or DEL is inside the store nobody else is, the early returns and
\* the waits for a handle included: BTree's root and queues have no other lock.
WriterAlone ==
    \A t, u \in Thread : t # u /\ Inside(t) /\ ~Shared(op[t]) => ~Inside(u)

\* A handle is in the pool, with one thread or kept by an early return, exactly
\* one of the three: no other path loses a handle and none gives one back twice.
HandlesAccounted ==
    /\ \A t \in Thread : held[t] \notin pool \cup kept
    /\ \A t, u \in Thread : t # u /\ held[t] = held[u] => held[t] = NoHandle
    /\ pool \cap kept = {}
    /\ \A h \in Handle : h \in pool \cup kept \/ \E t \in Thread : held[t] = h

\* mutex as the threads see it, and a handle in hand exactly while at work: with
\* TypeOK, what the properties rest on.
LockState ==
    /\ \A t \in Thread : Inside(t) /\ Shared(op[t]) <=> t \in readers
    /\ \A t \in Thread : Inside(t) /\ ~Shared(op[t]) <=> writer = t
    /\ writer # NoThread => readers = {}
HoldState == \A t \in Thread : held[t] # NoHandle <=> pc[t] \in {"work", "return"}

\* No wakeup is lost: while threads wait for a handle, there are at least as
\* many threads about to take one or to notify as there are handles to take.
Stirring == {t \in Thread : pc[t] \in {"get", "notify"}}
NoLostWakeup == Waiting # {} => Cardinality(pool) <= Cardinality(Stirring)

\* Threads wait without anybody at work to end it only when early returns have
\* kept every handle: the pool itself never makes everyone wait on everyone.
StuckOnlyByKeeping ==
    Waiting # {} /\ (\A t \in Thread : pc[t] \in {"idle", "lock", "wait", "unlock"})
      => kept = Handle

\* As long as early returns have left a handle, every request is answered.
AnsweredWhileHandles ==
    [](kept # Handle) => \A t \in Thread : pc[t] # "idle" ~> pc[t] = "idle"

\* What README.md:140-146 shows of DEL ("GodBee > DEL a" "OK"), and the same of the
\* other requests: each is answered.
EveryRequestAnswered == \A t \in Thread : pc[t] # "idle" ~> pc[t] = "idle"
=============================================================================
