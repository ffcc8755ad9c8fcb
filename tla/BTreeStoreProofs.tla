-------------------------- MODULE BTreeStoreProofs --------------------------
(***************************************************************************)
(* For any finite number of threads, of handles and of requests: a writer  *)
(* is alone in the B-tree store, every handle is in one place, no wakeup   *)
(* is lost, and threads are stuck only when early returns have kept every  *)
(* handle.                                                                 *)
(***************************************************************************)
EXTENDS BTreeStore, FiniteSetTheorems, TLAPS

USE MaxOpsAssumption, FiniteAssumption, NoThreadAssumption, NoHandleAssumption

\* What the properties rest on: a handle is in hand exactly while at work, the
\* mutex is as the threads see it.
IInv == TypeOK /\ HoldState /\ LockState /\ HandlesAccounted /\ NoLostWakeup

LEMMA InitHolds == Init => IInv
  <1> SUFFICES ASSUME Init PROVE IInv
    OBVIOUS
  <1>1. TypeOK
    BY DEF Init, TypeOK, PC, Op
  <1>2. HoldState /\ LockState
    BY DEF Init, HoldState, LockState, Inside
  <1>3. HandlesAccounted
    BY DEF Init, HandlesAccounted
  <1>4. NoLostWakeup
    BY DEF Init, NoLostWakeup, Waiting
  <1> QED
    BY <1>1, <1>2, <1>3, <1>4 DEF IInv

\* Every action keeps the types.
LEMMA TypeStep ==
    ASSUME TypeOK, HoldState, [Next]_vars
    PROVE  TypeOK'
  <1> USE DEF TypeOK, Goto, PC
  <1>1. CASE UNCHANGED vars \/ Rest
    BY <1>1 DEF Rest, vars, lockVars, poolVars
  <1>2. ASSUME NEW t \in Thread, NEW o \in Op, Start(t, o)
        PROVE  TypeOK'
    BY <1>2 DEF Start, lockVars, poolVars
  <1>3. ASSUME NEW t \in Thread, LockShared(t) \/ LockUnique(t) \/ Wait(t)
                                 \/ SpuriousWakeup(t) \/ Unlock(t)
        PROVE  TypeOK'
    BY <1>3 DEF LockShared, LockUnique, Wait, SpuriousWakeup, Unlock, lockVars, poolVars
  <1>4. ASSUME NEW t \in Thread, GetFilePtr(t)
        PROVE  TypeOK'
    BY <1>4 DEF GetFilePtr, lockVars
  <1>5. ASSUME NEW t \in Thread, EarlyReturn(t)
        PROVE  TypeOK'
    <2>1. held[t] \in Handle
      BY <1>5 DEF EarlyReturn, HoldState
    <2>2. empty' \in BOOLEAN
      BY <1>5 DEF EarlyReturn
    <2> QED
      BY <1>5, <2>1, <2>2 DEF EarlyReturn, lockVars
  <1>6. ASSUME NEW t \in Thread, Work(t)
        PROVE  TypeOK'
    <2>1. empty' \in BOOLEAN
      BY <1>6 DEF Work
    <2> QED
      BY <1>6, <2>1 DEF Work, lockVars, poolVars
  <1>7. ASSUME NEW t \in Thread, GiveFilePtrBack(t)
        PROVE  TypeOK'
    <2>1. held[t] \in Handle
      BY <1>7 DEF GiveFilePtrBack, HoldState
    <2> QED
      BY <1>7, <2>1 DEF GiveFilePtrBack, lockVars
  <1>8. ASSUME NEW t \in Thread, NotifyOne(t)
        PROVE  TypeOK'
    BY <1>8 DEF NotifyOne, Waiting, lockVars, poolVars
  <1> QED
    BY <1>1, <1>2, <1>3, <1>4, <1>5, <1>6, <1>7, <1>8 DEF Next, Serve

\* The request of a thread, and who is inside the store, change only where the
\* request begins, locks and ends; the early returns unlock like the others.
LEMMA LockStep ==
    ASSUME TypeOK, LockState, [Next]_vars
    PROVE  LockState'
  <1> USE DEF TypeOK, Goto, LockState, Inside
  <1>1. CASE UNCHANGED vars \/ Rest
    BY <1>1 DEF Rest, vars, lockVars
  <1>2. ASSUME NEW t \in Thread, NEW o \in Op, Start(t, o)
        PROVE  LockState'
    BY <1>2 DEF Start, lockVars
  <1>3. ASSUME NEW t \in Thread, LockShared(t)
        PROVE  LockState'
    BY <1>3 DEF LockShared
  <1>4. ASSUME NEW t \in Thread, LockUnique(t)
        PROVE  LockState'
    BY <1>4 DEF LockUnique
  <1>5. ASSUME NEW t \in Thread, GetFilePtr(t) \/ Wait(t) \/ SpuriousWakeup(t) \/ EarlyReturn(t)
                                 \/ Work(t) \/ GiveFilePtrBack(t) \/ NotifyOne(t)
        PROVE  LockState'
    <2>1. /\ UNCHANGED <<op, readers, writer>>
          /\ \A u \in Thread : Inside(u) <=> Inside(u)'
      BY <1>5 DEF GetFilePtr, Wait, SpuriousWakeup, EarlyReturn, Work, GiveFilePtrBack,
                  NotifyOne, Waiting, lockVars
    <2> QED
      BY <2>1
  <1>6. ASSUME NEW t \in Thread, Unlock(t)
        PROVE  LockState'
    BY <1>6 DEF Unlock
  <1> QED
    BY <1>1, <1>2, <1>3, <1>4, <1>5, <1>6 DEF Next, Serve

\* The lock excludes what it should.
LEMMA LockExcludes ==
    ASSUME LockState
    PROVE  WriterAlone
  BY DEF LockState, WriterAlone

\* A handle comes into a hand in getFilePtr, and leaves it in giveFilePtrBack or
\* in an early return.
LEMMA HoldStep ==
    ASSUME TypeOK, HoldState, [Next]_vars
    PROVE  HoldState'
  <1> USE DEF TypeOK, Goto, HoldState
  <1>1. CASE UNCHANGED vars \/ Rest
    BY <1>1 DEF Rest, vars, poolVars
  <1>2. ASSUME NEW t \in Thread, NEW o \in Op, Start(t, o)
        PROVE  HoldState'
    BY <1>2 DEF Start, poolVars
  <1>3. ASSUME NEW t \in Thread, LockShared(t) \/ LockUnique(t) \/ Wait(t)
                                 \/ SpuriousWakeup(t) \/ Work(t) \/ Unlock(t)
        PROVE  HoldState'
    BY <1>3 DEF LockShared, LockUnique, Wait, SpuriousWakeup, Work, Unlock, poolVars
  <1>4. ASSUME NEW t \in Thread, GetFilePtr(t) \/ EarlyReturn(t) \/ GiveFilePtrBack(t)
        PROVE  HoldState'
    BY <1>4 DEF GetFilePtr, EarlyReturn, GiveFilePtrBack
  <1>5. ASSUME NEW t \in Thread, NotifyOne(t)
        PROVE  HoldState'
    BY <1>5 DEF NotifyOne, Waiting, poolVars
  <1> QED
    BY <1>1, <1>2, <1>3, <1>4, <1>5 DEF Next, Serve

\* Every other action leaves the handles where they are.
LEMMA PoolAlone ==
    ASSUME [Next]_vars,
           \A t \in Thread : ~GetFilePtr(t) /\ ~EarlyReturn(t) /\ ~GiveFilePtrBack(t)
    PROVE  UNCHANGED poolVars
  BY DEF Next, Serve, Start, LockShared, LockUnique, Wait, SpuriousWakeup, Work,
         NotifyOne, Unlock, Rest, vars

\* A handle moves from the pool to one hand, and from there back or away.
LEMMA OwnStep ==
    ASSUME TypeOK, HoldState, HandlesAccounted, [Next]_vars
    PROVE  HandlesAccounted'
  <1> USE DEF HandlesAccounted
  <1>1. /\ pool \subseteq Handle
        /\ kept \subseteq Handle
        /\ held \in [Thread -> Handle \cup {NoHandle}]
    BY DEF TypeOK
  <1>2. ASSUME NEW t \in Thread, GetFilePtr(t)
        PROVE  HandlesAccounted'
    <2>1. PICK h \in pool : held' = [held EXCEPT ![t] = h] /\ pool' = pool \ {h}
      BY <1>2 DEF GetFilePtr
    <2>2. held[t] = NoHandle /\ UNCHANGED kept
      BY <1>2 DEF GetFilePtr, HoldState
    <2>3. \A u \in Thread : held'[u] = IF u = t THEN h ELSE held[u]
      BY <1>1, <2>1
    <2> QED
      BY <1>1, <2>1, <2>2, <2>3
  <1>3. ASSUME NEW t \in Thread, EarlyReturn(t) \/ GiveFilePtrBack(t)
        PROVE  HandlesAccounted'
    <2>1. held[t] \in Handle
      BY <1>1, <1>3 DEF EarlyReturn, GiveFilePtrBack, HoldState
    <2>2. \/ kept' = kept \cup {held[t]} /\ UNCHANGED pool
          \/ pool' = pool \cup {held[t]} /\ UNCHANGED kept
      BY <1>3 DEF EarlyReturn, GiveFilePtrBack
    <2>3. \A u \in Thread : held'[u] = IF u = t THEN NoHandle ELSE held[u]
      BY <1>1, <1>3 DEF EarlyReturn, GiveFilePtrBack
    <2> QED
      BY <1>1, <2>1, <2>2, <2>3
  <1>4. CASE \A t \in Thread : ~GetFilePtr(t) /\ ~EarlyReturn(t) /\ ~GiveFilePtrBack(t)
    BY <1>4, PoolAlone DEF poolVars
  <1> QED
    BY <1>2, <1>3, <1>4

\* Sets of threads and of handles are counted.
LEMMA CountThreads ==
    ASSUME NEW S \in SUBSET Thread
    PROVE  IsFiniteSet(S) /\ Cardinality(S) \in Nat
  BY FS_Subset, FS_CardinalityType

LEMMA CountHandles ==
    ASSUME NEW S \in SUBSET Handle
    PROVE  IsFiniteSet(S) /\ Cardinality(S) \in Nat
  BY FS_Subset, FS_CardinalityType

\* A handle given back adds the thread that will notify, a notification replaces
\* that thread by a waiter, a thread that goes to wait has found the pool empty,
\* and an early return takes its handle from a hand and not from the pool.
LEMMA WakeStep ==
    ASSUME TypeOK, HoldState, HandlesAccounted, NoLostWakeup, [Next]_vars
    PROVE  NoLostWakeup'
  <1> DEFINE Enough == Cardinality(pool') <= Cardinality(Stirring')
  <1>1. pc \in [Thread -> PC] /\ pool \in SUBSET Handle
    BY DEF TypeOK
  <1>2. Stirring \in SUBSET Thread /\ Stirring' \in SUBSET Thread
    BY DEF Stirring
  <1>3. /\ Cardinality(pool) \in Nat
        /\ Cardinality(Stirring) \in Nat
        /\ Cardinality(Stirring') \in Nat
    BY <1>1, <1>2, CountThreads, CountHandles
  <1>4. SUFFICES ASSUME Waiting' # {} PROVE Enough
    BY DEF NoLostWakeup
  \* The pool is as it was, nobody stops stirring, and somebody waited before.
  <1>5. ASSUME UNCHANGED pool, Stirring \subseteq Stirring', Waiting # {}
        PROVE  Enough
    <2>1. Cardinality(Stirring) <= Cardinality(Stirring')
      BY <1>2, <1>5, CountThreads, FS_Subset
    <2> QED
      BY <1>3, <1>5, <2>1 DEF NoLostWakeup
  <1>6. CASE UNCHANGED vars \/ Rest
    <2>1. UNCHANGED <<pool, pc>>
      BY <1>6 DEF Rest, vars, poolVars
    <2> QED
      BY <1>4, <1>5, <2>1 DEF Stirring, Waiting
  <1>7. ASSUME NEW t \in Thread, LockShared(t) \/ LockUnique(t) \/ SpuriousWakeup(t)
        PROVE  Enough
    <2>1. UNCHANGED pool /\ pc[t] \in {"lock", "wait"} /\ pc' = [pc EXCEPT ![t] = "get"]
      BY <1>7 DEF LockShared, LockUnique, SpuriousWakeup, Goto, poolVars
    <2> QED
      BY <1>1, <1>4, <1>5, <2>1 DEF Stirring, Waiting
  <1>8. ASSUME NEW t \in Thread, (\E o \in Op : Start(t, o)) \/ EarlyReturn(t) \/ Work(t) \/ Unlock(t)
        PROVE  Enough
    <2>1. /\ UNCHANGED pool
          /\ pc[t] \in {"idle", "work", "unlock"}
          /\ \E l \in {"lock", "return", "unlock", "idle"} : pc' = [pc EXCEPT ![t] = l]
      BY <1>8 DEF Start, EarlyReturn, Work, Unlock, Goto, poolVars
    <2> QED
      BY <1>1, <1>4, <1>5, <2>1 DEF Stirring, Waiting
  <1>9. ASSUME NEW t \in Thread, Wait(t)
        PROVE  Enough
    <2>1. pool' = {}
      BY <1>9 DEF Wait, poolVars
    <2>2. Cardinality(pool') = 0
      BY <2>1, FS_EmptySet
    <2> QED
      BY <1>3, <2>2
  <1>10. ASSUME NEW t \in Thread, GetFilePtr(t)
         PROVE  Enough
    <2>1. pc[t] = "get" /\ pc' = [pc EXCEPT ![t] = "work"]
      BY <1>10 DEF GetFilePtr, Goto
    <2>2. PICK h \in pool : pool' = pool \ {h}
      BY <1>10 DEF GetFilePtr
    <2>3. Cardinality(pool') = Cardinality(pool) - 1
      BY <1>1, <2>2, CountHandles, FS_RemoveElement
    <2>4. Waiting # {}
      BY <1>1, <1>4, <2>1 DEF Waiting
    <2>5. t \in Stirring /\ Stirring' = Stirring \ {t}
      BY <1>1, <2>1 DEF Stirring
    <2>6. Cardinality(Stirring') = Cardinality(Stirring) - 1
      BY <1>2, <2>5, CountThreads, FS_RemoveElement
    <2> QED
      BY <1>3, <2>3, <2>4, <2>6 DEF NoLostWakeup
  <1>11. ASSUME NEW t \in Thread, GiveFilePtrBack(t)
         PROVE  Enough
    <2>1. /\ pc[t] = "return"
          /\ pc' = [pc EXCEPT ![t] = "notify"]
          /\ pool' = pool \cup {held[t]}
      BY <1>11 DEF GiveFilePtrBack, Goto
    <2>2. held[t] \notin pool
      BY DEF HandlesAccounted
    <2>3. Cardinality(pool') = Cardinality(pool) + 1
      BY <1>1, <2>1, <2>2, CountHandles, FS_AddElement
    <2>4. Waiting # {}
      BY <1>1, <1>4, <2>1 DEF Waiting
    <2>5. t \notin Stirring /\ Stirring' = Stirring \cup {t}
      BY <1>1, <2>1 DEF Stirring
    <2>6. Cardinality(Stirring') = Cardinality(Stirring) + 1
      BY <1>2, <2>5, CountThreads, FS_AddElement
    <2> QED
      BY <1>3, <2>3, <2>4, <2>6 DEF NoLostWakeup
  <1>12. ASSUME NEW t \in Thread, NotifyOne(t)
         PROVE  Enough
    <2>1. pc[t] = "notify" /\ UNCHANGED pool
      BY <1>12 DEF NotifyOne, poolVars
    <2>2. Waiting # {}
      BY <1>1, <1>4, <1>12, <2>1 DEF NotifyOne, Goto, Waiting
    <2>3. PICK w \in Waiting : pc' = [pc EXCEPT ![t] = "unlock", ![w] = "get"]
      BY <1>12, <2>2 DEF NotifyOne
    <2>4. w \in Thread /\ w # t /\ w \notin Stirring /\ t \in Stirring
      BY <2>1 DEF Waiting, Stirring
    <2> DEFINE rest == Stirring \ {t}
    <2>5. rest \in SUBSET Thread /\ w \notin rest
      BY <1>2, <2>4
    <2>6. rest \cup {w} \subseteq Stirring'
      BY <1>1, <2>1, <2>3, <2>4 DEF Stirring
    <2>7. Cardinality(rest) = Cardinality(Stirring) - 1
      BY <1>2, <2>4, CountThreads, FS_RemoveElement
    <2>8. Cardinality(rest \cup {w}) = Cardinality(rest) + 1
      BY <2>5, CountThreads, FS_AddElement
    <2> HIDE DEF rest
    <2>9. Cardinality(rest \cup {w}) <= Cardinality(Stirring')
      BY <1>2, <2>6, CountThreads, FS_Subset
    <2> QED
      BY <1>3, <2>1, <2>2, <2>7, <2>8, <2>9 DEF NoLostWakeup
  <1> QED
    BY <1>6, <1>7, <1>8, <1>9, <1>10, <1>11, <1>12 DEF Next, Serve

\* Nobody stirs and nobody holds a handle: the pool is empty, so the early returns
\* have them all.
LEMMA StuckKeeps ==
    ASSUME IInv
    PROVE  StuckOnlyByKeeping
  <1> USE DEF IInv
  <1> SUFFICES ASSUME Waiting # {},
                      \A t \in Thread : pc[t] \in {"idle", "lock", "wait", "unlock"}
               PROVE  kept = Handle
    BY DEF StuckOnlyByKeeping
  <1>1. Stirring = {}
    BY DEF Stirring
  <1>2. pool \in SUBSET Handle /\ kept \subseteq Handle
    BY DEF TypeOK
  <1>3. Cardinality(pool) \in Nat /\ IsFiniteSet(pool)
    BY <1>2, CountHandles
  <1>4. Cardinality(pool) = 0
    BY <1>1, <1>3, FS_EmptySet DEF NoLostWakeup
  <1>5. pool = {}
    BY <1>3, <1>4, FS_EmptySet
  <1>6. \A t \in Thread : held[t] = NoHandle
    BY DEF HoldState
  <1> QED
    BY <1>2, <1>5, <1>6 DEF HandlesAccounted

----------------------------------------------------------------------------
(* The theorems *)

\* The conjunction is inductive: it holds in every state of the store, whatever
\* the threads, the handles and the requests.
THEOREM BStoreInvariant == Spec => []IInv
  <1>1. Init => IInv
    BY InitHolds
  <1>2. IInv /\ [Next]_vars => IInv'
    BY TypeStep, LockStep, HoldStep, OwnStep, WakeStep DEF IInv
  <1> QED
    BY <1>1, <1>2, PTL DEF Spec

\* The variables of KeyValueStore and FileManager keep their types.
THEOREM BStoreTypeOK == Spec => []TypeOK
  <1>1. IInv => TypeOK
    BY DEF IInv
  <1> QED
    BY <1>1, BStoreInvariant, PTL

\* KeyValueStore.cpp: a SET or DEL inside the store is there alone.
THEOREM BWritersExclude == Spec => []WriterAlone
  <1>1. IInv => WriterAlone
    BY LockExcludes DEF IInv
  <1> QED
    BY <1>1, BStoreInvariant, PTL

\* FileManager.cpp and the early returns of BTree.cpp: a handle is in the pool, in
\* one hand or kept, and never in two of these places.
THEOREM BHandlesAccounted == Spec => []HandlesAccounted
  <1>1. IInv => HandlesAccounted
    BY DEF IInv
  <1> QED
    BY <1>1, BStoreInvariant, PTL

\* giveFilePtrBack notifies one waiter, after the mutex is released: no handle
\* lies in the pool that nobody is coming for while others wait.
THEOREM BWakeupsKept == Spec => []NoLostWakeup
  <1>1. IInv => NoLostWakeup
    BY DEF IInv
  <1> QED
    BY <1>1, BStoreInvariant, PTL

\* BTree.cpp:34 and 121 are the only way to a store where everyone waits.
THEOREM BStuckOnlyByKeeping == Spec => []StuckOnlyByKeeping
  <1>1. IInv => StuckOnlyByKeeping
    BY StuckKeeps
  <1> QED
    BY <1>1, BStoreInvariant, PTL
=============================================================================
