-------------------------- MODULE BPlusStoreProofs --------------------------
(***************************************************************************)
(* For any finite number of threads, of handles and of requests: a writer  *)
(* is alone in the store, a stream has one owner, no handle and no wakeup  *)
(* is lost, and a client that is alone reads what it wrote.                *)
(***************************************************************************)
EXTENDS MCBPlusStore, FiniteSetTheorems, TLAPS

\* A request makes one to three file calls, each of a cell.
LEMMA CallsType ==
    ASSUME NEW o \in Op
    PROVE  /\ DOMAIN Calls(o) = 1 .. Len(Calls(o))
           /\ Len(Calls(o)) \in Nat \ {0}
           /\ \A i \in DOMAIN Calls(o) : Calls(o)[i] \in [write : BOOLEAN, cell : Cell]
  <1> DEFINE Good(s) == /\ DOMAIN s = 1 .. Len(s)
                        /\ Len(s) \in Nat \ {0}
                        /\ \A i \in DOMAIN s : s[i] \in [write : BOOLEAN, cell : Cell]
  <1>1. \A c \in Cell : /\ Read(c) \in [write : BOOLEAN, cell : Cell]
                         /\ Write(c) \in [write : BOOLEAN, cell : Cell]
    BY DEF Read, Write
  <1>2. ASSUME NEW a \in [write : BOOLEAN, cell : Cell],
               NEW b \in [write : BOOLEAN, cell : Cell],
               NEW c \in [write : BOOLEAN, cell : Cell]
        PROVE  Good(<<a>>) /\ Good(<<a, b>>) /\ Good(<<a, b, c>>)
    OBVIOUS
  <1> SUFFICES Good(Calls(o))
    OBVIOUS
  <1> HIDE DEF Good
  <1>3. "root" \in Cell /\ "leaf" \in Cell /\ "value" \in Cell
    BY DEF Cell
  <1>4. CASE o = "GET"
    BY <1>1, <1>2, <1>3, <1>4 DEF Calls
  <1>5. CASE o = "EXIST"
    BY <1>1, <1>2, <1>3, <1>5 DEF Calls
  <1>6. CASE o = "SET"
    BY <1>1, <1>2, <1>3, <1>6 DEF Calls
  <1>7. CASE o = "UPDATE"
    BY <1>1, <1>2, <1>3, <1>7 DEF Calls
  <1>8. CASE o = "DEL"
    BY <1>1, <1>2, <1>3, <1>8 DEF Calls
  <1> QED
    BY <1>4, <1>5, <1>6, <1>7, <1>8 DEF Op

\* The stack after a pop and after a push.
LEMMA PopFacts ==
    ASSUME NEW S, NEW s \in Seq(S), s # <<>>
    PROVE  /\ Last(s) = s[Len(s)]
           /\ Len(s) \in DOMAIN s
           /\ Last(s) \in S
           /\ Front(s) \in Seq(S)
           /\ Len(Front(s)) = Len(s) - 1
           /\ DOMAIN s = 1 .. Len(s)
           /\ DOMAIN Front(s) = 1 .. Len(s) - 1
           /\ \A i \in 1 .. Len(s) - 1 : Front(s)[i] = s[i]
  <1>1. /\ Last(s) = s[Len(s)]
        /\ Len(s) \in DOMAIN s
        /\ Last(s) \in S
        /\ DOMAIN s = 1 .. Len(s)
    BY DEF Last
  <1>2. /\ Front(s) \in Seq(S)
        /\ DOMAIN Front(s) = 1 .. Len(s) - 1
        /\ \A i \in 1 .. Len(s) - 1 : Front(s)[i] = s[i]
    BY DEF Front
  <1>3. Len(Front(s)) = Len(s) - 1
    <2>1. Len(s) \in Nat \ {0} /\ Len(Front(s)) \in Nat
      BY <1>1, <1>2
    <2>2. 1 .. Len(Front(s)) = 1 .. Len(s) - 1
      BY <1>2
    <2> QED
      BY <2>1, <2>2
  <1> QED
    BY <1>1, <1>2, <1>3

LEMMA PushFacts ==
    ASSUME NEW S, NEW s \in Seq(S), NEW x \in S
    PROVE  /\ Append(s, x) \in Seq(S)
           /\ Len(Append(s, x)) = Len(s) + 1
           /\ DOMAIN s = 1 .. Len(s)
           /\ DOMAIN Append(s, x) = 1 .. Len(s) + 1
           /\ \A i \in 1 .. Len(s) : Append(s, x)[i] = s[i]
           /\ Append(s, x)[Len(s) + 1] = x
  OBVIOUS

USE MaxOpsAssumption, FiniteAssumption, NoThreadAssumption, NoHandleAssumption

----------------------------------------------------------------------------
(* What the properties rest on *)

\* A handle is held exactly between getpFile and returnpFile; mutex_ is as the
\* threads see it.
IInv == TypeOK /\ HoldState /\ LockState /\ OneOwner /\ NoHandleLost /\ NoLostWakeup

LEMMA InitHolds == Init => IInv
  <1> SUFFICES ASSUME Init PROVE IInv
    OBVIOUS
  <1>1. Cardinality(Handle) \in Nat
    BY FS_CardinalityType
  <1>2. pool \in [1 .. Cardinality(Handle) -> Handle]
    BY DEF Init
  <1>3. /\ pool \in Seq(Handle)
        /\ DOMAIN pool = 1 .. Cardinality(Handle)
        /\ \A i \in DOMAIN pool : pool[i] \in Handle
    BY <1>1, <1>2
  <1>4. /\ \A i, j \in DOMAIN pool : pool[i] = pool[j] => i = j
        /\ \A h \in Handle : \E i \in DOMAIN pool : pool[i] = h
    BY DEF Init, IsInjective, Range
  <1>5. TypeOK
    BY <1>3, CallsType DEF Init, TypeOK, PC, Op, Cell
  <1>6. HoldState /\ LockState
    BY DEF Init, HoldState, LockState, Inside
  <1>7. OneOwner /\ NoHandleLost
    <2>1. \A t \in Thread : held[t] = NoHandle
      BY DEF Init
    <2> QED
      BY <1>3, <1>4, <2>1 DEF OneOwner, NoHandleLost
  <1>8. NoLostWakeup
    BY DEF Init, NoLostWakeup, Waiting
  <1> QED
    BY <1>5, <1>6, <1>7, <1>8 DEF IInv

\* Every action keeps the types.
LEMMA TypeStep ==
    ASSUME TypeOK, HoldState, [Next]_vars
    PROVE  TypeOK'
  <1> USE DEF TypeOK, Goto
  <1>1. CASE UNCHANGED vars
    BY <1>1 DEF vars, lockVars, poolVars, dataVars
  <1>2. CASE Rest
    BY <1>2 DEF Rest, vars, lockVars, poolVars, dataVars
  <1>3. ASSUME NEW t \in Thread, NEW o \in Op, Start(t, o)
        PROVE  TypeOK'
    <2>1. 1 \in DOMAIN Calls(o)
      BY CallsType
    <2>2. /\ left[t] \in Nat \ {0} /\ left' = [left EXCEPT ![t] = @ - 1]
          /\ op' = [op EXCEPT ![t] = o] /\ call' = [call EXCEPT ![t] = 1]
          /\ pc' = [pc EXCEPT ![t] = "lock"] /\ UNCHANGED <<lockVars, poolVars, dataVars>>
      BY <1>3 DEF Start
    <2>3. pc' \in [Thread -> PC] /\ op' \in [Thread -> Op]
      BY <2>2 DEF PC
    <2>4. call' \in [Thread -> Nat] /\ left' \in [Thread -> Nat]
      BY <2>2
    <2>5. \A u \in Thread : call'[u] \in DOMAIN Calls(op'[u])
      BY <2>1, <2>2
    <2> QED
      BY <2>2, <2>3, <2>4, <2>5 DEF lockVars, poolVars, dataVars
  <1>4. ASSUME NEW t \in Thread, LockShared(t) \/ LockUnique(t) \/ Wait(t)
                                 \/ SpuriousWakeup(t) \/ Unlock(t)
        PROVE  TypeOK'
    BY <1>4 DEF LockShared, LockUnique, Wait, SpuriousWakeup, Unlock, PC,
                lockVars, poolVars, dataVars
  <1>5. ASSUME NEW t \in Thread, GetHandle(t)
        PROVE  TypeOK'
    BY <1>5, PopFacts DEF GetHandle, PC, lockVars, poolVars, dataVars
  <1>6. ASSUME NEW t \in Thread, ReturnHandle(t)
        PROVE  TypeOK'
    <2>1. held[t] \in Handle
      BY <1>6 DEF ReturnHandle, HoldState
    <2> QED
      BY <1>6, <2>1, PushFacts DEF ReturnHandle, PC, lockVars, poolVars, dataVars
  <1>7. ASSUME NEW t \in Thread, pc[t] = "io"
        PROVE  held[t] \in Handle /\ Current(t).cell \in Cell
    BY <1>7, CallsType DEF HoldState, Current
  <1>8. ASSUME NEW t \in Thread, Seek(t)
        PROVE  TypeOK'
    <2>1. held[t] \in Handle
      BY <1>8 DEF Seek, HoldState
    <2> DEFINE b == buffer[held[t]]
    <2>2. b \in [cell : Cell \cup {"none"}, version : Nat, dirty : BOOLEAN]
      BY <2>1
    <2>3. file' \in [Cell -> Nat]
      BY <1>8, <2>2 DEF Seek
    <2>4. buffer' \in [Handle -> [cell : Cell \cup {"none"}, version : Nat, dirty : BOOLEAN]]
      BY <1>8, <2>2 DEF Seek
    <2> QED
      BY <1>8, <2>3, <2>4 DEF Seek, PC, lockVars, poolVars
  <1>9. ASSUME NEW t \in Thread, Fread(t)
        PROVE  TypeOK'
    <2> DEFINE c == Current(t).cell
               b == buffer[held[t]]
               v == IF b.cell = c THEN b.version ELSE file[c]
    <2>1. held[t] \in Handle /\ c \in Cell
      BY <1>7, <1>9 DEF Fread
    <2>2. v \in Nat
      BY <2>1
    <2>3. /\ result' = [result EXCEPT ![t] = v]
          /\ buffer' = [buffer EXCEPT ![held[t]] = [cell |-> c, version |-> v, dirty |-> FALSE]]
          /\ pc' = [pc EXCEPT ![t] = "return"]
          /\ UNCHANGED <<op, call, left, lockVars, poolVars, file, truth>>
      BY <1>9 DEF Fread
    <2> HIDE DEF c, v
    <2> QED
      BY <2>1, <2>2, <2>3 DEF PC, lockVars, poolVars
  <1>10. ASSUME NEW t \in Thread, Fwrite(t)
         PROVE  TypeOK'
    <2> DEFINE c == Current(t).cell
               v == truth[c] + 1
    <2>1. held[t] \in Handle /\ c \in Cell
      BY <1>7, <1>10 DEF Fwrite
    <2>2. v \in Nat
      BY <2>1
    <2>3. PICK through \in BOOLEAN :
            /\ buffer' = [buffer EXCEPT ![held[t]] =
                            [cell |-> c, version |-> v, dirty |-> ~through]]
            /\ file' = IF through THEN [file EXCEPT ![c] = v] ELSE file
      BY <1>10 DEF Fwrite
    <2>4. /\ truth' = [truth EXCEPT ![c] = v]
          /\ pc' = [pc EXCEPT ![t] = "return"]
          /\ UNCHANGED <<op, call, left, lockVars, poolVars, result>>
      BY <1>10 DEF Fwrite
    <2> HIDE DEF c, v
    <2>5. truth' \in [Cell -> Nat] /\ file' \in [Cell -> Nat]
      BY <2>1, <2>2, <2>3, <2>4
    <2>6. buffer' \in [Handle -> [cell : Cell \cup {"none"}, version : Nat, dirty : BOOLEAN]]
      BY <2>1, <2>2, <2>3
    <2> QED
      BY <2>4, <2>5, <2>6 DEF PC, lockVars, poolVars
  <1>11. ASSUME NEW t \in Thread, NotifyOne(t)
         PROVE  TypeOK'
    <2>1. Resume(t) \in PC
      BY DEF Resume, PC
    <2>2. pc' \in [Thread -> PC]
      <3>1. CASE Waiting = {}
        BY <1>11, <2>1, <3>1 DEF NotifyOne
      <3>2. CASE Waiting # {}
        <4>1. PICK w \in Thread : pc' = [pc EXCEPT ![t] = Resume(t), ![w] = "get"]
          BY <1>11, <3>2 DEF NotifyOne, Waiting
        <4>2. "get" \in PC
          BY DEF PC
        <4> QED
          BY <2>1, <4>1, <4>2
      <3> QED
        BY <3>1, <3>2
    <2>3. op[t] \in Op /\ call[t] \in Nat /\ call[t] \in DOMAIN Calls(op[t])
      OBVIOUS
    <2>4. call[t] < Len(Calls(op[t])) => call[t] + 1 \in DOMAIN Calls(op[t])
      BY <2>3, CallsType
    <2>5. /\ call' \in [Thread -> Nat]
          /\ \A u \in Thread : call'[u] \in DOMAIN Calls(op[u])
      BY <1>11, <2>3, <2>4, SMTT(30) DEF NotifyOne, Resume
    <2> QED
      BY <1>11, <2>2, <2>5 DEF NotifyOne, lockVars, poolVars, dataVars
  <1> QED
    BY <1>1, <1>2, <1>3, <1>4, <1>5, <1>6, <1>8, <1>9, <1>10, <1>11 DEF Next, Serve

\* A notification moves its thread on and at most one waiting thread.
LEMMA NotifyMoves ==
    ASSUME TypeOK, NEW t \in Thread, NotifyOne(t)
    PROVE  /\ pc[t] = "notify" /\ pc'[t] \in {"get", "unlock"}
           /\ \A u \in Thread \ {t} : pc'[u] = pc[u] \/ (pc[u] = "wait" /\ pc'[u] = "get")
  <1>1. pc \in [Thread -> PC] /\ Resume(t) \in {"get", "unlock"} /\ pc[t] = "notify"
    BY DEF TypeOK, NotifyOne, Resume
  <1>2. CASE Waiting = {}
    <2>1. pc' = [pc EXCEPT ![t] = Resume(t)]
      BY <1>2 DEF NotifyOne, Goto
    <2> QED
      BY <1>1, <2>1
  <1>3. CASE Waiting # {}
    <2>1. PICK w \in Thread : pc[w] = "wait" /\ pc' = [pc EXCEPT ![t] = Resume(t), ![w] = "get"]
      BY <1>3 DEF NotifyOne, Waiting
    <2>2. w # t
      BY <1>1, <2>1
    <2> QED
      BY <1>1, <2>1, <2>2
  <1> QED
    BY <1>2, <1>3

\* The request of a thread, and who is inside the store, change only where the
\* request begins, locks and ends.
LEMMA LockStep ==
    ASSUME TypeOK, LockState, [Next]_vars
    PROVE  LockState'
  <1> USE DEF TypeOK, Goto, LockState, Inside
  <1>1. CASE UNCHANGED vars \/ Rest
    BY <1>1 DEF Rest, vars, lockVars
  <1>2. ASSUME NEW t \in Thread, NEW o \in Op, Start(t, o)
        PROVE  LockState'
    BY <1>2 DEF Start, lockVars
  <1>3. ASSUME NEW t \in Thread, LockShared(t)
        PROVE  LockState'
    BY <1>3 DEF LockShared
  <1>4. ASSUME NEW t \in Thread, LockUnique(t)
        PROVE  LockState'
    BY <1>4 DEF LockUnique
  <1>5. ASSUME NEW t \in Thread, GetHandle(t) \/ Wait(t) \/ SpuriousWakeup(t) \/ Seek(t)
                                 \/ Fread(t) \/ Fwrite(t) \/ ReturnHandle(t)
        PROVE  LockState'
    <2>1. /\ UNCHANGED <<op, readers, writer>>
          /\ \A u \in Thread : Inside(u) <=> Inside(u)'
      BY <1>5, SMTT(30) DEF GetHandle, Wait, SpuriousWakeup, Seek, Fread, Fwrite, ReturnHandle, lockVars
    <2> QED
      BY <2>1
  <1>6. ASSUME NEW t \in Thread, NotifyOne(t)
        PROVE  LockState'
    <2>1. /\ UNCHANGED <<op, readers, writer>>
          /\ \A u \in Thread : Inside(u) <=> Inside(u)'
      <3>1. UNCHANGED <<op, readers, writer>>
        BY <1>6 DEF NotifyOne, lockVars
      <3> QED
        BY <1>6, <3>1, NotifyMoves
    <2> QED
      BY <2>1
  <1>7. ASSUME NEW t \in Thread, Unlock(t)
        PROVE  LockState'
    BY <1>7, ZenonT(40) DEF Unlock
  <1> QED
    BY <1>1, <1>2, <1>3, <1>4, <1>5, <1>6, <1>7 DEF Next, Serve

\* The lock excludes what it should.
LEMMA LockExcludes ==
    ASSUME LockState
    PROVE  WriterAlone
  BY NoThreadAssumption DEF LockState, WriterAlone

\* A handle is taken by getpFile and given back by returnpFile, nowhere else.
LEMMA HoldStep ==
    ASSUME TypeOK, HoldState, [Next]_vars
    PROVE  HoldState'
  <1> USE DEF TypeOK, Goto, HoldState
  <1>1. CASE UNCHANGED vars \/ Rest
    BY <1>1 DEF Rest, vars, poolVars
  <1>2. ASSUME NEW t \in Thread, NEW o \in Op, Start(t, o)
        PROVE  HoldState'
    BY <1>2 DEF Start, poolVars
  <1>3. ASSUME NEW t \in Thread, LockShared(t) \/ LockUnique(t) \/ Wait(t) \/ SpuriousWakeup(t)
                                 \/ Seek(t) \/ Fread(t) \/ Fwrite(t) \/ Unlock(t)
        PROVE  HoldState'
    BY <1>3, ZenonT(40) DEF LockShared, LockUnique, Wait, SpuriousWakeup, Seek, Fread, Fwrite, Unlock,
                poolVars
  <1>4. ASSUME NEW t \in Thread, GetHandle(t)
        PROVE  HoldState'
    BY <1>4, PopFacts DEF GetHandle
  <1>5. ASSUME NEW t \in Thread, ReturnHandle(t)
        PROVE  HoldState'
    BY <1>5 DEF ReturnHandle
  <1>6. ASSUME NEW t \in Thread, NotifyOne(t)
        PROVE  HoldState'
    <2>1. UNCHANGED held
      BY <1>6 DEF NotifyOne, poolVars
    <2> QED
      BY <1>6, <2>1, NotifyMoves
  <1> QED
    BY <1>1, <1>2, <1>3, <1>4, <1>5, <1>6 DEF Next, Serve

\* Every other action leaves the stack and the hands alone.
LEMMA PoolAlone ==
    ASSUME [Next]_vars, \A t \in Thread : ~GetHandle(t) /\ ~ReturnHandle(t)
    PROVE  UNCHANGED <<pool, held>>
  BY DEF Next, Serve, Start, LockShared, LockUnique, Wait, SpuriousWakeup, Seek, Fread, Fwrite,
         NotifyOne, Unlock, Rest, vars, poolVars

\* A handle moves from the stack to one thread and back, and is never dropped.
LEMMA OwnStep ==
    ASSUME TypeOK, HoldState, OneOwner, NoHandleLost, [Next]_vars
    PROVE  OneOwner' /\ NoHandleLost'
  <1>1. pool \in Seq(Handle) /\ held \in [Thread -> Handle \cup {NoHandle}]
    BY DEF TypeOK
  <1>2. ASSUME NEW t \in Thread, GetHandle(t)
        PROVE  OneOwner' /\ NoHandleLost'
    <2>1. /\ pool # <<>>
          /\ held' = [held EXCEPT ![t] = pool[Len(pool)]]
          /\ pool' = Front(pool)
          /\ held[t] = NoHandle
      BY <1>1, <1>2, PopFacts DEF GetHandle, HoldState
    <2>2. /\ DOMAIN pool = 1 .. Len(pool)
          /\ DOMAIN pool' = 1 .. Len(pool) - 1
          /\ \A i \in DOMAIN pool' : i \in DOMAIN pool /\ pool'[i] = pool[i] /\ i # Len(pool)
          /\ \A i \in DOMAIN pool : i \in DOMAIN pool' \/ i = Len(pool)
          /\ Len(pool) \in DOMAIN pool
          /\ pool[Len(pool)] \in Handle
      BY <1>1, <2>1, PopFacts, SMTT(30)
    <2>3. OneOwner'
      BY <1>1, <2>1, <2>2 DEF OneOwner
    <2>4. NoHandleLost'
      BY <1>1, <2>1, <2>2 DEF NoHandleLost
    <2> QED
      BY <2>3, <2>4
  <1>3. ASSUME NEW t \in Thread, ReturnHandle(t)
        PROVE  OneOwner' /\ NoHandleLost'
    <2>1. /\ held[t] \in Handle
          /\ held' = [held EXCEPT ![t] = NoHandle]
          /\ pool' = Append(pool, held[t])
      BY <1>1, <1>3 DEF ReturnHandle, HoldState
    <2>2. /\ DOMAIN pool = 1 .. Len(pool)
          /\ DOMAIN pool' = 1 .. Len(pool) + 1
          /\ \A i \in DOMAIN pool : i \in DOMAIN pool' /\ pool'[i] = pool[i]
          /\ \A i \in DOMAIN pool' : i \in DOMAIN pool \/ i = Len(pool) + 1
          /\ Len(pool) + 1 \in DOMAIN pool'
          /\ pool'[Len(pool) + 1] = held[t]
          /\ \A i \in DOMAIN pool : pool[i] \in Handle
      BY <1>1, <2>1, PushFacts
    <2>3. OneOwner'
      BY <1>1, <2>1, <2>2 DEF OneOwner
    <2>4. NoHandleLost'
      BY <1>1, <2>1, <2>2 DEF NoHandleLost
    <2> QED
      BY <2>3, <2>4
  <1>4. CASE \A t \in Thread : ~GetHandle(t) /\ ~ReturnHandle(t)
    BY <1>4, PoolAlone DEF OneOwner, NoHandleLost
  <1> QED
    BY <1>2, <1>3, <1>4

\* Threads that stir are counted: one more, one less.
LEMMA StirringFinite ==
    ASSUME NEW S \in SUBSET Thread
    PROVE  IsFiniteSet(S) /\ Cardinality(S) \in Nat
  BY FiniteAssumption, FS_Subset, FS_CardinalityType

LEMMA MoreStirring ==
    ASSUME NEW S \in SUBSET Thread, NEW T \in SUBSET Thread, S \subseteq T
    PROVE  Cardinality(S) <= Cardinality(T)
  BY StirringFinite, FS_Subset

\* No step loses a wakeup: a handle put back adds the thread that will notify,
\* a notification replaces that thread by a waiter, and a thread that goes to
\* wait has found the stack empty.
LEMMA WakeStep ==
    ASSUME TypeOK, HoldState, NoLostWakeup, [Next]_vars
    PROVE  NoLostWakeup'
  <1>1. pc \in [Thread -> PC] /\ pool \in Seq(Handle)
    BY DEF TypeOK
  <1>2. Stirring \in SUBSET Thread /\ Stirring' \in SUBSET Thread
    BY DEF Stirring
  <1>3. Len(pool) \in Nat /\ Cardinality(Stirring) \in Nat /\ Cardinality(Stirring') \in Nat
    BY <1>1, <1>2, StirringFinite
  <1>4. SUFFICES ASSUME Waiting' # {} PROVE Len(pool') <= Cardinality(Stirring')
    BY DEF NoLostWakeup
  \* No handle is put back, nobody stops stirring, and somebody waited before.
  <1>5. ASSUME UNCHANGED pool, Stirring \subseteq Stirring', Waiting # {}
        PROVE  Len(pool') <= Cardinality(Stirring')
    <2>1. Cardinality(Stirring) <= Cardinality(Stirring')
      BY <1>2, <1>5, MoreStirring
    <2> QED
      BY <1>3, <1>5, <2>1 DEF NoLostWakeup
  <1>6. CASE UNCHANGED vars \/ Rest
    <2>1. UNCHANGED <<pool, pc>>
      BY <1>6 DEF Rest, vars, poolVars
    <2> QED
      BY <1>4, <1>5, <2>1 DEF Stirring, Waiting
  <1>7. ASSUME NEW t \in Thread, NEW o \in Op, Start(t, o)
        PROVE  Len(pool') <= Cardinality(Stirring')
    <2>1. UNCHANGED pool /\ pc[t] = "idle" /\ pc' = [pc EXCEPT ![t] = "lock"]
      BY <1>7 DEF Start, Goto, poolVars
    <2> QED
      BY <1>1, <1>4, <1>5, <2>1 DEF Stirring, Waiting
  <1>8. ASSUME NEW t \in Thread, LockShared(t) \/ LockUnique(t) \/ SpuriousWakeup(t)
        PROVE  Len(pool') <= Cardinality(Stirring')
    <2>1. UNCHANGED pool /\ pc[t] \in {"lock", "wait"} /\ pc' = [pc EXCEPT ![t] = "get"]
      BY <1>8 DEF LockShared, LockUnique, SpuriousWakeup, Goto, poolVars
    <2> QED
      BY <1>1, <1>4, <1>5, <2>1 DEF Stirring, Waiting
  <1>9. ASSUME NEW t \in Thread, Seek(t) \/ Fread(t) \/ Fwrite(t) \/ Unlock(t)
        PROVE  Len(pool') <= Cardinality(Stirring')
    <2>1. /\ UNCHANGED pool
          /\ pc[t] \in {"seek", "io", "unlock"}
          /\ \E l \in {"io", "return", "idle"} : pc' = [pc EXCEPT ![t] = l]
      BY <1>9 DEF Seek, Fread, Fwrite, Unlock, Goto, poolVars
    <2> QED
      BY <1>1, <1>4, <1>5, <2>1 DEF Stirring, Waiting
  <1>10. ASSUME NEW t \in Thread, Wait(t)
         PROVE  Len(pool') <= Cardinality(Stirring')
    <2>1. Len(pool') = 0
      BY <1>10 DEF Wait, poolVars
    <2> QED
      BY <1>3, <2>1
  <1>11. ASSUME NEW t \in Thread, GetHandle(t)
         PROVE  Len(pool') <= Cardinality(Stirring')
    <2>1. /\ pc[t] = "get"
          /\ pc' = [pc EXCEPT ![t] = "seek"]
          /\ Len(pool') = Len(pool) - 1
      BY <1>1, <1>11, PopFacts DEF GetHandle, Goto
    <2>2. Waiting # {}
      BY <1>1, <1>4, <2>1 DEF Waiting
    <2>3. t \in Stirring /\ Stirring' = Stirring \ {t}
      BY <1>1, <2>1 DEF Stirring
    <2>4. Cardinality(Stirring') = Cardinality(Stirring) - 1
      BY <1>2, <2>3, StirringFinite, FS_RemoveElement
    <2> QED
      BY <1>3, <2>1, <2>2, <2>4 DEF NoLostWakeup
  <1>12. ASSUME NEW t \in Thread, ReturnHandle(t)
         PROVE  Len(pool') <= Cardinality(Stirring')
    <2>1. held[t] \in Handle
      BY <1>12 DEF ReturnHandle, HoldState, TypeOK
    <2>2. /\ pc[t] = "return"
          /\ pc' = [pc EXCEPT ![t] = "notify"]
          /\ Len(pool') = Len(pool) + 1
      BY <1>1, <1>12, <2>1, PushFacts DEF ReturnHandle, Goto
    <2>3. Waiting # {}
      BY <1>1, <1>4, <2>2 DEF Waiting
    <2>4. t \notin Stirring /\ Stirring' = Stirring \cup {t}
      BY <1>1, <2>2 DEF Stirring
    <2>5. Cardinality(Stirring') = Cardinality(Stirring) + 1
      BY <1>2, <2>4, StirringFinite, FS_AddElement
    <2> QED
      BY <1>3, <2>2, <2>3, <2>5 DEF NoLostWakeup
  <1>13. ASSUME NEW t \in Thread, NotifyOne(t)
         PROVE  Len(pool') <= Cardinality(Stirring')
    <2>1. pc[t] = "notify" /\ UNCHANGED pool /\ Resume(t) \in {"get", "unlock"}
      BY <1>13 DEF NotifyOne, Resume, poolVars
    <2>2. Waiting # {}
      BY <1>1, <1>4, <1>13, <2>1 DEF NotifyOne, Goto, Waiting
    <2>3. PICK w \in Waiting : pc' = [pc EXCEPT ![t] = Resume(t), ![w] = "get"]
      BY <1>13, <2>2 DEF NotifyOne
    <2>4. w \in Thread /\ w # t /\ w \notin Stirring /\ t \in Stirring
      BY <2>1 DEF Waiting, Stirring
    <2>5. (Stirring \ {t}) \cup {w} \subseteq Stirring'
      BY <1>1, <2>1, <2>3, <2>4 DEF Stirring
    <2> DEFINE rest == Stirring \ {t}
    <2>6. rest \in SUBSET Thread /\ w \notin rest
      BY <1>2, <2>4
    <2>7. Cardinality(rest) = Cardinality(Stirring) - 1
      BY <1>2, <2>4, StirringFinite, FS_RemoveElement
    <2>8. Cardinality(rest \cup {w}) = Cardinality(rest) + 1
      BY <2>6, StirringFinite, FS_AddElement
    <2> HIDE DEF rest
    <2>9. Cardinality(rest \cup {w}) <= Cardinality(Stirring')
      BY <1>2, <2>4, <2>5, <2>6, MoreStirring DEF rest
    <2> QED
      BY <1>3, <2>1, <2>2, <2>7, <2>8, <2>9 DEF NoLostWakeup
  <1> QED
    BY <1>6, <1>7, <1>8, <1>9, <1>10, <1>11, <1>12, <1>13 DEF Next, Serve

----------------------------------------------------------------------------
(* One client alone *)

\* The stream's buffer holds the last version of its cell, and the file holds that of
\* every cell but the one that the stream has not written yet.
Coherent(h) ==
    /\ buffer[h].dirty => buffer[h].cell \in Cell
    /\ \A c \in Cell : /\ buffer[h].cell = c => buffer[h].version = truth[c]
                       /\ ~(buffer[h].cell = c /\ buffer[h].dirty) => file[c] = truth[c]

\* The stream that t uses, or will take next.
Stream(t) == IF held[t] = NoHandle THEN Last(pool) ELSE held[t]

\* Nobody but t has a request, its stream is coherent, and what it has just read is
\* the last version.  The other streams were never used.
OneClient(t) ==
    /\ \A u \in Thread \ {t} : pc[u] = "idle" /\ left[u] = 0
    /\ held[t] # NoHandle \/ pool # <<>> => Coherent(Stream(t))
    /\ pc[t] = "io" => ~buffer[held[t]].dirty
    /\ pc[t] = "return" /\ ~Current(t).write => result[t] = truth[Current(t).cell]

AloneInv == alone => \E t \in Thread : OneClient(t)

\* A coherent stream after fseek: the file holds the last version of every cell.
LEMMA SeekCoherent ==
    ASSUME TypeOK, NEW h \in Handle, Coherent(h),
           file' = IF buffer[h].dirty THEN [file EXCEPT ![buffer[h].cell] = buffer[h].version] ELSE file,
           buffer' = [buffer EXCEPT ![h] = [cell |-> buffer[h].cell, version |-> buffer[h].version, dirty |-> FALSE]],
           UNCHANGED truth
    PROVE  Coherent(h)' /\ ~buffer'[h].dirty
  <1>1. buffer'[h] = [cell |-> buffer[h].cell, version |-> buffer[h].version, dirty |-> FALSE]
    BY DEF TypeOK
  <1>2. \A c \in Cell : file'[c] = truth[c]
    BY DEF TypeOK, Coherent
  <1> QED
    BY <1>1, <1>2 DEF Coherent

\* Only the thread that has requests takes a step.
LEMMA OthersRest ==
    ASSUME TypeOK, NEW t \in Thread, OneClient(t), NEW u \in Thread \ {t}
    PROVE  /\ ~Serve(u) /\ ~SpuriousWakeup(u)
           /\ \A o \in Op : ~Start(u, o)
  <1>1. pc[u] = "idle" /\ left[u] = 0
    BY DEF OneClient
  <1>2. ~LockShared(u) /\ ~LockUnique(u) /\ ~GetHandle(u) /\ ~Wait(u) /\ ~Seek(u)
    BY <1>1 DEF LockShared, LockUnique, GetHandle, Wait, Seek
  <1>3. ~Fread(u) /\ ~Fwrite(u) /\ ~ReturnHandle(u) /\ ~NotifyOne(u) /\ ~Unlock(u)
    BY <1>1 DEF Fread, Fwrite, ReturnHandle, NotifyOne, Unlock
  <1>4. ~SpuriousWakeup(u) /\ \A o \in Op : ~Start(u, o)
    BY <1>1 DEF SpuriousWakeup, Start
  <1> QED
    BY <1>2, <1>3, <1>4 DEF Serve

\* The client keeps its stream, and its stream stays coherent: the handle it puts back
\* is the one it takes next.
LEMMA AloneStep ==
    ASSUME TypeOK, HoldState, NEW t \in Thread, OneClient(t), [Next]_vars
    PROVE  OneClient(t)'
  <1>1. /\ pc \in [Thread -> PC] /\ held \in [Thread -> Handle \cup {NoHandle}]
        /\ left \in [Thread -> Nat] /\ pool \in Seq(Handle)
        /\ result \in [Thread -> Nat]
    BY DEF TypeOK
  <1>2. \A u \in Thread \ {t} : pc[u] = "idle" /\ left[u] = 0
    BY DEF OneClient
  <1>3. held[t] # NoHandle => held[t] \in Handle /\ Coherent(held[t])
    BY <1>1 DEF OneClient, Stream
  <1>4. CASE UNCHANGED vars \/ Rest
    BY <1>4 DEF Rest, vars, lockVars, poolVars, dataVars, OneClient, Coherent, Stream, Current
  \* Steps that neither take, use nor put back a handle.
  <1>5. ASSUME UNCHANGED <<poolVars, dataVars>>,
               \A u \in Thread \ {t} : pc'[u] = pc[u] /\ left'[u] = left[u],
               pc'[t] \notin {"io", "return"}
        PROVE  OneClient(t)'
    BY <1>5 DEF poolVars, dataVars, OneClient, Coherent, Stream
  <1>6. ASSUME NEW o \in Op, Start(t, o)
        PROVE  OneClient(t)'
    BY <1>1, <1>5, <1>6 DEF Start, Goto
  <1>7. ASSUME LockShared(t) \/ LockUnique(t) \/ Wait(t) \/ SpuriousWakeup(t) \/ Unlock(t)
        PROVE  OneClient(t)'
    BY <1>1, <1>5, <1>7 DEF LockShared, LockUnique, Wait, SpuriousWakeup, Unlock, Goto
  <1>8. ASSUME NotifyOne(t)
        PROVE  OneClient(t)'
    <2>1. Waiting = {}
      BY <1>2, <1>8 DEF Waiting, NotifyOne
    <2> QED
      BY <1>1, <1>5, <1>8, <2>1 DEF NotifyOne, Goto, Resume
  <1>9. ASSUME GetHandle(t)
        PROVE  OneClient(t)'
    <2>1. /\ pool # <<>> /\ held[t] = NoHandle
          /\ held'[t] = Last(pool) /\ Last(pool) \in Handle
          /\ pc' = [pc EXCEPT ![t] = "seek"]
          /\ UNCHANGED <<left, file, buffer, result, truth>>
      BY <1>1, <1>9, PopFacts DEF GetHandle, Goto, HoldState, dataVars
    <2>2. Coherent(Last(pool)) /\ held'[t] # NoHandle
      BY <2>1 DEF OneClient, Stream
    <2> QED
      BY <1>1, <1>2, <2>1, <2>2 DEF OneClient, Stream, Coherent
  <1>10. ASSUME ReturnHandle(t)
         PROVE  OneClient(t)'
    <2>1. /\ held[t] \in Handle
          /\ held'[t] = NoHandle /\ pool' = Append(pool, held[t])
          /\ pc' = [pc EXCEPT ![t] = "notify"]
          /\ UNCHANGED <<left, file, buffer, result, truth>>
      BY <1>1, <1>10 DEF ReturnHandle, Goto, HoldState, dataVars
    <2>2. Last(pool') = held[t]
      BY <1>1, <2>1, PushFacts DEF Last
    <2> QED
      BY <1>1, <1>2, <1>3, <2>1, <2>2 DEF OneClient, Stream, Coherent
  <1>11. ASSUME Seek(t)
         PROVE  OneClient(t)'
    <2>1. /\ held[t] \in Handle
          /\ held[t] # NoHandle
          /\ pc' = [pc EXCEPT ![t] = "io"]
          /\ UNCHANGED <<left, held>>
      BY <1>1, <1>11 DEF Seek, Goto, HoldState, poolVars
    <2>2. Coherent(held[t])' /\ ~buffer'[held[t]].dirty
      <3> DEFINE h == held[t]
      <3>1. /\ file' = IF buffer[h].dirty THEN [file EXCEPT ![buffer[h].cell] = buffer[h].version] ELSE file
            /\ buffer' = [buffer EXCEPT ![h] = [cell |-> buffer[h].cell, version |-> buffer[h].version, dirty |-> FALSE]]
            /\ UNCHANGED <<truth, held>>
        BY <1>11 DEF Seek, poolVars
      <3>2. h \in Handle /\ Coherent(h) /\ h' = h
        BY <1>3, <2>1
      <3> HIDE DEF h
      <3>3. \A g \in Handle : g = h => Coherent(g)' /\ ~buffer'[g].dirty
        BY <3>1, <3>2, SeekCoherent
      <3> QED
        BY <2>1, <3>2, <3>3 DEF h, Coherent
    <2> QED
      BY <1>1, <1>2, <2>1, <2>2 DEF OneClient, Stream
  <1>12. ASSUME pc[t] = "io"
         PROVE  /\ held[t] \in Handle /\ held[t] # NoHandle
                /\ Current(t).cell \in Cell
                /\ ~buffer[held[t]].dirty
                /\ \A c \in Cell : file[c] = truth[c]
    BY <1>1, <1>3, <1>12, CallsType, SMTT(30) DEF HoldState, Current, TypeOK, OneClient, Coherent
  <1>13. ASSUME Fread(t)
         PROVE  OneClient(t)'
    <2> DEFINE c == Current(t).cell
               b == buffer[held[t]]
               v == IF b.cell = c THEN b.version ELSE file[c]
    <2>1. /\ result' = [result EXCEPT ![t] = v]
          /\ buffer' = [buffer EXCEPT ![held[t]] = [cell |-> c, version |-> v, dirty |-> FALSE]]
          /\ pc' = [pc EXCEPT ![t] = "return"]
          /\ pc[t] = "io"
          /\ UNCHANGED <<op, call, left, held, file, truth>>
      BY <1>13 DEF Fread, Goto, poolVars
    <2>2. v = truth[c]
      BY <1>3, <1>12, <2>1 DEF Coherent
    <2>3. buffer'[held[t]] = [cell |-> c, version |-> v, dirty |-> FALSE]
      BY <1>12, <2>1 DEF TypeOK
    <2>4. Current(t)' = Current(t)
      BY <2>1 DEF Current
    <2> HIDE DEF c, v
    <2>5. Coherent(held[t])'
      BY <1>12, <2>1, <2>2, <2>3 DEF Coherent
    <2>6. result'[t] = truth'[Current(t)'.cell]
      BY <1>1, <2>1, <2>2, <2>4 DEF c
    <2> QED
      BY <1>1, <1>2, <1>12, <2>1, <2>5, <2>6 DEF OneClient, Stream
  <1>14. ASSUME Fwrite(t)
         PROVE  OneClient(t)'
    <2> DEFINE c == Current(t).cell
               v == truth[c] + 1
    <2>1. PICK through \in BOOLEAN :
            /\ buffer' = [buffer EXCEPT ![held[t]] =
                            [cell |-> c, version |-> v, dirty |-> ~through]]
            /\ file' = IF through THEN [file EXCEPT ![c] = v] ELSE file
      BY <1>14 DEF Fwrite
    <2>2. /\ truth' = [truth EXCEPT ![c] = v]
          /\ pc' = [pc EXCEPT ![t] = "return"]
          /\ pc[t] = "io" /\ Current(t).write
          /\ UNCHANGED <<op, call, left, held>>
      BY <1>14 DEF Fwrite, Goto, poolVars
    <2>3. Current(t)' = Current(t)
      BY <2>2 DEF Current
    <2> HIDE DEF c, v
    <2>4. c \in Cell /\ held[t] \in Handle
      BY <1>12, <2>2 DEF c
    <2>5. \/ /\ buffer' = [buffer EXCEPT ![held[t]] = [cell |-> c, version |-> v, dirty |-> TRUE]]
             /\ file' = file
          \/ /\ buffer' = [buffer EXCEPT ![held[t]] = [cell |-> c, version |-> v, dirty |-> FALSE]]
             /\ file' = [file EXCEPT ![c] = v]
      <3>1. CASE through = TRUE
        BY <2>1, <3>1
      <3>2. CASE through = FALSE
        BY <2>1, <3>2
      <3> QED
        BY <3>1, <3>2
    <2>6. /\ held'[t] = held[t]
          /\ buffer'[held[t]].cell = c
          /\ buffer'[held[t]].version = v
          /\ buffer'[held[t]].dirty \/ file'[c] = v
      BY <2>2, <2>4, <2>5 DEF TypeOK
    <2>7. /\ truth'[c] = v
          /\ \A d \in Cell \ {c} : truth'[d] = truth[d] /\ file'[d] = truth[d]
      BY <1>12, <2>2, <2>4, <2>5 DEF TypeOK
    <2>8. Coherent(held[t])'
      BY <2>4, <2>6, <2>7 DEF Coherent
    <2> QED
      BY <1>1, <1>2, <1>12, <2>2, <2>3, <2>8 DEF OneClient, Stream
  <1> QED
    BY <1>4, <1>6, <1>7, <1>8, <1>9, <1>10, <1>11, <1>13, <1>14, OthersRest DEF Next, Serve

\* With one thread that has requests, every stream is as new.
LEMMA AloneInit == MCInit => AloneInv
  <1> SUFFICES ASSUME MCInit, alone
               PROVE  \E t \in Thread : OneClient(t)
    BY DEF AloneInv
  <1> DEFINE S == {u \in Thread : left[u] > 0}
  <1>1. IsFiniteSet(S) /\ Cardinality(S) = 1
    BY StirringFinite DEF MCInit
  <1>2. PICK t : S = {t}
    BY <1>1, FS_Singleton
  <1>3. t \in Thread /\ \A u \in Thread \ {t} : left[u] = 0
    <2>1. left \in [Thread -> 0 .. MaxOps]
      BY DEF MCInit, Init
    <2> QED
      BY <1>2, <2>1
  <1>4. \A h \in Handle : Coherent(h)
    BY DEF MCInit, Init, Coherent, Cell
  <1>5. pool # <<>> => Last(pool) \in Handle
    BY InitHolds, PopFacts DEF MCInit, IInv, TypeOK
  <1>6. OneClient(t)
    BY <1>3, <1>4, <1>5 DEF OneClient, Stream, MCInit, Init
  <1> QED
    BY <1>3, <1>6

----------------------------------------------------------------------------
(* The theorems *)

\* The conjunction of the invariants is inductive: it holds in every state of
\* the store, whatever the threads, the handles and the requests.
THEOREM StoreInvariant == Spec => []IInv
  <1>1. Init => IInv
    BY InitHolds
  <1>2. IInv /\ [Next]_vars => IInv'
    BY TypeStep, LockStep, HoldStep, OwnStep, WakeStep DEF IInv
  <1> QED
    BY <1>1, <1>2, PTL DEF Spec

\* The variables of the locking and pooling code keep their types.
THEOREM StoreTypeOK == Spec => []TypeOK
  <1>1. IInv => TypeOK
    BY DEF IInv
  <1> QED
    BY <1>1, StoreInvariant, PTL

\* BPlusTreeStore.cpp: a SET or DEL inside the store is there alone.
THEOREM WritersExclude == Spec => []WriterAlone
  <1>1. IInv => WriterAlone
    BY LockExcludes DEF IInv
  <1> QED
    BY <1>1, StoreInvariant, PTL

\* getpFile and returnpFile: a stream is in the stack once or in one hand.
THEOREM StreamsExclusive == Spec => []OneOwner
  <1>1. IInv => OneOwner
    BY DEF IInv
  <1> QED
    BY <1>1, StoreInvariant, PTL

\* getpFile and returnpFile: every stream stays in the stack or in a hand.
THEOREM HandlesKept == Spec => []NoHandleLost
  <1>1. IInv => NoHandleLost
    BY DEF IInv
  <1> QED
    BY <1>1, StoreInvariant, PTL

\* getpFile and returnpFile: notifying one waiter after the mutex is released
\* never leaves a handle in the stack that nobody is coming for while others
\* wait.
THEOREM WakeupsKept == Spec => []NoLostWakeup
  <1>1. IInv => NoLostWakeup
    BY DEF IInv
  <1> QED
    BY <1>1, StoreInvariant, PTL

\* fileUtils.cpp: a stack gives a client that is alone the stream it used before, so
\* what it reads is what was last written, although nothing is flushed between its
\* requests.
THEOREM AloneReadsFresh == MCSpec => []FreshReadsAlone
  <1>1. MCInit => IInv /\ AloneInv
    BY InitHolds, AloneInit DEF MCInit
  <1>2. IInv /\ [MCNext]_<<vars, alone>> => IInv'
    <2>1. [MCNext]_<<vars, alone>> => [Next]_vars
      BY DEF MCNext
    <2> QED
      BY <2>1, TypeStep, LockStep, HoldStep, OwnStep, WakeStep DEF IInv
  <1>3. IInv /\ AloneInv /\ [MCNext]_<<vars, alone>> => AloneInv'
    <2>1. [MCNext]_<<vars, alone>> => [Next]_vars /\ UNCHANGED alone
      BY DEF MCNext
    <2> QED
      BY <2>1, AloneStep DEF IInv, AloneInv
  <1>4. AloneInv => FreshReadsAlone
    BY DEF AloneInv, OneClient, FreshReadsAlone, FreshReads
  <1> QED
    BY <1>1, <1>2, <1>3, <1>4, PTL DEF MCSpec
=============================================================================
