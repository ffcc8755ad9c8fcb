# GodBee: a TLA+ model of the storage service

GodBee is a key-value service: Go handlers over gRPC in front of two C++ storage
engines on disk, a B+ tree and a B-tree. This directory holds TLA+ modules that
model it, TLC configurations that check them on small instances, and proofs
that TLAPS checks for every instance. `PROJECT.json` lists the components, the
runs, the source lines behind each definition, the mutants that show that each
property can fail, the hazards and the theorems.

## The system

| Part | State | Operations | Works with |
|---|---|---|---|
| `service/service.go` | none | Connect, Disconnect, Get, Set, Remove, Exist, each on a goroutine of its own | sessions, stores |
| `serverUtils` | session map from the peer's port to an engine, one mutex | GetStore, UpdateMap, GetSessionStoreType, DelSessionStoreType | handlers |
| `cmd/server` | the process | start, shutdown on a signal | stores |
| `bpluststore.go`, `GBPlusTreeStore.cpp` | one instance | Get, Set, Remove, Exist, Free | `BPlusTreeStore` |
| `BPlusTreeStore.cpp` | `shared_mutex` | get and exist take it shared, set and remove exclusively | `BPlusTree` |
| `BPlusTree.cpp` | root node in memory, header page | set, get, exist, remove; opens and creates the file | nodes, file |
| `BPlusTreeNode.cpp` | one page on file per node | insert with splits, remove with borrows and merges | file |
| `fileUtils.cpp` | the file, a stack of 8 `FILE*` with a condition variable, `emptyValueNode` | read, write and allocate pages and values | free lists |
| `DelNodeList.cpp` | a stack of offsets, in memory and on file | push, pop | file utilities |
| `btree/*` | a B-tree with files, free lists and a handle pool of its own | the same operations | `bstore.go` |

What makes it hard, and what correct means:

- **Rebalancing.** A DEL may change a leaf, its sibling, its father, and then
  the father's sibling and father, and at last the root. Correct: keys stay in
  search order, the tree stays balanced, and the store stays a map.
- **Space.** Pages and value slots are recycled through two free lists. Correct:
  none is lost, none is used twice.
- **Restart.** What a new process knows is what the header page, the node pages
  and the free lists say. Correct: it finds the same map.
- **Concurrency.** Readers run together, share eight stdio streams on one file
  and wait for one when there are more than eight. Correct: a writer is alone, a
  stream has one user, nobody waits for ever, and a read sees the last write.
- **Sessions and shutdown.** Handlers interleave with Connect, Disconnect and
  the signal handler that frees the stores.

## Modules

| Module | Models |
|---|---|
| `KVMap` | what an engine promises (`GStore`): a map with SET and DEL |
| `BPlusFile`, `BPlusNode`, `BPlusTree` | `fileUtils.cpp` with `DelNodeList.cpp`, `BPlusTreeNode.cpp`, `BPlusTree.cpp`: the B+ tree used by one client at a time, with restarts; implements `KVMap` and `ValueAlloc` |
| `ValueAlloc` | the allocation of value slots of the B+ tree, without the tree |
| `FreeList` | one list of `DelNodeList.cpp` on its file, with crashes |
| `KeySearch` | the binary searches of the B+ tree's `utils.cpp`, iteration by iteration |
| `PageLayout` | how sizes, degree and offsets of the B+ tree's file are computed |
| `NodePage` | how a node is packed into its page and read back, buffer by buffer |
| `BPlusStore` | `BPlusTreeStore.cpp` and the handle stack: threads, the shared mutex, the streams and their buffers |
| `BTreeFile`, `BTreeNode`, `BTree` | `DataFileIO.cpp`, `BTreeNode.cpp`, `BTree.cpp`: the B-tree used by one client at a time, with restarts |
| `BTreeStore` | `KeyValueStore.cpp` and `FileManager.cpp`: threads, the shared mutex, the pool of handles and the early returns that keep one |
| `Sessions` | what the service promises a party, with any number of its requests pending |
| `Service` | `service.go` and `serverUtils`: handlers, the session map, connections |
| `ServiceHistory` | `Service` with a record of the sessions that each request has seen; implements `Sessions` |
| `BPlusPartsProofs` | the proofs about `ValueAlloc`, `FreeList`, `KeySearch` and `PageLayout` |
| `BPlusNodeProofs`, `BPlusRemovalProofs`, `BPlusTreeProofs` | the proofs about `BPlusNode` (insertion, removal) and `BPlusTree` |
| `NodePageProofs`, `BPlusStoreProofs`, `BTreeStoreProofs`, `ServiceProofs` | the proofs about the module of that name (`ServiceHistory` included) |
| `MCBPlusTree`, `MCBPlusStore`, `MCBPlusParts`, `MCBTree`, `MCService`, `MCServiceHistory` | what TLC needs: plans that build large trees, loads of threads, the parts below the B+ tree side by side, a record of who has sent CONNECT, symmetry |

### How state and actions correspond to the code

**The B+ tree.** `BPlusFile` has one operator for each function of
`fileUtils.cpp`. It takes the file as a record (`pages`, `node`, `value`,
`delNodePages`, `delValues`, `emptyValueNode`) and returns the file after the
call. An offset is the number of the page and the index of a value in it, as in
`MetaData`; `ValuesPerPage` stands for the power of two that `bSizeOfValueIdx`
gives (4 in `.configBPlus`). A node's page holds the node: flag, keys and
childs. A leaf's last child is the next leaf's offset, as in the code.

`BPlusNode` has one operator for each member function of `BPlusTreeNode`, with
the same name. `internalInsert` and `internalRemove` recurse: on the way down
they only read, so each is a fold over the descent from the leaf up. Where the
code changes its argument `father`, the operator returns it, and where a node is
flushed the operator writes the page, in the code's order. Small operators that
take the result of a call as their argument (`splitLeaf`, `removeAfter`,
`returnAfter`) are the second halves of the function they are named after.

`BPlusTree` has the actions `Set`, `Del` and `Restart`. `root` is the node kept
in memory and `header` is the header page on file, two copies that the code
keeps in step by hand. `Get` and `Exist` are state functions. `Restart` is a
clean shutdown and a new start: the destructors do not write the header, so
`emptyValueNode` becomes what the last root change wrote. `last` records the
last update with its reply, for `KVMap`; `stale` records whether a restart found
the header behind.

**Below the B+ tree.** What `BPlusFile` and `BPlusNode` take for granted is
modelled by itself. `KeySearch` has one action for each way an iteration can go
and one for the return after the loop; `larger` tells the two functions apart.
`FreeList` splits `push` where the stream is used a second time and has the
destructor with the next constructor (`Reopen`) and the death of the process
(`Crash`) as actions. `PageLayout` has the loop of `calculateMaxDegree`, the
fallback of `BPlusTree`'s constructor to the default sizes, and then the
arithmetic of `getNextFreeOffset` and `calculateNextEmtyValueNode` on bytes,
16 bits wide where the code is, for any sizes of key, value and page; `spilled`
records that a slot was handed out that its page has no room for. `NodePage` has `writeNodePageToFile`, field by
field, and `getBNodeFromFile`, with one action for each way through its `switch`;
a byte is the field it belongs to and its place there.

**The B+ tree store.** `BPlusStore` forgets the tree. A request is the list of
file calls of one of GET, EXIST, SET of a new or an old key, and DEL, on the
root, a leaf and a value; a cell holds a version. A thread goes `idle`, `lock`,
then for each call `get` (perhaps `wait`), `seek`, `io`, `return`, `notify`, and
at last `unlock`. A stream buffers one cell: `fseek` writes what is unwritten
and keeps the buffer, `fread` uses the buffer if it holds the cell, `fwrite` may
leave its data in the buffer or write through. These three model the C library
as glibc behaves, and are marked external.

**The B-tree.** `BTreeFile` takes the database file and the positions handed out
as one record. The length of the file is counted in cells of one value, because
a value written past the end may leave the file ending inside a page, and
`EndPage` rounds down as `updateNextPosNode` does. `updateValueAt` appends when
the index is 0 and the value is new, as the code does, whatever the position
says. `BTreeNode` has one operator for each member function; SET splits on the
way down (`roomInChild`, `splitChild`, `halved`) and DEL fills on the way down
(`filled`, `fillNode`, the borrows, `mergeNodes`), and each writes its pages in
the code's order. `BTree` has `Set`, `Del` and `Restart`; `rootPos`, what the
header will say, is a variable besides `root`, because the code changes it
separately. A restart that finds another page than the root's on `rootPos` sets
`lost`, and what the store does after that is not modelled.

**The B-tree store.** `BTreeStore` keeps of the tree whether it is empty, which
decides between `Work` and `EarlyReturn`. Here a request has one handle for all
it does. `kept` is a variable of the model: the handles that no variable of the
program refers to any more.

**Sessions.** A handler of `Service` goes from `begin` to its answer in one
critical section of the map's mutex (`Connect`, and refusals) or in two steps:
`GetSessionStoreType` and `DelSessionStoreType`, `GetStore` and `CallStore`.
Connections open with some port (`Open`), ask, and may vanish at any time
(`HangUp`), which the handlers do not learn. Nothing keeps a connection from
asking while it has requests under way: gRPC multiplexes a connection, and the
workers of `benchmark/boomer.go` share one client. Nor are ports distinct: two
hosts may use the same, and a port is given out again. What a handler does after
its last critical section, or after its store has answered, touches nothing that
others see, so its answer is in the same step. `GetConnID`'s error is left out,
since gRPC always puts a peer into the context.

`Sessions` has one session for a *party*, which is a port here, since `GetConnID`
keeps nothing else of the peer. A pending request collects in `seen` the sessions
that its party has had since it was asked; it may be answered from any of them, and
no more can be promised of a lookup that is followed by a call without the mutex.
`ServiceHistory` records the same in a history variable, for the refinement.

Definitions under a comment that begins with "Fault" are the mutated forms of
the definition that follows: plausible mistakes in that code that a property
must notice. No specification uses them.

## What the runs check

| Run | Instance | Shows |
|---|---|---|
| `bplus` | 10 keys, maxDegree 2, up to 2 restarts | `SearchTree` (order and balance), pages and slots accounted for, the root in memory and on file the same, a map until a restart finds the header behind, a key set always, an allocator as `ValueAlloc` says |
| `bplus_degree3` | 16 keys, 2 values, maxDegree 3, 4 value slots to a page | `SearchTree`, `SlotsAccountedUnlessStale`, `IsMap` |
| `bplus_restart_map` | 7 keys, 2 values, 1 restart | **violated**: `IsMap` across a restart |
| `bplus_parts` | see Bounds | searches, free list, slot allocation, sizes and offsets, node pages |
| `store_pool` | 3 threads with a request each, or 1 with 4; 2 handles; fair | `WriterAlone`, `OneOwner`, `NoHandleLost`, `NoLostWakeup`, `FreshReadsAlone`, `EveryRequestAnswered` |
| `store_fresh` | 2 threads, 2 handles, 3 requests each | **violated**: `FreshReads` |
| `btree` | 10 keys, T 2, up to 2 restarts | `SearchTree` (order and balance), pages accounted for, a key set unless a restart opens another page than the root's, a map while only new keys are SET, new keys read back |
| `btree_others` | 5 keys, 2 values, SET and DEL | **violated**: `OthersKept` |
| `btree_pool` | 3 threads, 2 handles, 2 requests each, fair | `WriterAlone`, `HandlesAccounted`, `NoLostWakeup`, `StuckOnlyByKeeping`, `AnsweredWhileHandles` |
| `btree_leak` | 2 threads, 2 handles, fair | **violated**: `EveryRequestAnswered` |
| `session` | 2 connections, 2 ports, 2 handlers, overlapping requests and equal ports included | `IsSessions`, `SessionIsOwn` |
| `session_ports` | the same, with a record of who has sent CONNECT | **violated**: `NotConnectedRefused` |

`IsMap` is the refinement of `KVMap`, with `kv` the function that GET computes
for every key in every state: whatever an operation does to the tree, it binds
or unbinds its own key, reports rightly whether it was there, and changes what
no other key is bound to. `IsMapUnlessStale`, `IsMapGrowing` and `IsKeySet...`
are this refinement under a condition, or for EXIST in place of GET.
`AllocatesRestarted` is the refinement of `ValueAlloc`, through which the
theorems about slots speak of the tree. `IsSessions` is the refinement of
`Sessions`: GET, SET, DEL and EXIST are answered by a store that was the session
of their port at some moment of the request, refusals need a moment without one,
and a CLOSE answered with OK leaves none behind. `SessionIsOwn` comes back to
connections: where no other has its port, a connection starts without a session
and only its own CONNECT and CLOSE change it.

### Bounds

*Trees.* With `maxDegree` or `T` 2, the least the code accepts, nodes have one to
three keys, so that four keys already give splits, borrows, merges and root
changes. The scripts store one value under odd keys and another under even ones, so
that neighbours differ and a key bound to another's slot shows. Three levels need more keys than TLC can move freely, so a behaviour
follows a plan: first a script (leaning left or right; all leaves at their
minimum; a full root; grown and emptied), then free requests. In `bplus` three or
four keys then come and go without bound; in `btree`, whose file grows without
end, four or five free requests follow. Together the plans take every branch
of the splits, borrows and merges on leaves and on inner nodes, root growth and
shrinking. `maxDegree` 3 separates the thresholds that coincide at 2. `MaxPages`
is above any file reached; `MaxRestarts` 2 lets a stale header be made and used
again. Two values to a page make every other value the last of its page.

*Parts.* Every increasing array of up to six keys out of 0 to 7 takes both
searches through every shape of their probe sequences of up to three probes.
Lists of up to four entries of two values tell a revived entry from a garbled
one. Three keys on five pages of two slots fill pages and reuse slots.
359 configurations, the one of `.configBPlus` among them, include sizes that fit
to the byte, sizes that cannot be used, and 51 whose values leave a rest of their
page; eight writes after opening fill a page of values and start another. A page is
also a node's growth below 65536 bytes, above which the loop of
`calculateMaxDegree` wraps. `NodePage` scales the buffer
to 16 bytes and a child to 4, and takes degrees 2 to 4, beyond which the childs
take more than two buffers of this size, and keys of 1 to 9 bytes,
so that the end of a buffer falls on every place of a key and between all
fields.

*Threads and handlers.* Two handles for three threads make waiting, and a wakeup
that races a third thread, possible; `MaxOps` bounds only the requests a thread
serves. Two connections and two handlers suffice for a request and another that
overlaps it, of the same connection, of one with its port, or of neither; the proofs
cover any number. `session` takes connections, ports and handlers as symmetric.

### Fairness

`store_pool`, `btree_pool` and `btree_leak` assume weak fairness of `Serve(t)`
for each thread: the operating system runs a thread that can run. Spurious
wakeups and arrivals of requests are not assumed to happen. With `MaxOps`
requests each, readers cannot overtake a writer for ever; the code itself gives
no such bound (`std::shared_mutex` does not promise that a writer gets its turn),
so the runs say that pool and mutex do not deadlock or lose a wakeup, not that
writers are never starved. In `bplus_parts` a search and the opening of a store
run on by themselves: they are one thread's straight code.

### What the five violations show

- **A restart may hand out a slot in use** (`bplus_restart_map`). `updateRoot` is
  the only place that writes `currentValueNode`. Insert a few keys without
  changing the root, shut down cleanly, start again: the next new key gets the
  slot of a live one. `bplus` shows what still holds then: keys, pages and free
  lists survive; only values are mixed up.
- **A read may miss an acknowledged write** (`store_fresh`). With two requests in
  flight, two streams are in use, each with its buffer, and nothing flushes them
  before the lock is released. One client alone is safe (`FreshReadsAlone`)
  because a stack gives it the same stream again.
- **A DEL in the B-tree frees a slot in use** (`btree_others`). A key of an inner
  node is replaced by its predecessor, whose slot goes to the queue although the
  entry still refers to it; the next new key overwrites it.
- **Early returns use up the handles** (`btree_leak`). `insert` into an empty tree
  and `remove` from one return between taking the handle and giving it back.
- **A session belongs to a port** (`session_ports`). Two hosts may use the same
  port, and the system gives a port out again; nothing ends a session but CLOSE.

### Deviations that the conditions of the passing runs point at

Some properties hold under a condition only. Each of these shows what is behind it:

- The B+ tree's chain of leaves is broken by the first split: `insertAndSplitLeaf`
  sets the next-leaf offset after the flush (`BPlusTreeNode.cpp:258`). Only
  `leavesTraverse`, which prints, follows the chain, so no run checks it.
- `NewSetIsRead` excludes a slot given back at the start of a page: `updateValueAt`
  (`DataFileIO.cpp:34`) takes it for a new page and appends. `btree_others.cfg`
  with the invariant `SetIsRead` shows it: SET 1, SET 2, DEL 1, SET 1.
- It also excludes keys that are there: the key of a SET may be the entry that its
  own split moved up (`BTree.cpp:49`). The same with `Plans <- OverwritePlan` shows
  it: SET 1, 2, 3, then SET 2.
- `lost`: `BTree.cpp:141` does not update `rootPos` when the root shrinks. `btree.cfg`
  with `IsKeySet` shows the restart that opens the old root.
- Two CLOSEs of one connection that overlap may both be answered with OK, although
  there is one session to end: each finds it in its first critical section
  (`service.go:35`) before either deletes it. `Close` of `Sessions` allows it: a
  session was there at some moment since the request was asked. That each CLOSE
  answered with OK ends a session of its own, as `service_test.go:116-125` expects of
  a DISCONNECT without one, does not hold: `session.cfg` with the property
  `CloseEndsSession` shows it. The command line client waits for its answers and
  cannot see it; a client with several workers can.
- A request may be served by a store that is no longer the session of its
  connection, when a CONNECT or CLOSE that overlaps it comes between `GetStore` and
  the call (`service.go:45-131`). `Serve` of `Sessions` allows it for the same reason.
- `spilled`: where `VALUE_SIZE` does not divide `PAGE_SIZE`, `ceil`
  (`fileUtils.cpp:216`) counts one slot more than a page has room for, while the bits
  of an index are counted from the rounded-down quotient (75). With 4096 and 600 the
  slot, the seventh, fits its index and reaches into the next page. With 4096 and
  1000 its index, 4, does not fit two bits: in every other page `|` makes it the first
  slot of the next page, in the others the first slot of its own, which is in use.
  `WritesApart` speaks of everything up to that point. `bplus_parts.cfg` with the
  invariant `NoneMeet` shows what follows.
- `LayoutAssumption` of `NodePage`: nodes whose childs take more than two buffers
  make `NodeRoundTrip` fail (the loop at `fileUtils.cpp:284` counts the childs
  from the first buffer on and reads none from the second). So does a size field
  that straddles two buffers, where the writer moves the address by elements in
  place of bytes. To see it, drop the conjunct and add such a node to `Layouts`.
- `CrashLosesLittle` allows one popped entry to come back, or the last pushed one to
  be garbage: after a crash the list may hand out a page or slot in use.

## What is proved

For every value of the constants, from the assumptions named in the modules
(`ValuesPerPage` is at least 1; threads and handles are finite sets; bounds are
naturals; `NoThread`, `NoHandle`, `NoSlot`, `NoConn`, `NoPort` and `NoEngine` are
not members of the sets they are added to; `ConfigAssumption` and
`LayoutAssumption` as described below; nothing about clients and their ports):

- `BPlusPartsProofs`, `ValueAlloc`: `SlotsExclusive` (`Spec => []ExclusiveUnlessStale`).
  Exclusiveness is not inductive by itself: a slot taken after `emptyValueNode`
  is new only if nobody owns a slot behind it. `BehindEmpty` says so: every slot
  in use or in the free list lies in the file and, on the page of
  `emptyValueNode`, not behind it. `IInv` adds that both copies of
  `emptyValueNode` lie in the file, so that a page appended later is another
  one. A restart that finds the header behind breaks `BehindEmpty` and nothing
  else, which is why the theorem has the hypothesis `~stale`.
- `BPlusStoreProofs`: `WritersExclude`, `StreamsExclusive`, `HandlesKept`,
  `WakeupsKept` and `StoreTypeOK`, all from `StoreInvariant`. `LockState` ties
  the program counters to the mutex, `HoldState` ties them to the handles.
  `NoLostWakeup` counts: a handle put back adds one thread that will notify, a
  notification replaces that thread by a waiter, a handle taken removes one
  thread of those about to take one, and a thread goes to wait only when the
  stack is empty. The count is over finite sets, hence `FiniteAssumption`.
  `AloneReadsFresh` (`MCSpec => []FreshReadsAlone`): when one thread has all the
  requests, each of its reads sees the last write, although nothing flushes the
  streams' buffers or makes them invalid. Its invariant `AloneInv` follows one
  stream, the one the thread holds or, when it holds none, the top of the stack,
  which is the one it gave back: that stream is `Coherent`, i.e. what it has
  buffered is the last version of its cell, and every cell that it has not yet
  to write is on file. What other streams have buffered does not matter, since
  they never get to the top.
- `BTreeStoreProofs`: the same argument for the B-tree's pool, with `kept` in
  `HandlesAccounted`, and `BStuckOnlyByKeeping`: if somebody waits and nobody is
  at work, `NoLostWakeup` says that the pool is empty and `HoldState` that no
  thread has a handle, so all of them are kept.
- `ServiceProofs`: `ServiceImplementsSessions` (`HSpec => IsSessions`) and
  `SessionsAreOwn` (`HSpec => SessionIsOwn`), for any connections, ports and number of
  handlers, with no assumption on how ports are given out or how clients ask.
  `Linked` ties handlers to requests. `SeenOK` says what a handler has seen of its
  port: the session of now; the one that `GetStore` returned, however often the
  session has changed since; and a session, for a `Disconnect` between its two
  critical sections. `Goes` and `Writes` sum up what any step does to a handler and to
  the map, and the invariant and both theorems follow from them. `Owned`, that a
  session is of a port which a connection has had, gives `SessionsAreOwn` its
  beginning: a port nobody had has no session.
- `BPlusPartsProofs`, `KeySearch`: `SearchInBounds`, `SearchParts` and
  `SearchExists`, from the loop invariant `LoopInv`: keys left of `left` are smaller, keys right of `right` larger, and
  the last probe lies next to one of the two. This last part is what the probe
  after the loop needs.
- `BPlusPartsProofs`, `FreeList`: `CrashSafety` and `CleanRestart`, from `Behind`, which says
  what the stream's buffer holds at each point of `push` and `pop`.
- `BPlusPartsProofs`, `PageLayout`: `DegreeIsTight`, `WritesStayApart` and `OpensUsable`, for
  all sizes of `ConfigAssumption`: they are 16 bits wide and the sums of
  `calculateMaxDegree` stay below 65536 (`NoWrap`). `DegreeInv` is the loop's invariant: the degrees tried
  before fit; a degree more adds two childs and two keys, up to a padding of 3
  to 10 bytes, hence the next one is larger and nothing is cut before the loop
  ends. That no two writes meet, until a slot is handed out that its page has no room
  for, needs `Placed`: the file is whole pages; the
  last value slot lies in its page, and no write lies behind it in that page. The
  index of a slot that lies in its page fits the bits kept for it, so that page and
  index are taken apart again as they were put together; and if values fill their
  page, the count that `ceil` rounds is exact and no other slot is handed out. The number of writes is not bounded by the
  proof.
- `NodePageProofs`: `NodeIsReadBack` (`PageSpec => []NodeRoundTrip`), for every
  buffer size that childs divide and every node of `LayoutAssumption`: its page
  has room for it (`DegreeIsTight` says that this is so from degree 2 on), a key
  is at most a buffer, its childs end within two buffers and its size field does
  not straddle two. For the writer, `WriteInv` says that what is on file and
  what is buffered are, together, the fields so far, each at its offset: only a
  key can straddle two buffers, since childs divide them. For the reader,
  `Buffered` says which part of the file the buffer is, and `ReadInv`, stage by
  stage, how far in the file the reader is and that all before it has been read
  as it was written; in the stage of the keys, `tmp` is the start of the key that
  comes next, and never more than a key. `readTimes` buffers cover the page, so
  the last stage is reached before the loop ends.

- `BPlusTreeProofs`: `HeaderFollowsRoot` (`Spec => []HeaderNamesRoot`): the header
  page names the root in use, whatever page the root moved to, so a store opened
  on the file starts from the same tree. It is the half of `RootOnFile` that does
  not depend on what the recursion returns.
- `BPlusNodeProofs` and `BPlusRemovalProofs`: what the recursion of insertion and
  removal does at each level, for every degree from 2 on, every file and every
  node. A node is compared before and after by what a search reads of it
  (`Binds`: the slot a leaf binds a key to; `Child`: where an internal node sends
  a key), never by its layout.
  - `LeafInsertion`: `leafInsert` rewrites the value, finds room or splits. Every
    other key stays bound to its slot, seen from father through `Halved`, which
    takes the side of `entry.key` that a descent takes; the key is bound to a slot
    with the value; both halves have a legal size; the page split off was not in
    use, so every other page in use is as it was (`Others`).
  - `EntryInsertion`: `entryInsert`, `internalInsert` after the child has returned
    an entry. A descent goes to the new child exactly when no old key separates
    it from the entry's key (`Beside`), and otherwise where it went, whether or not
    the node had to be split itself.
  - `InternalRemoval` and `LeafRemoval`: `internalRemove` and `leafRemove` below a
    father, with the four swaps and four merges. `Preserved` compares father and
    its children, two levels of the tree: every key is bound to the same slot, or
    sent on to the same child, as before; a removed key is bound to none. `Repaired`:
    every child has enough keys, father lost at most one, the page of a merged
    node and no other came to the removed pages (`Released`), pages outside the
    family are as they were. The slot given back is the one the key was bound to.

  The argument for a swap or a merge: two neighbours and the key between them
  hold, in a row, the same keys and childs before and after (`LeafJoin`,
  `ItnJoin`), and a row that is cut elsewhere, or not at all, is searched with the
  same result (`BindsCut`, `ChildCut`); father without that key is the same node
  before and after (`Twin`, `Lone`), so only keys between its neighbours are
  concerned. That the new key fits there needs `Routed`: each key of a child
  leads to the child, and internal nodes do not repeat the keys of their father.

  The hypotheses are sorted keys, legal sizes, distinct childs, `Routed`, and
  that the node's page is in use; `SearchTree`, `TypeOK` and `PagesAccounted` imply
  them, so the runs `bplus` and `bplus_degree3` show that the trees satisfy
  them in every state.

Every safety property that the runs check is proved, except those of the two
trees. For the B+ tree each step of the recursion is proved, and the whole is
model-checked: `insert` and `remove` fold these steps over a `Descent`, and
induction over that path is out of the prover's reach; so `SearchTree`,
`PagesAccounted`, `SlotsAccountedUnlessStale`, the type invariant, the other half of
`RootOnFile` and the refinements `IsMap...`, `IsKeySet...` and `AllocatesRestarted`
are only model-checked, as are splits and merges of the root. Everything about the
B-tree's nodes is only model-checked, since its operators are recursive; and so is
all liveness (`EveryRequestAnswered`, `AnsweredWhileHandles`, `SearchReturns`,
`LayoutOpens`).

## What is not modelled

- The command line client, the configuration parser, the benchmark, generated
  code and the command interpreters in both `utils.cpp`: input and output, no
  state the service keeps. C++ memory management.
- A crash in the middle of an operation of a tree: the code has nothing that
  would recover from it. `FreeList` is the exception, because its constructor
  reads a file that any crash may have left.
- The signal handler frees the stores under running requests, which is undefined
  behaviour from there on, and `~MetaData` closes half of the handles
  (`fileUtils.h:70`).
- The buffers of the B-tree's streams; `BPlusStore` has the question for the B+
  tree. `traverseByLevel`, but for the handle it keeps. `isDeleteReal`, which is
  never read. `fillNode`'s reads of siblings that do not exist
  (`BTreeNode.cpp:395`), whose results are not used. `calculateValueNodeID`, which
  is never called.
- Lengths of keys and values, which the Go bindings test: keys and values are
  atoms.

What is left to do: a shutdown with unwritten streams, on top of the streams of
`BPlusStore` and the restart of `BPlusTree`; the B-tree with `T` 3; what single
operators of the trees preserve, such as a split's halves or a borrow's keys, as
far as it needs no induction.
