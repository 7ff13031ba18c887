# libcds 0.8.0 in TLA+

A verification development for the lock-free C++ library in `src/cds-0.8.0`
(libcds 0.8.0 with this repository's additions: `cds/bag`, `csqueue`, `ffqueue`
and the single-producer queues). The rest of the repository, `membench/` and
`jmembench/`, is memory bandwidth benchmarks without shared state and is not modelled.
Paths below are relative to `src/cds-0.8.0`.

Contents: the parts of the system, what is hard about them, the modules and how
they correspond to the code, the runs, the fairness, the proofs, what disagrees
with the code's own documentation, what is left out, the plan.

## 1. The system

Everything in libcds hangs on one question: when may a node that was unlinked
from a container be freed, while other threads still hold pointers to it? A
*collector* answers it; a *container* relies on the answer. Some containers do
without: array queues never free, tagged containers never give a node back to the
system, and locks keep others out.

| part | state it keeps | operations | what makes it correct |
|---|---|---|---|
| `gc::hzp`, hazard pointers (`cds/gc/hzp`, `src/hzp_gc.cpp`) | a list of records that only grows, each with an owner, a free flag, hazard slots, an array of retired pointers | attach, detach, allocate and free a guard, `derefLink`, `retirePtr`, `Scan` (two algorithms), `HelpScan` | a guarded node is not freed; each retired node is freed once and not lost when its thread leaves or dies; the array does not overflow; a record has one user |
| `gc::ptb`, Pass-the-Buck (`cds/gc/ptb`, `src/ptb_gc.cpp`) | a list of guards with a posted pointer and a hand-off each, a pool of free guards, a buffer of retired nodes and its counter, a lock | attach, detach, allocate, free and clear a guard, guard loop, `retirePtr`, `try_liberate`, `liberate` | as above, and `liberate` leaves nothing untrapped behind |
| `gc::hrc`, hazard pointers with reference counts (`cds/gc/hrc`, `src/hrc_gc.cpp`) | the records of `hzp`, and a count, a trace and a deletion mark in each node | the above, `CASRef`, `cleanUpLocal`, `CleanUpAll`, `terminate` of a node | no node is freed while a link or a guard refers to it; chains of deleted nodes are cut |
| `gc::tagged` (`cds/gc/tagged`) | a free list, and words whose pointer carries a version tag | alloc, free, `cas_tagged` | a node is in one place; a word that compares equal has not changed (ABA) |
| lists of nodes over guards: `MSQueue`, `MoirQueue`, `LMSQueue`, `Stack` | head and tail (or top), links, item counter | enqueue, dequeue, push, pop, clear, size | linearizable FIFO/LIFO; nodes touched only while protected; lock-free |
| the same over tagged pointers: `MSQueue`, `MoirQueue`, `Stack` | the same with tags | enqueue, dequeue, push, pop | linearizable FIFO/LIFO; no node in two places |
| `RWQueue` | head lock, tail lock, list | enqueue, dequeue, clear | FIFO although the two locks meet at the last node |
| array queues: `TZCyclicQueue`, `vyukov_mpmc_bounded`, `CircularFifo` (`csqueue.h`, `spsc_queue.h`), `FastForwardQueue` | array of cells, two positions, sequence numbers or null marks | enqueue, dequeue | bounded FIFO; nothing is lost when a position wraps |
| `SBag` (`cds/bag`) | one list of blocks per thread, notify bits | add, `tryRemoveAny` (own blocks, then steal) | each item removed once; "empty" only if the bag was empty |
| `MichaelList`, `LazyList` | marked links, sorted keys, locks in the nodes of the lazy list | insert, ensure, emplace, find, erase, empty, clear | linearizable set; a guarded walk stays on live nodes; no deadlock |
| `MichaelHashMap`, `SplitOrderedList` | an array of lists; one list, a table of dummy nodes and its size | the same | the same, while buckets are split and the table grows |
| `lock::Spin`, `ReentrantSpin`, three reader-writer locks | lock word, owner, counters of readers and tickets | lock, unlock, tryLock, `changeOwner`, rlock, wlock | exclusion, no reader with a writer, writer preference, progress |
| `memory::michael` allocator | superblock anchors with tags, active field with credits, partial lists | alloc, free | a block belongs to one caller; no page goes back with a block in use |
| thread managers, atomics, back-off, bit operations, OS layer, start-up | per-thread pointer, none | attach, detach | - |
| unit tests, `membench`, `jmembench` | - | - | - |

Interactions. A container calls its collector for guards (`gc::Guard`,
`GuardArray`), stores pointers it reads into them, reads the link again, and calls
`retirePtr` with what it unlinked. The collector calls back a deleter. Thread
managers call `init`/`fini` of the collector's thread object on attach and detach.
The collectors read other threads' slots and, when a thread left, its array.
Stacks, queues and lists know nothing of how the collector decides; the collector
knows nothing of the container but the links it guards. That boundary is the
abstract specification `Reclamation`, and the development is built
around it: collectors are shown to implement it, containers to live with it.
Maps call lists, the two-lock queue and the lazy list call spin locks, the
allocator keeps its descriptor lists under one.

What is hard. Nothing blocks, so any two steps of two threads may interleave;
addresses are recycled, so a pointer that compares equal may name another node
(ABA); threads leave or die with retired nodes in their hands; a scan reads slots
one by one while they change; the memory order of the guard store is weaker than
the algorithm needs; hand-over-hand walks move pointers between slots; counters
wrap; a thread may be suspended between the two halves of an operation that others
must then complete. `PROJECT.json` lists these hazards at the line where each
bites, with the property that would fail.

## 2. Modules

| module | what it is | code |
|---|---|---|
| `Reclamation` | the contract between collector and container: abstract specification | (implemented by both collectors) |
| `HazardPointers` | the `gc::hzp` collector with a small container on it | `cds/gc/hzp/hzp.h`, `cds/gc/hzp/details/*.h`, `src/hzp_gc.cpp` |
| `HazardPointers_proofs` | types, ownership, safety, the refinement, and that no retired pointer is lost and no array overflows, proved | |
| `PassTheBuck` | the `gc::ptb` collector with the same container | `cds/gc/ptb/*.h`, `src/ptb_gc.cpp` |
| `PassTheBuck_proofs` | its safety properties and its refinement, proved | |
| `QueueOrStack` | a linearizable queue or stack: abstract specification | `cds/queue/details/queue_base.h` |
| `MSQueue` | Michael and Scott's queue over `Reclamation` | `cds/queue/details/msqueue_hp_impl.h` |
| `MoirQueue` | its variant with the optimised dequeue | `cds/queue/details/moir_queue_hp_impl.h` |
| `OptimisticQueue` | `LMSQueue`, with prev links, dummies and `fixList` | `cds/queue/details/lmsqueue_hp_impl.h` |
| `TreiberStack` | Treiber's stack with clear | `cds/stack/stack_hzp.h` |
| `HPQueues` | an object of one of the four classes, refining `QueueOrStack` and `Reclamation` | |
| `HPQueues_proofs` | three of the classes: their invariant, no use after free, their contract and their order, proved | |
| `BoundedQueue` | a linearizable queue or stack of bounded capacity: abstract specification | `cds/queue/details/queue_base.h` |
| `VyukovQueue` | Vyukov's queue with sequence numbers | `cds/queue/vyukov_mpmc_bounded.h` |
| `TZCyclicQueue` | Tsigas and Zhang's queue with two kinds of free cell | `cds/queue/tz_cyclic_queue.h` |
| `CircularFifo` | Lamport's buffer, one producer and one consumer | `cds/queue/csqueue.h`, `spsc_queue.h` |
| `FastForwardQueue` | FastForward, one producer and one consumer | `cds/queue/ffqueue.h`, `ffqueue_sentinel.h` |
| `TaggedFreeList` | tagged words and the free list of nodes | `cds/gc/tagged/tagged_type.h`, `details/free_list.h` |
| `TaggedStack`, `TaggedQueue` | Treiber's stack, Michael and Scott's and Moir's queue on it | `cds/stack/stack_tagged.h`, `cds/queue/msqueue_tagged.h`, `moir_queue_tagged.h` |
| `RWQueue` | the queue with two locks | `cds/queue/rwqueue.h` |
| `PlainQueues` | an object of one of these eight classes, refining `BoundedQueue` | |
| `PlainQueues_proofs` | the invariants of four of the classes, and their refinement, proved | |
| `RWMutex` | exclusion: abstract specification | |
| `SpinLocks`, `RWSpinLocks` | the two spin locks, the three reader-writer locks | `cds/lock/spinlock.h`, `cds/lock/rwlock.h` |
| `Locks` | a lock of any class, refining `RWMutex`, with fairness | |
| `Locks_proofs` | its safety properties and its refinement, proved | |
| `KeySet` | a linearizable set: abstract specification | `cds/ordered_list/list_base.h` |
| `ListCommon` | what the two ordered lists share | `cds/ordered_list/details/*_hpgen.h` |
| `TaggedList` | Michael's list over tagged pointers | `cds/ordered_list/michael_list_tagged.h` |
| `MichaelList`, `LazyList`, `OrderedLists` | Michael's list, the lazy list, one of them | `michael_list_hpgen.h`, `lazy_list_hpgen.h` and the adapters in `michael_list_hzp.h`, `lazy_list_hzp.h` |
| `HashMaps` | the hash map and the split-ordered list | `cds/map/michael_hash_map.h`, `cds/map/split_ordered_list.h` |
| `SetsAndMaps` | an object of one of these five classes, refining `KeySet` and `Reclamation` | |
| `SetsAndMaps_proofs` | the two lists over guards: their invariant, no use after free, their contract, their shape and that they are sets, proved | |
| `HashMaps_proofs` | both maps: their invariant, their shape and that they are sets, proved | |
| `HRC` | the `gc::hrc` collector | `cds/gc/hrc/hrc.h`, `cds/gc/hrc/details/*.h`, `src/hrc_gc.cpp` |
| `HRCQueues` | both queues over it, refining `QueueOrStack` | `cds/queue/msqueue_hrc.h`, `cds/queue/moir_queue_hrc.h` |
| `ItemBag` | a bag that is linearizable: abstract specification | `cds/bag/sbag.h` |
| `SBag` | the bag of blocks, and its variant for one adder and one remover | `cds/bag/sbag_hrc.h`, `sbag_hrc_gccthread.h` |
| `BlockHeap` | an allocator: abstract specification | `cds/memory/michael/allocator.h` |
| `MichaelHeap` | Michael's allocator | `cds/memory/michael/allocator.h` |
| `MC...` | model values, symmetry, guard copies, roles of the threads for TLC (modules that need little of it end with it) | |

### Reclamation

State: the life cycle of each heap cell (free, linked, unlinked, retired, free
again), the pointer in each hazard slot, and two history variables: `using[s]`,
the pointer the owner of slot `s` may dereference, and `blockers[n]`, the slots
that have held `n` without a break since `n` was retired. `Free(S)` is allowed
when every node of `S` is retired and has no blocker. That is what hazard
pointers promise: a slot set *after* the node was retired protects nothing, which
is why a container must look at the link again (`Confirm`). `Copy` is the other
way to get a protected pointer: from a slot that already protects it, without
looking at the link. `Discard` frees a node that was never reachable (an insert
that finds its key), `Release` gives back the guards of a call together.

### HazardPointers

Record `r` is the r-th record pushed on the list, so `m_pListHead` is `nRec` and
`m_pNext` of `r` is `r - 1`; the list never shrinks. Retired arrays are sets (the
order of the array decides nothing; the capacity check is kept, as
`Cardinality`). Each load, store or CAS on shared memory is one step:

| action | code |
|---|---|
| `AttachBegin`, `AttachTry`, `AttachSet`, `AttachNew` | `AllocateHPRec`: walk the list, CAS the owner, clear `m_bFree`, or push a new record |
| `Detach` | `RetireHPRec`: clear the slots, drop the owner; the retired array stays |
| `Die` | a thread that ends without detaching: `OS::isThreadAlive` turns false |
| `GuardAlloc`, `GuardFree` | `HPAllocator::alloc/free`: a stack of slots from the top; `free` clears the slot at `m_nTop` |
| `Deref`, `StoreHP`, `CheckLink` | the three memory accesses of `derefLink` |
| `GuardCopy` | `GuardArray::copy` of the list walks, restricted by `Copies` |
| `Drain` | the store buffer of a processor empties (`Fenced = FALSE` only) |
| `Insert`, `Unlink` | the container: push and pop of a stack of height one on each link |
| `RetirePtr` | `retirePtr`: push, then scan when the array is full |
| `ScanHead`, `ScanSlot`, `Sweep` | `classic_scan` and `inplace_scan`: read the slots one by one in the order of the code, then free what was not seen |
| `HelpHead` ... `HelpRelease` | `HelpScan`: skip free records, check the owner, CAS, move entry by entry with scans in between, clear, mark free, release |

`Fenced` chooses the memory model of guard stores. `TRUE` is sequential
consistency; `FALSE` puts each store in a one-entry buffer that drains at any time
(a locked instruction waits for it), which is what a plain `mov` on amd64 may do.
`PlainSpec` is `Spec` without `GuardCopy` and `Drain`, for instances in which both
are never enabled.

### PassTheBuck

Guard `g` is the g-th pushed on `m_GuardList`; pools and buffers are sets where
every use takes all or any. `liberate` is modelled guard by guard (`Steal`,
`Reset`, `ScanGuard`, `Recount`, `FreeOne`, `Unlock`): in the code the work on one
guard reads `pPost` once and touches nothing else that another thread writes
except the buffer (pushed to with CAS) and its counter (`Recount`), so one step
per guard loses no interleaving. `doneGuardSet` is `done`. The guard that
`freeGuard` returns still posts its pointer and `fini` clears all guards of a
thread but the last of its list, as in the code.

### Containers over guards

One step per shared access; links are changed by CAS; cells are recycled as soon
as the contract allows, so every ABA that hazard pointers must exclude is possible
in the model. The reclaimer is an action of the environment (`Reclaim`, the
contract's `Free`). `items` is a history variable, the nodes in the container, changed
exactly at the step that takes effect; `saw[t]` remembers whether the container was
empty at some instant of the running dequeue. `MoirQueue` extends `MSQueue`, as its
class derives from it, and replaces the dequeue; `OptimisticQueue` shares guards and
retirement with it and has its own enqueue, dequeue and `fixList`, whose nodes carry
`isDummy`; `TreiberStack` shares them too, and its `clear` takes the whole list
with one CAS and retires its nodes one by one. An `OptimisticQueue` breaks
`NoUseAfterFree` (section 6), so that everything else can still be checked of it
`Patient` gives it a collector that frees only while no call runs.

`QueueOrStack`: each operation is a call, one atomic effect, and a return; a dequeue
may fail only if the container was empty at some instant between its call and its
answer. The refinement mapping derives the phase of each operation from its
program counter.

### Containers without a collector

`BoundedQueue` is a queue or stack with a capacity: call, one atomic effect, return.
It lets a call fail at any time, because the classes differ in when they refuse;
each has its own `Refusals`, which says when. Every class keeps `items` (history)
changed at the step at which a call takes effect. `PlainQueues` has a variable
`kind` and the union of the variables; each class uses those it has.

- *VyukovQueue.* One step per access to the position, the sequence number or the
  data. Positions and sequence numbers are counted modulo `Modulus`, a multiple of
  the capacity, and compared by signed difference, as 64-bit words are in the code. A call
  takes effect at its CAS on the position; the cell is filled or emptied after it.
- *TZCyclicQueue.* One step per access to `m_nHead`, `m_nTail` or a cell. A cell is a
  pointer and a mark, so `<<None, FALSE>>` and `<<None, TRUE>>` are `free0` and `free1`.
  Both walks, both helping CASes, the three re-reads of the tail and of the head and the
  delayed swings are there, and the mark of the argument that survives a failed attempt.
- *CircularFifo.* The side that owns an index reads it together with the other's
  index, which is the only shared read of the check.
- *FastForwardQueue.* Each side has its index to itself, so the store to a cell and the
  increment are one step; null (or the sentinel) is the only communication.
- *Tagged containers.* A tag is 64 bits wide and cannot come round during one call. So a
  tag is abstracted to what a comparison can tell: `known[t]` is the set of words that
  have not changed since thread `t` read them, and a value whose tag is out of date is
  forgotten (`Stale`): a CAS on it fails whatever it was. `push` of the stack compares and
  replaces the pointer half only, which leaves the tag, and other threads' knowledge, alone.
  Any node may be read at any time, also one that another thread has taken meanwhile.
- *RWQueue.* A lock is taken in one step (`Locks` has the locks); the accesses to head,
  tail, link and data between lock and unlock are steps, so an enqueue and a dequeue
  under their different locks interleave at the last node. `clear` empties the list in
  one step, since it holds both locks.

`CircularFifo` and `FastForwardQueue` assume that loads and stores take effect in program order. The indices
are volatile and amd64 keeps the order of stores; the plain store of the element could
be moved by a compiler, and nothing in the code forbids it.

### Locks

`SpinLocks` has the lock word `spin`, the owner word and the code's loops: `LockCas`
(acquire), `LockLook` (spin on a read), bounded tries, the reentrant count in the
lock word, and the two stores of an unlock, of which the first clears the owner.
`changeOwner` hands a reentrant lock to another thread. `RWSpinLocks` has the
barrier word as a record of counters (bit fields in the code) that wrap at `Wrap`: each
operation is a load and a CAS of the whole word, and a retry. The writers of `RWSpinWPrefOrdT` take
tickets. `RWMutex` knows who is inside and how; a waiting thread is waiting until it
is inside or gives up.

### Ordered lists

`MichaelList`: the mark and the link are one word, changed by one CAS; `search` is
walked link by link, with three guards (`Shift` copies guard 0 to 1, 1 to 2), with
the re-check of `pPrev` after every guard, and unlinks marked nodes on its way.
`LazyList`: the unlocked search (guard 1 copied to guard 0), the lock of `pPred` and
then of `pCur`, `Validate`, and the changes under lock; erase leaves a back link in
the node. Functors of insert, ensure and find are accesses to the node. Both keep
`items` (the nodes whose keys are in the set) and notice for each running call whether
its key was in or out at some instant (`sawIn`, `sawOut`), which is what an answer
that changes nothing needs. `clear` may run only when no other call does ("this function is
not thread safe", `list_base.h:193`).

`TaggedList`: a link is a pointer and the two bits `Deleted` and `Changing`; the tag
is abstracted as in `TaggedFreeList`, `known[t]` being the words whose tag thread `t` has
read and is up to date. A node goes to the free list, a set here, as soon as it is unlinked.
After an unlink the search compares the tag of one word with one read from another;
`Coincide` says whether the two may be equal by chance. `findf` stands for the find with
a functor and for `emplace`, which both work on the value under the `Changing` bit.

A retired node's guards may be released only by a step of the thread; a search that
starts again releases what it held, which the code does at its next store to the slot.

### Maps

One operation of the ordered list is one step of `HashMaps`: `SetsAndMaps` checks of
the lists that it takes effect at one instant. The split-ordered list is a sequence of
elements with reversed hash values, the dummy node of a bucket even, a regular node odd;
an operation starts at the dummy node its bucket had when the table size was loaded.
`inits` is the stack of the recursive `initBucket`. The table doubles by a CAS on its
log (`Grow`). `segments` are not told apart: until its first bucket is set a segment
reads as null. `emplace` is a find that changes the value.

### SBag

A block is a number; `next[b]` is a link with the two marks of `marked_ptr`, `full` the
set of slots that hold an item. `add` clears the notify bits and stores the item in two
steps. `tryRemoveAny` tries the thread's own blocks, newest first, taking finished ones
out of the list, and then `TryStealBlock` and `NextStealBlock` go over the lists of all
threads, in rounds: the second round sets the thread's notify bit in each block, later
rounds check that it is still set. Each load of a link, each CAS and each store to
`m_pNext` of a removed block is a step. `setup` is the kind of the bag (`"many"` is
`sbag_hrc.h`, `"single"` is `sbag_hrc_gccthread.h`, with its plain stores) and who calls
what. `Shape` also states the `assert(false)` of the second kind: its remover finds no
blocks of its own and removes no first block.

### MichaelHeap

One size class. The anchor of a superblock is a record with its tag abstracted as in
`TaggedFreeList`; `Active` is a superblock and its credits. `alloc` is `ActiveLoad`,
`Reserve`, `PopLoad`, `Pop` on the active superblock, `PartialLoad` ... `Open` on a
partial one, `NewDesc`, `NewPage`, `Publish` on a new one, then `Install` or `Give` for
the credits it could not use; `free` is `FreeLoad`, `FreeCas` and what follows when the
superblock was full or gets empty. The spin lock of the descriptor lists is one step.
`BlockHeap` knows which blocks are in use and which pages are taken.

`Spec` is the code as it is. `PromptSpec` has one condition more, on `NewDesc`, that the code
does not have: a descriptor is not used again while a `free` that emptied its superblock has yet to call `unlink_partial`.
What the model says in favour of the allocator it says of `PromptSpec`; without
the condition it is wrong (section 6, item 6).

### HRC and HRCQueues

Here collector and container cannot be taken apart by a contract: the collector calls the
nodes' `cleanUp` and `terminate`, which change links the container reads, and counts the
links. So `HRC` is the collector as actions on a shared heap, and `HRCQueues` puts the two
queues on it and drives it, each shared access a step. A procedure that another calls ends
by going to the label it was given (`cont` for `derefLink` and `CASRef`, `in` for `cleanUp`,
`who` for `Scan`).

| action | code |
|---|---|
| `Deref`, `StoreGuard`, `Recheck`, `Reload` | `derefLink` |
| `CASRef`, `Increment`, `Untrace`, `Decrement` | `CASRef`: the link, then count and trace mark of the new node, then the count of the old |
| `CleanTest` ... `CleanAgain` | `Node::cleanUp`: move the link of a retired node past a retired successor |
| `RetireDeleted`, `RetireTrace`, `PushDone`, `PushClaim`, `PushNode`, `Scanned` | `retireNode`: the marks, the cell, and the loop that makes room |
| `CleanUpLocal` | the walk over the thread's own list |
| `ScanCount` ... `ScanDestroy`, with `TerminateLoad`, `TerminateStore` | `Scan`: trace, read all guards, then take, claim, terminate and destroy |
| `AllNode` ... `AllUnclaim` | `CleanUpAll`: announce a claim on each cell of every list, look again, clean up |
| `HelpOwner` ... `HelpRelease` | `HelpScan` |
| `Attach`, `InitCas`; `Detach`, `FiniClear`, `FiniOwner` | `ThreadGC::init`, `fini` |
| `Enq...`, `Deq...`, `Moir...`, `Leave` | the queues |

`Accounted` says where each node is (in the queue, in the hand of one thread, in one cell of
a list) and that its count is the number of links to it but for updates on their way.

## 3. Runs

| run | bounds | checks |
|---|---|---|
| `hp_records` | 2 threads, 3 records, 4 nodes, 1 slot, array of 3 | `TypeOK`, `GuardedNotFreed`, `RetiredOnce`, `NoneLost`, `HelpScanAdopts`, `RecordExclusive`, `IInv`, `Reclaims` |
| `hp_store_buffer` | 2 threads, 2 records, 4 nodes, 1 slot, array of 3, store buffers | `GuardedNotFreed` is violated |
| `ptb_contract` | 2 threads, 2 guards, 3 nodes, threshold 2, copies to guards examined later | `TypeOK`, `OnePlace`, `LiberateComplete`, `Reclaims` |
| `q_safety` | 2 threads, 3 nodes, 2 values, one of four classes | `TypeOK`, `Shape`, `NoUseAfterFree`, `KeepsOrder`, `KeepsContract` |
| `q_lockfree` | 2 threads, 3 nodes, 1 value, all classes but `LMSQueue` | `LockFree` |
| `lms_guards` | 2 threads, 3 nodes, 2 values, `LMSQueue` with an eager collector | `NoUseAfterFree` is violated |
| `plain_queues` | 2 threads, 2 values, 3 nodes; Vyukov: 2 cells, positions modulo 8; TZ: 4 cells, `MaxMoves` 1; one producer and one consumer over 3 cells | `TypeOK`, `Layout`, `NoRace`, `Refusals`, `Linearizable` |
| `locks` | 3 threads: two readers, two writers; counters modulo 4; 2 tries, 2 nested uses | `TypeOK`, `WordsAgree`, `WriterPreference`, `IsMutex`, `DeadlockFree`, `TicketServed` |
| `sets_and_maps` | 2 threads with roles; lists: 2 keys, 3 nodes; maps: 5 keys, 3-bit hashes with collisions, 4 buckets, load factor 1 | `Shape`, `NoUseAfterFree`, `IsSet`, `KeepsContract` |
| `bag` | 3 lists, blocks of 2, at most 3 blocks, four setups of threads | `Shape`, `IsBag` |
| `allocator` | 3 threads, 1 heap, 2 descriptors, 2 pages, 3 blocks each, 2 credits, at most 3 in use, `PromptSpec` | `Conserved`, `IsHeap` |
| `hrc` | 2 threads, 5 nodes, lists of 2 retired nodes, 5 guards each, six setups | `Accounted`, `NoUseAfterFree`, `KeepsOrder` |

In `sets_and_maps`, `bag`, `allocator` and `hrc` the type invariant is a conjunct of the first property.

Some of what section 6 tells is reproduced by hand, with the configuration of a
run, changed as follows and checking the named property only:

| name below | configuration | changes | violated |
|---|---|---|---|
| *copy down* | `HazardPointersRecords.cfg` | `SPECIFICATION Spec`, `Copies <- Down`, `MaxRec = 2`, `HPCount = 2`, `MaxRetired = 4` | `GuardedNotFreed` |
| *copy up* | `PassTheBuck.cfg` | `Copies <- Up`, `MaxGuard = 4`, `InitialGuards = 2` | `GuardedNotFreed` |
| *stale mark* | `PlainQueues.cfg` | `MaxMoves = 2` | `Linearizable` |
| *unlink* | `MichaelHeap.cfg` | `SPECIFICATION Spec`, `Thread = {t1, t2}`, `MaxAllocated = 4` | `IsHeap` |
| *walk* | `HRCQueues.cfg` | `Setups <- Walks`, `MaxRetired = 3` | `NoUseAfterFree` |
| *rejoin* | `HRCQueues.cfg` | `Setups <- Rejoins` | `ClaimsAreOver` |
| *move* | `HRCQueues.cfg` | `Setups <- Moves`, six nodes | `NoUseAfterFree` |
| *end* | `SetsAndMaps.cfg` | `Coincide = {TRUE}` | `Shape` |
| *key* | `SetsAndMaps.cfg` | `TaggedCalls <- TaggedInserts` | `IsSet` |
| *changing* | `SetsAndMaps.cfg` | `TaggedCalls <- TaggedFunctors` | `NoUseAfterFree` |

Why the bounds are enough.

- *Records.* Three records for two threads: a `HelpScan` can hold an abandoned
  record while another thread attaches, so more records than threads are in play,
  and `HelpScan` meets free, owned, abandoned and dead records in one pass.
- *Array.* 3 is one more than the slots that two threads can use, the ratio
  the code aims at (`m_nMaxRetiredPtrCount` is forced above the number of slots of
  all threads); scans run with pointers both kept and freed, and in the middle of an adoption.
  The constructor takes the maximum thread count on trust; the bound "records at
  most `MaxRec`" is the model's.
- *Nodes.* Fewer cells than operations: every cell is freed and used again, so a
  guard or a stale local can meet a recycled address.
- *Guards.* Two guards pass between two threads through the pool, so hand-offs
  outlive the thread that caused them.
- *Counters.* `CountSize` 16 is larger than the operations in flight and small
  enough to wrap below zero. In the liveness run the counter is not observed and is
  collapsed (`CountSize = 1`).
- *Array queues.* Positions go round the array and round `Modulus` without end, so
  every lap and every wrap occurs. The bound on a call is how far the others may get
  meanwhile. In Vyukov's queue a position may fall `MaxLag` 2 behind (a full lap of 2
  cells; the code breaks after 2^63). In Tsigas and Zhang's queue `MaxMoves` 1 operation
  of others takes effect during one call. That bound is a real limit of the result:
  with 2 the queue fails (*stale mark*), so it is the largest for which the code as it is
  keeps its order with 4 cells, the smallest array for which its walks make sense.
- *Tagged containers.* Nodes go round the free list without end; three of them let a
  stale thread meet a node in its second life, in the container and in the free list.
- *Locks.* Roles keep the state small: one thread only reads, one only writes, one
  does both. `Wrap` 4 is one more than the threads that can be counted, so every counter
  wraps; the code's counters have 15 or 16 bits and count as many threads. `MaxTries` and `MaxUses` bound
  the attempts of a `tryLock` and the nesting of a reentrant lock.
- *Lists.* One thread inserts and erases both keys, the other does everything
  else, each with one key. `Calls` names the pairs. Two keys give two neighbours, so
  a search stands on a node while it or its predecessor goes; the third node is the one
  an insert brings. A node is freed as soon as no guard blocks it. For the tagged list
  `TaggedRoles` gives one thread the insert of key 1 and both erases, the other everything but
  inserts, with `Coincide = {FALSE}`: the calls that the code bears. With equal tags, an insert of
  the second key or a functor on a key being erased it fails (section 6, items 10 to 12).
- *Maps.* The hash values 2, 6, 0, 4, 3 put keys 1 and 2 in one bucket of four, 3 and 4 in
  another, and key 5 in bucket 3, whose parent 1 must be set up first. With load factor 1 the
  table grows from 2 to 4 buckets at the fourth key.
- *Bag.* The setups: an owner that adds and removes and a thief in its list (3 blocks, so
  that blocks are taken out from both ends); an adder and two thieves (one looks for an
  item while the other takes one, the case of the emptiness answer); two threads that both
  own and steal, and whose numbers are taken over; the single adder and remover.
  The emptiness answer holds within these bounds with every round but one to spare: a bag
  that ignores the notify bits is not told apart from the code, because the last item in
  sight can be replaced only by a thread that is not the one that took it. What is told apart is too few
  rounds (`Rounds_One`).
- *Allocator.* A superblock is filled, becomes partial and empty, and both superblocks
  exist at once; credits run out, are given back and meet another active superblock.
  `PromptSpec` is a bound, too: `allocator` says nothing of the behaviours in which a descriptor is
  used again while a `free` is about to look for it. With `Spec` (*unlink*), two threads and
  four blocks in use are enough for a superblock to be full again and partial before the late `free`
  goes on, and `IsHeap` is violated. With the bounds of *unlink* `PromptSpec` passes both properties.
- *HRC.* A setup is a queue with items in it and the calls of each thread. Lists of two: the
  second retire makes room, through `cleanUpLocal`, `Scan`, `HelpScan` and `CleanUpAll`. The setups:
  two threads that enqueue and dequeue; one that leaves, so that its list is adopted; one that
  leaves and comes back while the other cleans up its nodes. `MoirQueue` in one of them. The code
  takes lists of `threads * (guards + links + transient links + 1)`; with one cell `retireNode`
  would wait for itself, since its own guard is on the node. The setups stay below
  what makes the code fail (section 6): an enqueue that walks while the nodes it passes are
  dequeued, a third record whose owner moves claimed nodes. That a claimed cell is used again
  happens in the setup with the return; within these bounds nothing else follows from it.
- *Symmetry* over threads, nodes, values, pages and descriptors is used in safety runs and in
  refinements, none of which is a liveness property, and not in `q_lockfree` and `locks`.
- *Deadlock* is checked except in the runs of `HazardPointers`, where every
  thread may have died. For the locks, the lazy list and the bucket table it is a result.

Each property has a mutant in `PROJECT.json`: a plausible mistake in
one definition (a dropped re-check, an array off by one, a hand-off forgotten, an
uncleared array) under which the run must fail.

## 4. Fairness

`LockFree` is checked under `SchedulerFairness`: if some thread that is inside an
operation can always take a step, some thread does. Nothing is assumed of any single
thread: a suspended thread may be suspended for ever. That is all an operating
system that runs at least one runnable thread gives, and it is what distinguishes
lock-freedom from deadlock-freedom. The property reads: either all threads are idle
again and again, or operations return again and again.

`DeadlockFree` and `TicketServed` are about blocking code, which must rely on more:
every thread is scheduled (weak fairness of each thread's steps), one that
is inside a section leaves it, and it calls lock at most as the bound allows. A spinning
thread reads the lock word again and again, so its own steps are always enabled and
weak fairness gives it no turn at the lock: single threads may starve on a spin lock,
and the properties do not claim otherwise. Only the writers with tickets are served.

No other property needs fairness; `liberate` and `HelpScan` are bounded loops, and
their postconditions (`LiberateComplete`, `HelpScanAdopts`) are stated as invariants at
the end of the loop.

## 5. Proofs

TLC checks small instances; the theorems below hold for every set of threads, nodes and
links and for every number of records, slots, guards, retired pointers and counter values. In the
table, `A /\ Spec => []P` says which assumption a result needs.

| module | theorem | statement |
|---|---|---|
| `Reclamation` | `Contract` | `Null \notin Node /\ RSpec => []UsedNotFreed` |
| `HazardPointers_proofs` | `TypeCorrect`, `FreesOnce`, `Exclusive` | `Spec => []TypeOK`, `[]RetiredOnce`, `[]RecordExclusive` |
| | `Invariance` | `Fenced /\ CopiesAscend /\ Spec => []IInv` |
| | `Safety` | `Fenced /\ CopiesAscend /\ Spec => []GuardedNotFreed` |
| | `Refinement` | `Fenced /\ CopiesAscend /\ Spec => Reclaims` |
| | `AdoptsAll`, `KeepsAll` | `Spec => []HelpScanAdopts`, `[]Findable` |
| | `LosesNothing` | `Fenced /\ Roomy /\ Spec => []NoneLost` |
| `PassTheBuck_proofs` | `Invariance`, `TypeCorrect` | `Spec => []IInv`, `[]TypeOK` |
| | `NothingLost`, `LeavesNothing` | `Spec => []OnePlace`, `[]LiberateComplete` |
| | `Refinement`, `Safety` | `CopiesDescend /\ Spec => Reclaims`, `[]GuardedNotFreed` |
| `Locks_proofs` | `TypeCorrect`, `WordsTrue` | `Spec => []TypeOK`, `[]WordsAgree` |
| | `WritersPreferred` | `Spec => WriterPreference` |
| | `MutualExclusion` | `Spec => IsMutex`: all five classes implement `RWMutex` |
| `HPQueues_proofs` | `Always`, `ContractKept` | `QSpec => []Inv`, `KeepsContract` |
| | `WellTyped`, `Safe` | `QSpec => [](kind \in Proved => TypeOK)`, `NoUseAfterFree` |
| | `ListInShape` | `IsFiniteSet(Thread) => (QSpec => [](kind \in Proved => Shape))` |
| | `TakesEffectAtOnce` | `QSpec /\ kind \in Proved => KeepsOrder` |
| `PlainQueues_proofs` | `NoTwoAtOneCell` | `Spec => []NoRace` |
| | `IndicesInside`, `LaidOut`, `RefusedRightly` | `Spec => [](kind \in Proved => TypeOK)`, `Layout`, `Refusals` |
| | `TakesEffectAtOnce` | `Spec /\ kind \in Proved => Linearizable` |
| `SetsAndMaps_proofs` | `Invariant`, `ListsKeepContract` | `Spec => []Inv`, `KeepsContract` |
| | `ListsSafe`, `ListsShape` | `Spec => [](kind \in Lists => NoUseAfterFree)`, `Shape` |
| | `ListsAreSets` | `kind \in Lists /\ Spec => IsSet` |
| `HashMaps_proofs` | `MapsInvariant`, `MapsAreSets` | `kind \in Maps /\ Spec => []MapInv`, `IsSet` |
| | `MapsShape` | `IsFiniteSet(Thread) => (kind \in Maps /\ Spec => []Shape)` |

In `PlainQueues_proofs`, `Proved` names four of the eight classes: Vyukov's queue, both queues of one
producer and one consumer, and the two-lock queue; in `HPQueues_proofs` it names `MSQueue`, `MoirQueue` and
the stack, all classes but `LMSQueue`, whose guards do not protect it (section 6, item 2). In `SetsAndMaps`, `Lists` names
the two lists over guards, `Maps` the hash map and the split-ordered list.

Assumptions, besides the named ASSUMEs on the constants:

- `Fenced`: guard stores are visible before the link is read again. `hp_store_buffer` refutes
  `Safety` without it, and it is finding 1 of section 6: the code's own store does not ensure it.
- `CopiesAscend`, `CopiesDescend`: a container copies a guard only to one that the scan, or
  `liberate`, examines later. *copy down* and *copy up* (section 3) refute the theorems without.
  MichaelList over `gc::hzp` satisfies the first; findings 4 and 5 are the walks that do not.
- `Roomy`: an array has more room than all threads have slots, "Must be greater than
  `nHazardPtrCount * nMaxThreadCount`" (`cds/gc/hzp/hzp.h:231`). The constructor takes the larger of
  the argument and a default (`src/hzp_gc.cpp:64`) and does not compare it with anything, so this is
  what the caller must see to. It counts threads, not records: the list of records may be longer.
- For the locks, that the counters can count all threads (`Cardinality(Thread) < Wrap`), as 15 bits do.
- For the counter of a queue (`ListInShape`) or of a map (`MapsShape`), that there are finitely many threads to count.
- `SplitOrder`, for the maps, an assumption on the constants `Bits`, `MaxExp2` and `Hash`: see below.
- For Vyukov's queue, that positions wrap at a multiple of the capacity (both are powers of two in the
  code) and that no call lasts while its position is left `MaxLag` behind, with
  `2 * (MaxLag + BufferSize) <= Modulus`: the signed difference of two words then is that of the
  positions. In the code that is 2^63 operations during one call.

### HazardPointers

Three layers, each inductive by itself, so that each theorem assumes only what it needs.

`IBase`, of whatever memory order and copies:

- `IOwner`: which thread owns which record, and which one `HelpScan` has taken.
  Without it a second thread could write the slots or the array another relies on.
- `IHome`: every entry of an array is a retired cell, in one array, also while an
  adoption has an entry in two (`Pending` counts it once).
- `ILink`: what a link names is linked, and by no other link; what is about to be
  retired is unlinked and held by one thread. So `CheckLink` confirms live nodes only.

`IInv`, under `Fenced` and `CopiesAscend`. `GuardedNotFreed` is not inductive: a guarded node could
be freed by a scan that has already read the guard's slot, so the invariant must say what an
unfinished scan knows:

- `IStore`, `ISlot`: nothing waits in a store buffer; slots without a guard are null; the slot
  written in `derefLink` still holds the pointer at the second load; a blocker of `n` holds `n`.
- `IScan`, the heart: for a node in the scanning thread's array, each blocker in a
  slot that the scan has passed was seen (`plist`). A slot that starts to hold
  the node after the node was retired is not a blocker; a blocker cannot move
  to a passed slot except by a copy from a slot also passed, by `CopiesAscend`.
- `R!RInv`: a confirmed slot holds its pointer, which is not free and, once retired,
  is blocked by the slot. With `IScan` complete (`cur = 0`) every node in the array
  with a blocker is in `plist`, so `Sweep` frees none (`SweepFreesUnblocked`).

There is one lemma for each part (`StepOwner`, `StepPending`, `StepLink`, `StepSlot`, `StepScan`,
`StepUsing`, `StepType` and so on), with one step per action, combined in `StepBase` and `StepInv`.
`StepRefines` maps each action to a step of the contract or a stutter.

The second half of `HazardPointers_proofs` adds what the retired pointers need.

- `IRetired` (no assumption): `m_bFree` means what `HelpScan` takes it for (`IFree`); every
  retired pointer is in some array (`IKept`); and `IHelp`: a record that was abandoned when a `HelpScan`
  began, and still is, lies ahead of it, and at the record under its eyes its CAS cannot fail, since no
  other thread may have taken it. So the CAS that `HelpScan` does not repeat loses nothing.
- `IArrays` (under `Fenced` and `Roomy`): an array is full only while its owner scans (`IFull`), and
  `IRoom` bounds what the scan keeps. It would be tempting to say that a scan keeps at most one entry
  per slot; but slots change while it reads them, a guard may be copied to a slot not yet
  read, and then one pointer, or two pointers one after the other, may be met in more slots than
  ever held them at once. `IRoom` is a count of *Seen* entries plus *Open* slots, the slots in which the
  scan may still meet one: an entry is no longer linked, so it moves from slot to slot of a thread
  that holds one and to no other thread. Meeting one more costs a slot. Hence a scan keeps at
  most as many as all threads have slots, and frees one at least if the array is larger.

### PassTheBuck

`IInv` needs no assumption: types; the pool and the lists of guards are
disjoint (`IPool`), guards not yet pushed are unused (`IPushed`), the guard of a running loop
is held (`IProtect`), links (`ILink`), `liberate` runs once at a time and its locals are empty
otherwise (`ILock`). Each retired node is in one place: the buffer, the set or one hand-off (`IPlace`);
a guard that has posted a node since its retirement posts it now (`IHolds`); and `IStray`: what was not
posted since `liberate` began is in the set, or a hand-off of a guard it has yet to examine, which will give
it back. At the end no guard is left, so nothing is stray: `LeavesNothing`.

`IScan` is apart because only it needs `CopiesDescend`: no guard that `liberate` has walked past
blocks a node of the set. The hard case is a node it took back from a hand-off: `doneGuardSet`
tells that an earlier guard posts it. The refinement follows as above, and `Safety` from the refinement and
`Contract`, not from the invariant: the contract is enough for what containers rely on.

### Locks

`IInv` is `SpinInv` or `RWInv`, by the class. For the spin locks: the owner word names the holder
or nobody, the lock word is what the holder's nesting makes it, and where the two disagree for a moment
the holder is between its two stores. For the reader-writer locks each counter of the barrier is
the number of threads in a set of program counters (`Counts`), so a step of one thread changes it by
`DiffStep`; `Expects` says what a thread that has loaded the word may rely on if its CAS
succeeds, `Queued` that tickets are distinct and that each is as many turns away as there are workers
before its owner, all of those inside among them. Hence the writer whose turn it is finds nobody inside.
Counters wrap: `ModSmall` and the bound on the threads make equal remainders equal counts.
`MutualExclusion` maps program counters to the abstract modes, step by step.

### PlainQueues

An object has one class for ever, so `Inv` says of each class in `Proved` that its own invariant holds.

- `VInv`, Vyukov's queue. Everything is counted from the position next to dequeue: `VAt(i)` is the
  position `i` further, and its cell, for `i` below the capacity. The first `Len(items)` cells hold
  their item or are being filled, the others wait for the next lap or are being emptied (`VCells`), by
  the one thread that took the position (`VBusy`, `NoRace`). Two parts make this inductive. `VLag`: a
  position in the hands of a call is at most `MaxLag` old, so the signed difference with the
  sequence number is the true one (`DifIs`). And `VReady`: between the look at the sequence number and the
  CAS anything may happen, but if the CAS succeeds the cell still is as it was seen, since it can
  only change by a call that takes the position first. The arithmetic (`ModIs` to `CellLap`) is done
  once for words, positions and cells.
- `CInv`, Lamport's buffer: there are at most `Size` items for `Size + 1` cells, so a full and an empty
  buffer differ; what one side has found (room, or an item) stays true until that side moves its own
  index (`CBusy`). `FInv`, FastForward, likewise, with null as the sign of a free cell.
- `RInv`, the two-lock queue: who holds which lock (`RLocks`), the list as a chain of different nodes, of
  which `m_pTail` is the last unless the holder of the tail lock is about to move it (`RShape`), nodes in
  the hands of one thread (`ROwn`), and what a call has read (`RKnows`). A dequeue that
  takes the last item moves the head to the node that an enqueue has just linked, and
  frees the one before it; `RTailLock` shows that the enqueue has no more business with that one.

`TakesEffectAtOnce` maps the CAS on the position, the store of the index (FastForward: of the cell), the link of the
node, and the move of the head to the instant of the call (`VEffect`, `CEffect`, `FEffect`,
`REffect`). An enqueue fits: the two-lock queue can never hold as many items as there are
nodes while an enqueue has one in hand, by the pigeonhole principle (`RFits`).

### HPQueues

`Inv` says of each class that its own invariant holds: `QInv` of the two queues, `SInv` of the stack. Both
contain the invariant of `Reclamation` (`RGood`), since what the containers are proved to keep is also
what they rely on: each step keeps the contract (`QContract`, `SContract`), therefore a guard that was confirmed
holds a node that is not free (`UsedIsSafe`), therefore the next step knows what it reads (`QTouches`,
`STouches`, which are `Safe`). Nothing is assumed of the collector but the contract, and
`HazardPointers_proofs` and `PassTheBuck_proofs` show that both implement it.

- `QInv`. `QChain` and `QTail` are the list: linked nodes, all different, each leading to the next, the
  tail at the last or at the one before; or, in a `MoirQueue`, at the node that the head has just left. `QGone`
  is what makes reading old nodes harmless: a node that left the list still leads to
  the one behind it, so a link found null is at the tail, and an enqueue cannot append to a node
  that is gone. `QOwn` and `QApart`: nodes not yet linked or already unlinked are in the hands of one
  thread. `QEnq` and `QDeq` list what a call knows at each program counter; the heart is that a dequeue whose
  CAS on the head succeeds has read the head's own link (`lh[t]` is the head or gone, and cannot come back
  while it is guarded), and that the head does not pass the tail in `MSQueue` and the tail is moved off a node
  before `MoirQueue` retires it (`lh[t] # tail`).
- `SInv`. A pop whose CAS succeeds finds the link as it was when it read it: the node is not being pushed
  again by anybody while it is guarded (`SKnow`). `clear` takes all nodes with one CAS and walks
  them without guards; what is left of its walk is a set of nodes of its own, which no link enters from
  elsewhere, so the other threads cannot reach it. That set is not in the state: `SInv` says that there
  is a choice of sets, one per thread (`STaken`), and each step shows the next choice (`Shift`).
- `Counted`: the counter plus the enqueues that have not counted is, up to a multiple of `CountSize`, the length
  plus the dequeues that have not. It needs that one thread's step changes the two numbers of threads by
  at most one (`LateMoves`), hence the finite set of threads.
- `TakesEffectAtOnce`. `Effect` describes what a step may do to the contents and the values, whatever class
  it is of (`QEffect`, `SEffect`). `VInv` adds the values: nodes of the list have one, a dequeue
  that answers "empty" has seen it empty (`Saws`), and the node a dequeue has won keeps its value
  until it is read, since it is guarded (`DataStays`). `Implements` maps each effect to a step of
  `QueueOrStack`: the link, the CAS on the head or the top, the take-all of `clear`; all else stutters.

### SetsAndMaps

The proofs are about Michael's list and the lazy list over guards. The keys are natural numbers, the
nodes finitely many; threads and `Calls` are arbitrary, so the theorems speak of every
sequence of calls that `clear` allows. As in `HPQueues_proofs` nothing is assumed of the collector but the
contract, which the lists are proved to keep at the same time: a guard that was confirmed holds a
node that is not free (`Reclamation!UsedIsSafe`), therefore the next step knows what it reads. What the
invariant of the reclaimer gives to both proofs is proved once, in `Reclamation` (`GoodStep`, `ReleaseAny`,
`UsedIsSafe`).

`Inv` is `MInv` or `LInv`, by the class; both contain `Common`:

- `Sorted`: `next[c]` of a cell on the list is the nearest node above it (or the end when there is
  none), and keys differ. A node is on the list when it is linked and not in the hands of its creator
  (`InList`), which needs no walk; so no step of the proof that a change keeps the order needs
  induction. Three lemmas cover what may happen to the order (`SortedKept`, `SortedInsert`, `SortedRemove`).
- `Marks`, `News`, `Taken`: members are the unmarked nodes on the list; a node that is being
  made is known to its creator only; an unlinked one has a single thread that will hand it over.
- `Noticed`: `sawIn` and `sawOut` of a running call are true as soon as its key has been in, or out.

Of Michael's list, `MPlace` and `MRead` say what a search knows at each program counter: it stands
on a node with a smaller key that its guard 2 protects, and, once `pPrev` is found to still name
`pCur` unmarked, what it read of `pCur` before is worth something. The heart is `Shielded`: the node that
`pNext` names is on the list, or unlinked but not handed over, or blocked by the guard, from the second look at the link
on, as long as `pCur` is linked; hence confirming the guard after the check of `pPrev` keeps the contract. `MDoomed` says that a
marked node has an eraser who will come by: its search has not passed the node's place. So
nothing marked is left when all calls have returned.

Of the lazy list, `LocksHeld` and `LLocked`: what `Validate` found stays true while the two locks are
held. A search reads without locks from nodes that may be unlinked, or retired and blocked by its guard. `LGone`
says that the link of such a node leads to the head, or the eraser still has its locks on the node before it, which
is on the list; so what follows is on the list, or was when its guard was set. Without the back link a search would
follow a dead node to a freed one: it is the mutant `BackLink_None`. `LSaw` is the unlocked answer of `find`.

A step of one thread is proved in three parts: `Does` (what it does to the nodes and guards),
`MOwn` or `LOwn` (what it knows afterwards), and `MOthers` or `LOthers` (what the
others know stays true). The two lists share the first steps and the last.

- `ListsAreSets`. `Effect` lists what a step may do to the set and to its call, `EffectStep` maps each
  to a step of `KeySet`: linking the node is the instant of an insert, marking it that of an erase, and any other
  answer is backed by `sawIn` or `sawOut`. That a search that found nothing saw the key out needs `Sorted`: between
  two neighbours there is a gap (`Gap`).
- `ListsShape`. `Shape` walks the links from the head, so it is about a recursive function, and
  is proved from `Sorted` by `Least`: every set of natural numbers has a least element, so a first
  step at which the walk fails would be preceded by one at which it does not. There is such a walk
  (`WalkExists`, `ChainWalks`), it goes up (`WalkUp`), so it has no node twice and ends within
  `Cardinality(Node) + 1` steps (`WalkEnds`, by the pigeonhole principle), and it passes no node by (`WalkMeets`).

One limit comes from the collectors: `gc::hzp` implements the contract under `CopiesAscend`, and the lazy list
copies a guard to an earlier slot (section 6, item 4). The theorems hold for a
collector that implements `Reclamation`.

### HashMaps

The proofs are about the hash map and the split-ordered list, whose list operations are single steps (what
those promise is proved above: `ListsAreSets`). Keys, threads and the calls are arbitrary.

`SplitOrder` collects what is needed of the reversed hash values: a bucket's dummy node stands before every
item of the bucket, in every size of the table, and after its parent's. It holds of every `Hash` because
reversing turns the low bits that two numbers share into a common prefix, but `Reversed` is a fold with
powers of two, of which no prover here knows anything. So it is a part of `ConstantsAssumption`, which TLC evaluates
for the constants of the run. It also needs
`MaxExp2 < Bits`: `getDummyKey` drops the bit that tells the two halves of a table of `2^Bits` buckets
apart, so the code must not grow that far. Its capacity is limited by memory long before.

`MapInv` says of every call at which program counter it has which operation, key and answer (`Within`), that
`clear` works alone (`Lonely`) and that the answer is backed (`Sees`, which is `Noticed` of the lists). Of the hash
map: every key is in the bucket of its hash (`Chained`), and behind a `clear` the buckets are empty. Of the
split-ordered list (`Split`):

- The nodes ascend in the split order. This is a fact about pairs of positions, so inserting and removing
  at a position keep it (`InsertedAt`, `RemovedAt`), without induction.
- A bucket has its dummy node on the list if and only if it is in the table or one call is about to
  set it. One call: whoever finds the node there waits.
- `Ancestry`: the buckets a call has put off are a chain of parents, and the first stands before its key. So when
  the recursion returns, the dummy node a bucket was inserted behind is that of its parent, and the search
  for the key starts before it. A call that loaded the size of the table before it grew starts
  at a bucket that stands before its key just as well: `SplitOrder` speaks of every size.

The list operation starts at a dummy node on the list and goes to the least position whose node is not
below the one looked for. `Least` gives that position; in an ascending list the node looked
for is there or nowhere, so what the operation answers is true of the whole set. `MapsAreSets` then is shown as
for the lists, each step being one of a few effects on the set.

`MapsShape` adds the item counter (`Tallied`): the counter, and the inserts that have not counted up, agree with the
number of keys and the erases that have not counted down, but for a multiple of the range of the
counter. It says nothing while `clear` of the hash map removes items, and holds again when it sets the counter to 0.

### Only model-checked

- Liveness (`LockFree`, `DeadlockFree`, `TicketServed`): liveness under fairness and facts about
  ENABLED are beyond the proof system. The installed provers cannot use the induction theorems of
  the library, which take an operator as a parameter; `Least` does their work for sets of numbers.
- The tagged list of `sets_and_maps`, the bag, the allocator and `gc::hrc`: their invariants and
  refinements. That reversed hash values are ordered as `SplitOrder` says.
- That the lazy list is free of deadlock: the run checks it, `ListsShape` proves who holds which lock.
- Of `q_safety`, `LMSQueue`, whose order rests on a collector more patient than the code's.
- Of `plain_queues`, the tagged containers, and Tsigas and Zhang's queue, which keeps its order only
  within a bound on the calls that overlap (*stale mark*), so that there is no theorem for every bound.
- The pool of `retired_ptr_node` cells that Pass-the-Buck keeps is not modelled.

`hp_records`, `ptb_contract`, `q_safety`, `plain_queues`, `sets_and_maps` and `locks` check on small instances what is proved; the
inductive invariants were checked there, too, before they were proved.


## 6. Where the code and its documentation disagree

Found by runs (`findings` in `PROJECT.json`):

1. *Guard stores are not fenced* (`hp_store_buffer`). `derefLink` stores with
   `membar_release`, a plain `mov`, and loads the link; a scan on another processor
   may miss the guard although the link was seen unchanged.
2. *`LMSQueue` validates guards by a link that never changes* (`lms_guards`). dequeue
   guards the node before the head and looks at the link to it again, not at the head: the
   node may have been dequeued, retired and freed before the guard was set.

Reproduced by a configuration that is no run (section 3):

3. *`TZCyclicQueue` breaks its order* (*stale mark*). The mark put on the
   argument (`cds/queue/tz_cyclic_queue.h:136`)
   stays when the attempt fails; stored over the other kind of free cell, it breaks the
   alternation that protects the CAS of an enqueue begun in an earlier lap. With the mark
   computed afresh in each attempt the model keeps FIFO order until a whole lap (4 operations
   of 4 cells) passes during one call.
4. *LazyList walks copy a guard to a lower slot* (*copy down*). `search` copies guard 1 to guard 0
   (`cds/ordered_list/details/lazy_list_hpgen.h:625`); a scan reads slots
   in ascending order and can see the pointer in neither.
5. *MichaelList walks copy a guard in the order opposite to `liberate`*
   (*copy up*): the search copies guard 0 to 1
   (`michael_list_hpgen.h:660`), and `liberate` walks the guards newest
   first (`src/ptb_gc.cpp:156`). For hazard pointers the same walk is safe
   (copies go upwards: `CopiesAscend`).
6. *The allocator may unlink a superblock that is in use* (*unlink*, after 90
   steps). A `free` that empties a superblock looks for it in the
   partial list some time later (`cds/memory/michael/allocator.h:1698`, `1703`);
   meanwhile the descriptor may have been taken by an allocation, freed, used for a new
   superblock and put into that list again. It is unlinked and its page is given back with
   blocks in use, although a superblock is empty only "if all its blocks are free" (line 768).
7. *An enqueue over `gc::hrc` may read a destroyed node* (*walk*). The walk to
   the last node keeps `pPrev` in `hpArr[2]` only (`cds/queue/msqueue_hrc.h:189`), and the next `derefLink` stores the successor there before
   it reads `pPrev->m_pNext` again. "Hazard pointers are used for guaranteeing the
   safety of local references" (line 39).
8. *A cell is used again while it is claimed* (*rejoin*): `CleanUpAll` counts up
   `m_nClaim` of a cell it has seen full; if the owner destroys the node and takes the cell for another first, `push` asserts that the claim is zero
   (`cds/gc/hrc/details/hrc_retired.h:117`) and then resets it, and the count goes below zero
   when the claim is given back.
9. *`HelpScan` moves nodes that are claimed* (*move*). `CleanUpAll` claims a cell;
   `HelpScan` moves its node to another one without a look at
   the claim (`src/hrc_gc.cpp:323`), and the scan of the new owner destroys the node while it is
   being cleaned up.
10. *The tagged list loses an insert* (*end*, 20 steps, two threads). A search
   that unlinks a deleted node goes on with `pCur = pNext`
   (`cds/ordered_list/michael_list_tagged.h:1018`), which still has the Deleted bit and the tag of
   the deleted node's link. If that is the end of the list the position is returned without a
   look at `pPrev`, `insertAt` writes null with the Deleted bit into the new node (line 747),
   and its CAS, which strips the bits (759), succeeds if the two tags are equal: the
   new node is in the list and deleted from the start. The first erase
   after the first insert is enough: the head's tag and the tag of the node's link are both 2.
   The comment says "Returns true if new item has been inserted" (line 480).
11. *The tagged list answers from a free node* (*key*). The check of `pPrev` compares pointers
   without tags (line 979), and the key is read through a reference after it (977, 986).
   Meanwhile the node may have been erased, freed and allocated for the key that is looked
   for: find says yes, and insert says no, for a key that is not in the list.
12. *The tagged list deletes a node while its functor runs* (*changing*). The physical deletion
   of the next node expects the Changing bit of this node's link as it was read and
   replaces the link without it (line 829); another erase then deletes the node. "The list
   only garantees that the item found by key cannot be deleted while func worked" (line
   535), and `~auto_clear_mark` asserts that the bit is still there (346).

Noticed in reading, without a run:

- *Collectors.* `classic_scan` asserts that some hazard pointer is set
  (`src/hzp_gc.cpp:187`), false when a container is destroyed without guards. A thread id
  that the system uses again makes a dead owner look alive (`src/hzp_gc.cpp:289`).
  The doc of `guard_data::isFree` (`cds/gc/ptb/ptb.h:118`) does not fit free guards
  that still post. `retired_ptr_pool` documents that cells return at thread exit
  (`ptb.h:353`), they return at every `liberate`, and its pop has no tag (`ptb.h:439`).
  The counter of the buffer is cleared after the list was stolen (`ptb.h:336`). The
  destructor of the Pass-the-Buck collector leaks handed-off nodes. `HelpScan` of `gc::hrc`
  does not adopt the arrays of threads that died (`src/hrc_gc.cpp:299`), and its `m_RC`, unsigned,
  passes below zero when a link goes before its own increment (`cds/gc/hrc/hrc.h:583`).
- *Queues.* Vyukov's dequeue returns false "if queue is empty"
  (`cds/queue/vyukov_mpmc_bounded.h:243`), and also when a completed item waits behind one
  whose enqueuer has its position and has not yet published it (`Refusals` states this
  case). `MSQueue::empty` compares two loads in an order the compiler chooses
  (`msqueue_hp_impl.h:176`): with the tail first it may say yes for a queue that was
  never empty. `size()` wraps below zero (`Shape` states by how much it is off).
  `RWQueue::clear` does not count down (`rwqueue.h:179`). `CircularFifo` orders the
  plain store of an element and the volatile one of the index by nothing but the
  compiler's habit (`csqueue.h:62`).
- *Locks.* `SpinT` documents that any thread may unlock (`spinlock.h:78`), a debug build
  asserts the owner. `changeOwner` to a thread that is waiting for the lock leaves it
  waiting for itself.
- *Lists.* `erase` of `MichaelList` may return true without calling its functor
  (`michael_list_hpgen.h:578`); `clear` dereferences a null head when a concurrent
  erase empties the list (`333`); `empty` may say no when only marked nodes are left.
  The functor of the tagged list's erase is called after the node is marked
  (`michael_list_tagged.h:825`), when another thread may have unlinked, freed and reused it.
  The marks that the lazy list's `validate` tests are implied by its back links.
- *Maps.* `clear` of the hash map resets the counter while inserts count up
  (`michael_hash_map.h:590`); the counter of the split-ordered list wraps when an erase
  is ahead of its insert, and the table grows for nothing; a table for one item has one
  bucket, and the log of the bucket count starts at 1; `1 << m_nBucketCountExp2` is an int.
- *Bag.* `1 << Id` is an int (`sbag_hrc.h:361`): thread ids from 31 on set wrong bits. A type
  larger than a cache line makes `c_nBlockSize` 0, and `add` allocates for ever. `DeleteNode` is
  empty, so blocks leak.
- *Allocator.* `realloc` takes the in-place path on the inverted condition
  (`allocator.h:1744`).

## 7. Not modelled, and why

- The reclamation of the bag's blocks by `gc::hrc` (`DeleteNode` is empty), nodes with several
  links and marked links over it (no container has them).
- Single-threaded phases: construction and destruction of collectors and
  containers, `detachAllThread`, non-concurrent iterators.
- Statistics, logging, thread-local storage, allocators of internal cells.
- Guards destroyed out of order in `gc::hzp` (its allocator is a stack; guards are
  automatic objects) and reuse of thread ids by the system.
- Memory orders other than the buffering of guard stores: all atomics are
  sequentially consistent steps otherwise.
- `empty()` of the queues and stacks, and size and empty of the maps: loads only.
- The item counters of the tagged queues and of `RWQueue` (dummies by default),
  `TZCyclicQueue` for types other than pointers. The caller of a queue of pointers does not
  enqueue null, which the free cells stand for.
- In the allocator: blocks that come straight from the system, aligned blocks, `realloc`,
  the choice of the size class.
- The `ll_sc` atomics, bit operations, back-off, initialisation: pure functions, waiting
  loops, start-up code.

## 8. Plan

Done: the collectors `HazardPointers` (with proofs) and `PassTheBuck`; every container over
guards; the containers over tagged pointers, arrays and locks; the locks; the ordered lists
over guards and tags and the maps; the bag; the allocator; `gc::hrc` with its queues. Next:

1. `gc::hrc` with claims that `HelpScan` and `push` respect and a fourth guard in enqueue: the
   three configurations of section 6 become setups of the run.
2. The allocator with several heaps, and `Spec` for `PromptSpec` once the unlinking is repaired.

Theorems worth proving next, in this order: `TypeOK` and `Layout` of the tagged containers (a
word whose tag is known has not changed since it was read, the free list and the container are
chains without a common node); `Conserved` of `MichaelHeap`; `Shape` of the list
over tagged pointers.
