# A TLA+ development of Learn-Cpp

The repository is a collection of small, self-contained C++ programs: queues,
locks, schedulers and containers with the threads that drive them, an interview
exercise that reconciles market feeds in eight ways, and a set of latency
servers. This directory holds TLA+ models of its core logic, the TLC runs that
check them on small instances, and TLAPS proofs of the results that matter most
for every value of the parameters.

All paths below are relative to the repository.

## 1. The system: inventory

| Component | Source | State | Operations | What is hard |
|---|---|---|---|---|
| SPSC ring buffer | `topics/concurrency/lockfree_spsc_ring_buffer.cpp` | slots, two atomic indices, `done` | push, pop, empty | stale indices, memory ordering, the last items at shutdown |
| Feed reconciler | `extras/citadel_interview/main.cpp` | entries by id; vector, map, heap, wheel or flat hash table around them | onFeed, onTimer, driven by runBench | late events, stale heap elements, wheel wrap-around, tombstones |
| Capstone pipeline | `topics/domain_sketches/hft_capstone_pipeline.cpp` | ring, `done`, book | producer and consumer loop | what happens to the updates left when `done` is set |
| Lock-free stack | `topics/concurrency/lockfree_stack.cpp` | `head_`, linked nodes | push, pop, destructor | races on `head_`, reuse of node addresses |
| Bounded blocking queue | `topics/concurrency/bounded_blocking_queue.cpp` | queue, two condition variables | push, pop | lost wake-ups with notify_one |
| Thread-safe queue | `topics/concurrency/thread_safe_queue.cpp` | queue, `done_`, condition variable | push, try_pop, wait_and_pop, set_done | polling against waiting, shutdown |
| Reader-writer lock | `topics/concurrency/reader_writer_lock.cpp` | `readers_`, `writing_`, condition variable | lock/unlock for read and write | one variable for two predicates |
| Thread pool | `topics/concurrency/thread_pool.cpp` | task queue, `stop_`, condition variable, futures | submit, worker loop, destructor | notification after unlock, submit during shutdown |
| Async logger | `topics/io/async_logger.cpp` | queue, `done_`, condition variable | log, worker loop, destructor | messages queued or in hand at shutdown |
| Wait-free SPSC queue | `topics/concurrency/waitfree_spsc_queue.cpp` | slots with a ready flag, two private indices | enqueue, dequeue | the flag is the only protection of a slot |
| Fork/mmap IPC | `topics/concurrency/fork_mmap_ipc_sync.cpp` | shared page, pipe | parent and child scripts | a child that dies early, a signal before the wait, destruction |
| Double ring notes | `topics/concurrency/notes_spsc_bump_vs_double_ring.cpp` | two rings, buffers | push/pop, single and batch | partial batches, a shared array, shutdown |
| Ping-pong | `topics/concurrency/context_switch_threads_vs_processes.cpp` | turn flag; two pipes | turn taking | termination, failing reads and writes |
| Parallel factors | `topics/concurrency/parallel_math/` | maps under a mutex, futures | two phases of threads | results in any order |
| Market data queue | `topics/domain_sketches/market_data_message_queue.cpp` | ring | publish, consume | the last messages at shutdown |
| Order book | `topics/domain_sketches/order_book_matching_engine.cpp` | price levels | add_order | price-time priority, empty levels |
| Event loop | `topics/io/event_loop_epoll_kqueue.cpp` | callbacks by descriptor | add_fd, run_once | the kernel interface |
| TCP echo server | `topics/io/tcp_echo_server_nonblocking.cpp` | vector of clients | accept, recv, send, close | removal during the scan |
| Timer wheel | `topics/io/timer_wheel.cpp` | slots, current slot | schedule_after, tick | an unlocked read, wrap-around |
| Token bucket | `topics/io/rate_limiter_token_bucket.cpp` | tokens, time of the last refill | try_consume, refill | an unlocked public method |
| Memory pools | `topics/memory/fixed_size_memory_pool.cpp`, `slab_allocator.cpp` | free list in the chunks | allocate, deallocate, grow | links and objects in the same bytes |
| LRU cache | `topics/memory/lru_cache.cpp` | list and map | get, put | the two in step |
| SmartContainer | `topics/memory/smart_container/` | buffer, size, capacity | vector operations | lifetimes, growth, iterators |
| Hash table | `topics/microarchitecture/cache_friendly_hash_table.cpp` | cells | insert, find, rehash | growth |
| Search and sort | `topics/appendix/classic_algorithms/` | a vector and indices | five loops and a table look-up | boundaries |
| Language ring | `topics/language/spsc_ring_buffer.cpp` | ring, two stop tokens | push, pop | stop order |
| Latency servers | `extras/latency/` | pool, queue, counters, descriptors | network, handler, consumer and stats threads | a pool shared without a lock, many producers, shutdown |

The components do not call each other across files: each program is one
translation unit. What they share is a *protocol*. The ring of
`lockfree_spsc_ring_buffer.cpp` appears again, line for line, in the capstone
pipeline, and every queue is compared by its benchmark with a mutex-and-deque
baseline. The development follows that structure: `BoundedFifo` is the baseline,
the rings and monitors are shown to implement it, and the pipeline is built on it.

`PROJECT.json` lists every component with its status, and every hazard with the
line where it bites and the properties that cover it.

## 2. The modules

```
BoundedFifo                 abstract queue (the mutex-and-deque baselines)
  <- SpscRing               lock-free ring, release/acquire memory  (+ SpscRing_proofs)
  <- WaitFreeSpscQueue      ring of ready flags
  <- BoundedBlockingQueue   two condition variables  (+ BoundedBlockingQueue_proofs)
  <- ThreadSafeQueue        one condition variable, done flag
  .. CapstonePipeline       uses it as its ring
CondVar                     std::condition_variable: notify_one, notify_all, spurious wake-ups
  .. BoundedBlockingQueue, ThreadSafeQueue, ThreadPool, AsyncLogger, ForkIpc, PingPong
  .. ReaderWriterLock

DemoPrograms                the concurrent programs, one of which runs:
                            (+ DemoPrograms_proofs, and DemoOwners_proofs, which extends it)
  ReaderWriterLock, ThreadSafeQueue, AsyncLogger, ThreadPool, WaitFreeSpscQueue,
  LockFreeStack             Treiber stack with an allocator that reuses addresses
  CapstonePipeline          producer, ring and consumer loops
  LatencyServer             v1, v2, v3, v5 of extras/latency, with MemoryPool or new
  ClientHandlers            v4: a thread per connection, shutdown by close
  ForkIpc                   parent and child over shared memory
  PingPong                  turns between two threads, between two processes
  RingDemos                 the market data queue, its mutex baseline, the language ring
  DoubleRing                buffers from an arena, or going round two rings

SequenceObjects             abstract containers: objects that are sequences
  <- SmartContainer         the buffer, the lifetime of its cells, one iterator
Components                  data structures and sequential programs, one of which runs:
                            (+ Components_proofs, and Containers_proofs, which extends it)
  SmartContainer, LRUCache, FreeListPool, OpenAddressingHashTable, OrderBook,
  TokenBucket, TimerWheel, ClassicAlgorithms, FactorSearch,
  DescriptorTable           the connections of the echo server and of v5

FeedEntry                   Entry, alert test, expiry
  .. Reconciler             scan reconcilers: what the others must agree with
  .. ReconcilerHeap, DirectIndexHeap, DirectIndexWheel
  .. FlatHash               the open-addressing table
     .. FlatHashHeap, FlatHashWheel
FeedDriver                  runBench with one object of each class  (+ FeedDriver_proofs)
```

`<-` reads "is implemented by", `..` "is used by". A specification that is run
has one or more `MC*.cfg` files. The set of hash functions and the symmetry of the
reconciler runs, which are no constants a `.cfg` can write down, are `MCHashes` and
`Symm` at the end of `FeedDriver`. A definition whose name is not that of the code and
which stands directly before one that is (for example `PushStore` before `PushCas`)
is a deliberately wrong variant of it: replacing the second by the first must
break the property named in `PROJECT.json` under "mutants".

### State and actions against the code

**SpscRing.** An atomic index is the sequence of the values stored in it so far,
each with the clock its release store publishes. A load by the other thread may
return any value not older than the last one it saw, so a thread acts on stale
indices exactly as the memory model allows; an acquire load joins the clock into
the loader's view. `PCheck`, `PWrite`, `PPublish` are `push` cut at its shared
accesses, `CCheck`, `CRead`, `CRelease` are `pop`; `CNotDone`, `CDone`, `CEmpty`
are the loop condition of the consumer. `wrAt` and `rdAt` record the accesses to
each slot, so that a data race is a state predicate.

**WaitFreeSpscQueue.** The same clocks, carried by the `ready` flags. Since the
two threads store into a flag in turn, a stale load can only return the loader's
own value, which makes the call fail and be repeated: a stuttering step.

**Monitors.** A critical section is one action, since all state is guarded by one
mutex. A thread in the wait set of a condition variable is asleep; `NotifyOne`
removes some member, `NotifyAll` all of them, and `SpuriousWakeup` any member at any
time. A woken thread evaluates its predicate again as an ordinary action. In
`ThreadPool` the notification is an action of its own, because `submit` and the
destructor notify after they have released the mutex. Tasks may submit further
tasks, which is the only way the "submit on stopped pool" branch is reached.

**LockFreeStack.** `delete` returns an address to the set the next `new` chooses
from. `old_head->next` and the CAS of `pop` are separate steps. With `Concurrent`
FALSE the popper starts after the pushers are joined, as `main` does.

**CapstonePipeline.** The ring is `BoundedFifo` (its class is the protocol of
`SpscRing`). The loop condition and the body of the consumer are separate
actions, each with its own pop.

**LatencyServer.** The network thread and the consumer are cut at their accesses
to the pool: `AllocHead`, `AllocNext`, `AllocStore` are `alloc`, `FreeLink` and
`FreeHead` are `free`. A block holds a link or a message; a message read as a link
gives `Wild`, a pointer whose use is undefined, after which the network thread
takes no step. `push` and `pop` are one step each, since `SPSCQueue` is the
protocol of `SpscRing` with one thread at each end, and `MutexQueue` takes a lock.
`overlap` records that an `alloc` and a `free` have been under way at once, so the
properties can separate what the pool does from what its sharing does. With
`allocator = "new"` (v2) the blocks come from operator new.

**ClientHandlers.** v4 has a detached thread per connection. Each takes its messages
from the one pool and pushes them into the one queue, which was made for a single
producer, and neither takes a lock. `alloc` is cut where `free_head_` has been read and
where the link has been read (`AllocHead`, `AllocNext`, `AllocStore`), `free` where the
link has been written (`FreeLink`, `FreeHead`), `push` where the indices have been read
and where the slot has been written (`PushCheck`, `PushWrite`, `PushStore`); `pop`, which
has one caller, is a step. A block holds a link or the number of a message, as in
`LatencyServer`, so a block given to two threads, a slot written twice and a link read
from a message all happen and have their consequences. `due` lists the messages that
were accepted and not yet counted, `raced` records that two handlers have been
inside `push`, or two threads inside the pool, at the same time. The interleaving is
sequentially consistent: what a stale `write_idx_` or `free_head_` would add between two
connections that do not overlap, which the code does not order, is not modelled. `main`
stops the network thread by closing the descriptor it accepts on: whether a blocked
`accept` notices is left open (`wakes`), as it is by the system.

**ForkIpc, PingPong.** Two actors with the system between them: pipes as counts of
bytes with the ends that are open, `read` and `write` that may fail, writing to a pipe
nobody reads as a kill. A section under the shared mutex is one step.

**RingDemos.** The two lock-free rings step by step, the mutex queue in one step per
call, under the loops of their `main`. The indices here are the ones last stored:
what stale loads do is checked and proved in `SpscRing`.

**DoubleRing.** A buffer is a number, a batch an array with a fill count and the
number pushed. In batch mode the array is one for both threads, as in the code, and
a partial `push_batch` starts again from the first buffer, as its loop does. Bump
mode counts through the arena.

**SmartContainer.** A container is its pointer, cells, size and capacity; a cell
holds a live object or, for an element type with a destructor, a dead one. An
operation that touches a dead object or a freed buffer sets `undefined`, after
which nothing is known; placement new over a live object sets `leaked`. `plain` picks out
the programs that stay away from the calls that do this.

**The other data structures.** One action per public operation, on the state of the
class, next to a reference kept beside it (a recency order, a map, a meter, the
orders sent). `TimerWheel` and `TokenBucket` are cut where the code is outside of
its lock. `OrderBook` makes one step per turn of the matching loops: `add_order`
takes the order, `Match` trades it with the first order of the best level, and `Rest`
leaves what remains of it in the book. `OpenAddressingHashTable` moves the entries of a
full table in one step, by a recursive function over its cells. `ClassicAlgorithms`
makes one step per turn of the innermost loop; `FactorSearch` has one for each
computation and each result of a thread or future. `DescriptorTable` has the kernel's
descriptors (`conn`) beside the table of the program; `told` and `seen` say whom a
round had to serve and whom it looked at.

**DemoPrograms and Components.** The programs are independent executables and the
data structures independent classes. Both modules instantiate them side by side;
the variable `program` (`component`), chosen initially, says which one runs, and
fairness holds for that one only. The state of the others does not move, so the
state spaces add up instead of multiplying. A property of these modules is the
conjunction of one question asked of every program it applies to.

**The reconcilers.** A class is a module in which an object is a record of its
members, `New` its constructor, and `onFeed(s, e)` and `onTimer(s, t)` the object
after the call. `FeedDriver` is the loop of `runBench` (take an event, run the
timers that are due, deliver the event, flush at the end), making each call on an
object of every class, as `main` gives all of them the same workload. The classes
are deterministic, so "implements the scan" is an invariant: the same entries and
the same alerts after every call. The price and size of an execution are one
value. `MaxLate` lets events arrive out of order, which the classes have code for
(`Option A: drop too-late events`). The heap versions keep the expiry elements
they push, the wheel versions their buckets, the flat-hash versions the table with
tombstones and linear probing; `Hashes` is the set of hash functions considered,
and the runs take all of them.

## 3. The runs

| Run | Instance | Shows |
|---|---|---|
| `spsc_ring` | 4 slots, 9 items | no race on a slot, order, nothing lost at exit, both loops end, refinement of `BoundedFifo`; the inductive invariant of the proof |
| `bounded_blocking_queue` | 3 producers, 3 consumers, 2 places | notify_one loses no wake-up, every call returns, refinement |
| `demo_programs` | thirteen programs, below | locks exclude, no wake-up is lost, shutdown loses no work, hand-over is in order, memory has one owner, every program ends; v4 serves as it should until its threads meet |
| `components` | ten components, below | each against its reference |
| `reconcilers` | 2 ids, 2 feeds, 2 values, window 2, timestamps to 5, up to 2 late, 4 buckets, 4 slots, all hash functions | no entry outlives a timer, bounded age, empty after the flush; every class agrees with the scan; heap and wheel cover every entry; look-ups end and find what is stored |
| `flat_hash_tomb` | ids 1 and 2 | **violated:** id 1 is the tombstone key |
| `lockfree_stack_aba` | 1 pusher, 2 poppers, 3 addresses | **violated:** a freed node becomes the head |
| `capstone_loss` | ring of 4, 8 updates | **violated:** some updates never reach the book |
| `latency_pool` | 4 blocks, queue of 2 | **violated:** a block is handed out while it is in flight |
| `smart_container_lifetimes` | 2 values, 2 elements | **violated:** an object is constructed over, or destroyed twice |
| `classic_algorithms` | vectors of up to 3 of 4 numbers | **violated:** a search that does not return, with its target in the vector; a sort that does not sort |
| `double_ring_batch` | rings of 4, batches of 2 | **violated:** a buffer is in two places or in none |

In `demo_programs`:

| Program | Instance | Shows |
|---|---|---|
| reader-writer lock | 2 readers, 2 writers, 2 rounds | exclusion, nobody sleeps through its turn, all finish |
| thread-safe queue | 3 consumers, a poller, 6 items | no wake-up lost to the poller; false means finished; set_done releases all; FIFO |
| async logger | 2 threads, 2 messages each | output order, flush in the destructor, termination |
| thread pool | 3 workers, 3 tasks of which 1 spawns | no worker sleeps on work, the destructor runs every accepted task, main ends |
| wait-free queue | 3 slots, 10 items | race freedom by the flags alone, both loops end, FIFO with all slots in use |
| lock-free stack | 2 pushers of 2 values, 4 addresses | the list is exact, LIFO per pusher, nothing leaked, termination |
| capstone | ring of 4, 8 updates | order at the book, loss only in the drain loop and bounded, ring empty at exit, termination |
| latency server | 4 blocks, queue of 2, 4 receives, pool and new | without an overlap of `alloc` and `free`: one owner per block, messages counted once and in order; a stop ends the server, or leaves the network thread pushing into a full queue for ever |
| client handlers | 2 connections, 3 blocks, 2 slots, 1 message and one more in hand | until two connections are in `push`, or two threads in the pool, at once: what was accepted is counted once, in order and as written, and each block has one owner; a stop ends the server, or leaves it in `accept` |
| fork/mmap | semaphore or none, failing pipe | the child reads what was written, the signal is not lost, destruction comes last; both end, unless the pipe failed |
| ping-pong | 3 rounds, threads and processes | alternation, no lost turn, both end with failures |
| ring demos | capacity 3, 7 messages, three programs | all messages once, in order; done or stop ends both threads |
| double ring | rings of 4, arena 2, batches of 2 | one by one a buffer is in one place; which modes can hang at the stop |

In `components`:

| Component | Instance | Shows |
|---|---|---|
| SmartContainer | 2 containers, 2 values, 3 elements, with and without destructors | it implements sequences; plain use has exact lifetimes; what keeps an iterator valid |
| LRU cache | 4 keys, 2 values, capacity 3 | it holds the most recent keys with their last values, list and map in step |
| memory pools | 2 blocks of 2 | the free list is what the client does not hold |
| hash table | 4 keys, capacities 1 and 4, hashes 0, 1, 3 | it is the map of what was inserted, through every growth |
| order book | 3 prices, 2 quantities, 4 orders | never crossed between orders, as much bought as sold; price-time priority |
| token bucket | burst of 3 tokens of 3 units, 2 units per tick | what is accepted is exactly what rate and burst allow |
| timer wheel | 3 slots, delays 0, 3, 4 | on time when undisturbed; otherwise off by whole rounds, never lost, never twice |
| search and sort | vectors of up to 4 of 4 numbers | what a sort or search returns is right but for `selectionSort`; a binary search that goes on has its target between its bounds, and goes on for ever once the lower bound has moved within them. It does not say that a call returns: many do not |
| factor search | 3 of 3 arguments, both programs | the factors printed for a pair multiply up to the gcd, whatever the order of the threads |
| connection tables | 3 descriptors, 5 connections | table and open descriptors agree, nobody is skipped by a removal |

*Bounds.* A ring is filled more than twice over, so both indices wrap at
different fill levels. The monitors have more threads than places or items, so
that every condition variable has several waiters at once and a notified thread
can be overtaken. In the reconcilers two and a half windows pass: an id can
expire, come back and expire again, and `tick_mod` is the least the constructor
would choose for the window, so that the wheel wraps. A timestamp two behind is
what it takes to reach the test that drops late events. With every hash function
on two ids a probe passes an entry or a tombstone of the other id or its own.
The latency server has one block more than queue and consumer can hold, as the
source has (1024 blocks, 511 or 512 places), so only a race can run the pool dry; so do
the client handlers, with two messages in hand and one in a slot.
`MaxRecv` and `MaxMessages` bound the number of receives that return data; after that the
clients are silent. `MaxMessages` is looked at when a receive returns and counts the numbers
given out, so the second connection may still receive while the first is on its way to its
number: both allocate, fill and push at the same time. `MaxDropped` bounds the counter of failed pushes, which nothing reads.
`MaxTaken` bounds the buffers taken before the stop, enough to go twice round.
The container bound of 3 elements passes the growth from 1 to 2 and from 2 to 4;
the hash table starts at capacity 1 and grows twice, and 4 keys at capacity 4
meet every collision chain including one that wraps; four orders are
what it takes to empty a level and fill the next in part; timer delays are under,
at and over one round of the wheel. The delays 0 and 1 of a tick are the same
after the code's correction. Five connections over three descriptors reuse every
number. `MaxSize`, `MaxBlocks`, `MaxOrders`, `MaxTicks`, `MaxCallbacks`, `MaxAge`,
`MaxLength`, `MaxArgs` and `MaxConns` are the bounds that end those runs.

*Symmetry* is used for feeds and values in the reconciler runs, which have no
liveness properties; ids are not symmetric, since hashes and the tombstone tell
them apart.

*Fairness.* Threads are scheduled: weak fairness of each thread's next step, and
for a thread about to take a mutex that it gets it in the end, since every
critical section is short. A load in a spin loop does not return stale values
for ever (C++ asks that stores become visible in finite time): weak or strong
fairness of the load that reads the newest value. Spurious wake-ups are possible
and never relied on: they have no fairness. The line on
stdin that stops a latency server need never come, and no client has to connect or
send. The CAS loops of the stack need no
more than scheduling, since a failed CAS means another thread's succeeded. The
two seconds after which the double ring is stopped pass, as do the pauses of the
language ring. `components` has only safety properties (`CHECK_DEADLOCK` is off because
each of its bounded programs stops); `classic_algorithms` is
fair to the one thread there is. Of the client handlers the network
thread, the consumer and `main` are scheduled; the connections' threads need not be, for they
are detached and `main` waits for none of them. `ProgramEnds` is one leads-to for all the
programs: from the start, or for a server from the newline on stdin (`Due`), to its end or one
of the ways in which that program can hang (`Ended`).

## 4. Disagreements between the code and its documentation

Each has a run that finds it and an entry under "findings":

- `lockfree_stack.cpp` calls itself ABA-safe; its `pop` compares bare addresses
  and frees nodes at once (`lockfree_stack_aba`). The demo is safe because one
  thread pops after the others are joined, which `demo_programs` shows.
- The consumer loop of the capstone pops in the condition and again in the body,
  so after `done` it loses every second update left in the ring (`capstone_loss`).
  `LossOnlyInDrain` says how much: never before `done` is seen, and at most half
  a ring.
- `kTomb` of the flat-hash reconcilers is 1, which is also an id the workload
  draws (`flat_hash_tomb`).
- The pool of the latency servers, meant to decouple the two threads, is changed
  by both without a lock (`latency_pool`).
- `SmartContainer` promises exact lifetimes; `emplace_back`, `pop_back`, `clear` and
  `shrink_to_fit` construct or destroy objects that `new[]` and `delete[]` own
  (`smart_container_lifetimes`). `PlainUseIsSafe` shows that the rest keeps the promise.
- Both binary searches compute `m = (i + (j - i)) / 2`, which is `j / 2` wherever `i`
  is. A turn that moves `i` and leaves it at or below `j` is repeated for ever: `[1, 2]`
  and target 2 gives `i = 1`, `m = 0` for ever, with the target there (`classic_algorithms`).
  `MovesOnce`, a part of `AlgorithmsRight`, says this of every call of `BinarySearch` and
  `BinarySearchInsertion` whose lower bound moves and stays at or below the upper one.
- `BinarySearch` also sets `j = m - i` where its comment says `[i, m-1]`, which hangs it
  on `{2}` and target 1, and `selectionSort` exchanges inside its inner loop
  (`classic_algorithms`).
- `run_double_ring_fixed` promises that a buffer comes back only after the
  consumer is done with it; in batch mode it does not (`double_ring_batch`).

Others that the models keep, as properties weakened to what the code does:

- `SmartContainer.h` promises "Exception-safe operations" (line 24) and "Strong
  exception safety for most operations" (line 36). `push_back` does `data_[size_++] =
  value` (line 364): when the assignment throws, `size_` has grown, and a default element is
  at the end that nobody pushed. `Append1` of `SequenceObjects` admits `Default` besides
  the values for this reason, so `ImplementsSequences` and `ContainersAreSequences` say
  nothing about the strong guarantee, which `push_back` does not give.
- In v4 every connection allocates from that same pool and pushes into a queue for one
  producer, without a lock. The consumer is said to do "the same latency accounting" as in
  the other variants (`v4_blocking_tcp_pool_lockfree.cpp:41-42`), but when two threads meet in
  either, messages are lost, or counted with the contents of others. `ServedUnlessRaced` says
  until when all is well (`~raced`), and nothing but timing keeps the threads apart. What `alloc`
  and `free` do to each other is shown by `latency_pool`; the clash of two connections has no
  run of its own.
- A network thread that waits for room in the queue does not look at `g_running`
  (`EndedUnlessStuck`), and in v4 `main` may close the descriptor before the network
  thread has stored it, or without waking its `accept` (`Hangs`).
- In v5 the `revents` of a new entry is not written before it is read; after that
  `ConnectionsExact` claims nothing of the scan.
- The parent of `fork_mmap_ipc_sync` spins for ever when its `write` failed.
- `run_single_ring_bump` without batches uses the index `ARENA_CAP` once per turn, one
  past the arena. The model takes that index as the code does.
- `TimerWheel::schedule_after` reads `current_slot_` outside of the lock, and a
  delay of more than one round of the wheel is cut short by whole rounds.
- `TokenBucket::refill` is public and takes no lock; `RateIsExact` holds until it overlaps
  with `try_consume`. Two refills that overlap are not modelled.

## 5. The proofs

Every invariant the passing runs check is proved for every value of the constants,
except the gcd part of `PrintsGcds`; so are the safety parts of the refinements. TLC
found each of them to hold on a small instance first. The seven modules:

| Module | Theorems |
|---|---|
| `SpscRing_proofs` | `TypeCorrect`, `RaceFreedom`, `InOrder`, `NothingLost`, `Refinement` |
| `BoundedBlockingQueue_proofs` | `TypeCorrect`, `NotifyOneSuffices`, `Refinement` |
| `DemoPrograms_proofs` | `MutualExclusion`, `NobodySleepsThrough`, `WakeupsArrive`, `TurnsAndHandOver`, `OnlyTheDrainLoses`, `TheFlagSuffices`, `QueuesImplementFifo`, `NothingLostAtShutdown` |
| `DemoOwners_proofs` | `OneOwnerAtATime`, `OrderSurvives`, `ServedUntilTheyMeet` |
| `FeedDriver_proofs` | `NothingExpiredIsKept`, `AgesAreBounded`, `FlushIsComplete`, `EveryClassFollowsTheScan`, `ExpiryIsExact`, `LookUpsEnd` |
| `Components_proofs` | `GrantsTheRate`, `TheTableIsExact`, `NobodyIsOvertaken`, `NoTimerIsLost`, `WhatReturnsIsRight`, `TheBookBalances`, `EveryOrderPrintsTheSame` |
| `Containers_proofs` | `MostRecentIsHeld`, `NoChunkIsLost`, `EveryKeyIsFound`, `PlainUseStaysSafe`, `ContainersAreSequences`, `IteratorsStayValid` |

"theorems" in `PROJECT.json` says which property of which run each one states.

*The form of the arguments.* A program of `DemoPrograms` or a component of
`Components` has an inductive invariant about its own variables. A step of another
one leaves these as they are, so it is preserved by the whole of `Next`, and a
property asked of several programs follows from the invariants of each. Almost none of
the properties is inductive; what has to be added is listed below. Facts about
sequences, sets and remainders that several proofs need are lemmas over new constants,
not over the state, so that they can be used for the state before and after a step.
A recursive function is dealt with in one of two ways: either it is shown equal to an
explicit function by looking at the least argument where the two would differ, or an
explicit function is shown to satisfy its equation (`Walk`, `Filled`, `moved`).

**SpscRing** (`Capacity >= 2`, any `N`). `IndInv` adds: what each store publishes
(`Clocks`); that positions in the two modification orders less than a lap apart hold
slots equally far apart (`Laps`), which is what modular comparison of indices relies
on; that even against the *oldest* index a thread may still load the producer is at
most one lap ahead (`Gap`), which is why stale indices are harmless; which access
touched which slot (`Epochs`); that written and unread values are intact (`Values`);
and what `done` implies about the last index (`Exits`).

**BoundedBlockingQueue** (finite sets of threads, `MaxSize > 0`). While a consumer
waits, at least as many consumers are awake as there are items, and the same for
producers and free places. The counting is by cardinality of the sets of awake
threads; the invariant adds that a waiting thread is in the middle of a call, so that
waking it makes it count. `Refinement` shows that every step is one of `BoundedFifo`: that
nothing is pushed after item `Total - 1` is counted over all producers at once, as the
pairs of a producer and the number of a call it has made.

**DemoPrograms.** Reader-writer lock: `readers_` is the number of read guards alive
and `writing_` says whether a write guard is. Monitors: as many threads awake as there
are items to take, by cardinality. The wait-free queue: clocks in the ready flags as in
the ring, and neither thread more than a lap ahead. Capstone: the ring holds what
follows the last item popped, and each drain turn loses one and keeps one. Thread pool
and logger: where each accepted task or message is. Stack: the chain of nodes as a
sequence, so that an address is in one place; what a pusher put earlier is deeper.
Latency server: as long as no `alloc` and `free` have overlapped, each block is in one
place and the messages in flight carry the numbers that follow the counted ones; after an
overlap nothing is claimed, for then the code breaks it. Double ring: a buffer is in the free ring, in the used ring or in the
hands of one of the two threads.

**ClientHandlers** (any connections, a finite set of blocks, `QueueSlots >= 2`, any
`MaxMessages`). `HandlersInv` claims nothing once `raced` is set. Until then a thread that
is inside `push` is the only one, and the indices it has read are still the current ones
(`PushAlone`); no block of the free list is reached again from its own link, and a
thread inside `alloc` has read the head that is still there (`ListIntact`); each block is in one place, the list included
(`PlacesApart`); and what is in the slots and with the consumer are the blocks whose
numbers `due` lists (`DueHeld`). A step that makes two threads meet sets `raced` and has
nothing to preserve, which is why the property has that condition: without it each of
the four is false.

**FeedDriver** (any feeds, ids, values, hash functions and `Window`, `tick_mod >= 2 *
Window`). `ScanInv` says that a timer comes before every event it is due for, so an
entry seen by `onFeed` is bounded in age. For each other class the state after every call
is shown to be a function of the scan's: one element of the heap, or one id in the
bucket of its expiry, for each live entry and none besides, which is more than
`ExpiryCoversEntries` asks. `onFeed` and `onTimer` commute with these functions. The flat tables,
whose slots depend on history, have `TableInv`: every entry is reached by probing from its
hash, and each slot that is or was in use can be charged to an id of its own that
reaches it, so erased slots, which never become empty again, do not fill the
table. Two assumptions stand for
what `main` computes: `expected_ids` is at least the number of ids (`LoadAssumption`) and
the loop that doubles `cap` ends with at least twice that (`CapAssumption`). The
theorems about all classes have the hypothesis `1 \notin Ids`: with id 1, the
tombstone key, the statement is false, which is what the run `flat_hash_tomb` shows.

**Components.**

- *Token bucket.* The level of the bucket is a function of what was granted and of the
  time that passed, as long as no unlocked `refill` has raced (`BucketLevel`).
- *Connection tables.* The table holds each open descriptor once; what the scan of this
  round has still to see lies at or after its index. In v5 the entries marked by `poll`
  in the rest of the table are exactly these, and the count that `poll` returned is
  theirs, as long as no new entry brought a `revents` of its own.
- *Order book.* Orders of a level are in order of arrival and as they were sent but for
  their quantity, which makes the first order of the best level the one that priority
  asks for. For `BookIsSound`: each id has at most one open order, so the sum of what is
  open of it is that order's quantity; a fill takes the same amount from the open orders
  of both sides; and the two sides are uncrossed because what rests no longer
  crosses. Prices are integers and quantities naturals (`BookAssumption`).
- *Timer wheel.* A callback that waits is in one place of one slot or of the list taken
  by the current tick, and the next tick that visits this slot is the one that its
  remainder modulo `Slots` tells.
- *Search and sort.* Binary search: the target is between the bounds if it is anywhere,
  whether or not the search ever returns, and the lower bound moves at most once and then
  for good: the midpoint does not depend on it, so the turn is taken again (`MovesOnce`). The
  theorem covers what is returned, that the bounds keep the target, and this way of never
  returning; that a call returns is no part of it. Sorts: a sorted head
  (insertion) or tail (bubble), and the vector, its hole filled with the number in
  hand, is a rearrangement of the input by a bijection between their places. twoSum:
  no two of the places passed are a pair.
  Numbers are integers other than 0, which marks "no number in hand" (`NumbersAssumption`).
- *Factor search.* The maps depend on whose results are in them and not on the order;
  the pairs of the two loops are, by division with remainder, the descending pairs of
  arguments. Hence `factors.at` finds its keys, and the maps that are printed are those of a
  program without threads.
- *LRU cache.* The list is the first `cap_` entries of the order of use, keys and nodes
  occur once, and the map leads to the node of its key. That a node is free when
  one is needed is the pigeonhole principle.
- *Memory pools.* The free chunks are written down as a sequence without repetitions
  that begins at `free_list_` and in which each link leads to the next one; following the
  links visits exactly these.
- *Hash table.* Every entry is where probing for its key arrives: no cell between its
  hash and its place is empty. The table has no fewer cells than keys, so that a
  doubled table has an empty cell and the probes of `rehash` end. That moving the
  entries one by one ends in such a table is shown by a least cell at which it would not.
- *SmartContainer.* A buffer has `capacity_` cells, those behind `size_` hold the default
  value, and the iterator points into one of the containers or to none. In plain use
  nothing undefined has happened and, with destructors, every cell is alive. Each
  operation is then one of `SequenceObjects` on the first `size_` values, or a stutter.

The assumptions on constants are the named ones in the modules: bounds are naturals,
sets of threads finite, roles disjoint, capacities at least what the constructors
require, and 0 outside of the sets in which it stands for "none".

*Only model-checked.* Everything under fairness: `Termination`, `ProgramEnds`,
`ReturnsRight` and the liveness part of the refinements, since liveness and ENABLED
are out of the prover's reach. In `PrintsGcds`, that the common factors multiply up to
the greatest common divisor: it needs unique factorisation, by an induction over the
recursion of `get_factors` with its two arguments; what is proved is that the maps
hold the result of these functions for every argument and pair. The violated
properties are refuted by TLC's counterexamples and have no proof.

## 6. What could follow

1. The gcd part of `PrintsGcds`, for every argument, in a prover with induction.
2. Progress of the lock-free programs as a variant function, which would bring their
   termination down to an invariant and the fairness of single steps.
3. `SpscRing`'s memory model under the two ring demos and the queue of v4, which take their
   indices as last stored.
4. The calls of the binary searches whose lower bound does not move return: by a variant,
   the length of the interval.

## 7. Not modelled

The event loop is a map from descriptors to callbacks around `epoll_wait`, with one
registration and one wait in a single thread: its behaviour is the kernel's. The
language tours and microarchitecture benchmarks are straight-line
demonstrations or measurements; the scripts under `tools/` and `extras/latency`
run programs and plot numbers. In the modelled programs, printing, timing and
the benchmark repetitions of a loop already modelled are left out, and so are
exceptions of the allocator. Of the reconcilers, the random workload is replaced by any
events; of the latency servers, the statistics thread only reads and the
descriptors are inside epoll; of the echo server, the bytes are not modelled, and the code
does not look at how many of them `send` took.
