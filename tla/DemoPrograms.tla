---------------------------- MODULE DemoPrograms ----------------------------
(***************************************************************************)
(* The concurrent programs of topics/ and the servers of extras/latency.   *)
(* Each is an executable of its own: program says which one runs, and the  *)
(* state of the others stays at its start.  ReaderWriterLock is extended,  *)
(* the others are instances.                                               *)
(***************************************************************************)
EXTENDS ReaderWriterLock, Sequences

CONSTANTS Consumers, Pollers, Items,        \* thread_safe_queue
          Loggers, Logs,                    \* async_logger
          Workers, Main, Submitted, Spawners,   \* thread_pool
          Capacity, Offered,                \* waitfree_spsc_queue
          Pushers, M, Poppers, Nodes, Null, \* lockfree_stack
          qcap, total, MaxDropped,          \* hft_capstone_pipeline
          Blocks, Wild, QueueSize, MaxRecv, \* the latency servers v1, v2, v3, v5
          HandlerBlocks, Handlers, QueueSlots, MaxMessages, \* v4
          ITERS,                            \* context_switch_threads_vs_processes
          RingCapacity, Messages,           \* market_data_message_queue, spsc_ring_buffer
          RingSize, ArenaCap, BatchSize, MaxTaken   \* notes_spsc_bump_vs_double_ring

ASSUME ConsumersAssumption ==
  Items \in Nat /\ IsFiniteSet(Consumers) /\ Consumers # {} /\ Consumers \cap Pollers = {}
ASSUME LoggersAssumption == Logs \in Nat
ASSUME PoolAssumption ==
  /\ IsFiniteSet(Workers) /\ Workers # {} /\ Main \notin Workers
  /\ Submitted \in Nat /\ Spawners \subseteq 1..Submitted
ASSUME WaitFreeAssumption == Capacity \in Nat \ {0} /\ Offered \in Nat
\* main alone pops
ASSUME StackAssumption ==
  /\ M \in Nat /\ Null \notin Nodes /\ Pushers \cap Poppers = {}
  /\ \E p \in Poppers : Poppers = {p}
ASSUME PipelineAssumption == qcap \in Nat /\ qcap >= 2 /\ total \in Nat /\ MaxDropped \in Nat
ASSUME BlocksAssumption == IsFiniteSet(Blocks) /\ Blocks # {} /\ Null \notin Blocks
ASSUME HandlersAssumption ==
  /\ IsFiniteSet(HandlerBlocks) /\ HandlerBlocks # {} /\ Null \notin HandlerBlocks
  /\ QueueSlots \in Nat /\ QueueSlots >= 2 /\ MaxMessages \in Nat
ASSUME RingsAssumption ==
  /\ {QueueSize, ITERS, ArenaCap, BatchSize} \subseteq Nat \ {0}
  /\ {MaxRecv, Messages, MaxTaken} \subseteq Nat
  /\ {RingCapacity, RingSize} \subseteq Nat /\ RingCapacity >= 2 /\ RingSize >= 2

VARIABLES program,
          items, no_more, sleepers, pushed, exited, popped,
          queue, done_, sleeping, logs, logged, wp, msg, printed, joined,
          tasks_, stop_, resting, pc, task, submitted, got, finished, failed,
          ready, value, write_idx, read_idx, pp, i, hbR, pclk,
          cp, v, hbW, cclk, out, wrAt, rdAt,
          head, live, cargo, next, sp, node, k, old, succ, unstacked, gone,
          q, fed, drawn, feeder, dropped, done, seenDone, booker, processed,
          allocator, free_head, mem, newed, g_queue, np, blk, nxt, seq, recvd,
          kp, kmsg, counted, running, mp, overlap,
          hp, hblk, hnxt, hseq, hw, pool_head, pool_mem, ring, widx, ridx, g_seq,
          net, con, hmsg, mainAt, up, listening, wakes, raced, due, wrong,
          counter, message, child_ready, condWait, sem, sem_ok, bytes, writeOpen,
          parent, child, seen, unmapped,
          mode, turn, over, asleep, played, at, p2c, c2p,
          demo, slots, wr, rd, msgs, prod, cons, sentCount, gotten, finishedFlag, prodStop,
          ringMode, freeRing, usedRing, offset, batch, at2, n2, k2, stopped, taken

lockVars == vars
queueVars == <<items, no_more, sleepers, pushed, exited, popped>>
loggerVars == <<queue, done_, sleeping, logs, logged, wp, msg, printed, joined>>
poolVars == <<tasks_, stop_, resting, pc, task, submitted, got, finished, failed>>
waitFreeVars == <<ready, value, write_idx, read_idx, pp, i, hbR, pclk,
                  cp, v, hbW, cclk, out, wrAt, rdAt>>
stackVars == <<head, live, cargo, next, sp, node, k, old, succ, unstacked, gone>>
capstoneVars == <<q, fed, drawn, feeder, dropped, done, seenDone, booker, processed>>
serverVars == <<allocator, free_head, mem, newed, g_queue, np, blk, nxt, seq, recvd,
                kp, kmsg, counted, running, mp, overlap>>
clientVars == <<hp, hblk, hnxt, hseq, hw, pool_head, pool_mem, ring, widx, ridx, g_seq,
                net, con, hmsg, mainAt, up, listening, wakes, raced, due, wrong>>
forkVars == <<counter, message, child_ready, condWait, sem, sem_ok, bytes, writeOpen,
              parent, child, seen, unmapped>>
pingPongVars == <<mode, turn, over, asleep, played, at, p2c, c2p>>
demoVars == <<demo, slots, wr, rd, msgs, prod, cons, sentCount, gotten, finishedFlag, prodStop>>
doubleVars == <<ringMode, freeRing, usedRing, offset, batch, at2, n2, k2, stopped, taken>>
monitors == <<lockVars, queueVars, loggerVars, poolVars>>
rings == <<waitFreeVars, capstoneVars, demoVars, doubleVars>>
others == <<stackVars, serverVars, clientVars, forkVars, pingPongVars>>
allVars == <<program, monitors, rings, others>>

Queue == INSTANCE ThreadSafeQueue
           WITH N <- Items, queue <- items, done_ <- no_more, cond <- sleepers,
                i <- pushed, got <- popped
Logger == INSTANCE AsyncLogger WITH cond <- sleeping
Pool == INSTANCE ThreadPool WITH N <- Submitted, cond <- resting
WaitFree == INSTANCE WaitFreeSpscQueue WITH N <- Offered
\* main pops when the pushers are joined
Stack == INSTANCE LockFreeStack
           WITH Concurrent <- FALSE, value <- cargo, pc <- sp, popped <- unstacked, destroyed <- gone
Capstone == INSTANCE CapstonePipeline WITH i <- fed, popped <- drawn, pp <- feeder, cp <- booker
Server == INSTANCE LatencyServer
            WITH Allocators <- {"pool", "new"}, live <- newed, queue <- g_queue,
                 cp <- kp, msg <- kmsg
Clients == INSTANCE ClientHandlers
             WITH Blocks <- HandlerBlocks, free_head <- pool_head, mem <- pool_mem, msg <- hmsg
Fork == INSTANCE ForkIpc WITH destroyed <- unmapped
Ping == INSTANCE PingPong WITH rounds <- played
RingDemo == INSTANCE RingDemos
Double == INSTANCE DoubleRing WITH Modes <- {"single", "single_batch", "double", "double_batch"}

Names ==
  {"reader_writer_lock", "thread_safe_queue", "async_logger", "thread_pool",
   "waitfree_spsc_queue", "lockfree_stack", "capstone", "latency_server",
   "client_handlers", "fork_mmap_ipc_sync", "context_switch", "ring_demos", "double_ring"}
Runs(name) == program = name

Start ==
  /\ program \in Names
  /\ Init /\ Queue!Init /\ Logger!Init /\ Pool!Init /\ WaitFree!Init /\ Stack!Init /\ Capstone!Init
  /\ Server!Init /\ (~Runs("latency_server") => allocator = "new")
  /\ Clients!Init
  /\ Fork!Init /\ (~Runs("fork_mmap_ipc_sync") => sem_ok)
  /\ Ping!Init /\ (~Runs("context_switch") => mode = "threads")
  /\ RingDemo!Init /\ (~Runs("ring_demos") => demo = "market")
  /\ Double!Init /\ (~Runs("double_ring") => ringMode = "single")

LockRuns ==
  /\ Runs("reader_writer_lock") /\ Next
  /\ UNCHANGED <<program, queueVars, loggerVars, poolVars, rings, others>>
QueueRuns ==
  /\ Runs("thread_safe_queue") /\ Queue!Next
  /\ UNCHANGED <<program, lockVars, loggerVars, poolVars, rings, others>>
LoggerRuns ==
  /\ Runs("async_logger") /\ Logger!Next
  /\ UNCHANGED <<program, lockVars, queueVars, poolVars, rings, others>>
PoolRuns ==
  /\ Runs("thread_pool") /\ Pool!Next
  /\ UNCHANGED <<program, lockVars, queueVars, loggerVars, rings, others>>
WaitFreeRuns ==
  /\ Runs("waitfree_spsc_queue") /\ WaitFree!Next
  /\ UNCHANGED <<program, monitors, capstoneVars, demoVars, doubleVars, others>>
CapstoneRuns ==
  /\ Runs("capstone") /\ Capstone!Next
  /\ UNCHANGED <<program, monitors, waitFreeVars, demoVars, doubleVars, others>>
RingDemoRuns ==
  /\ Runs("ring_demos") /\ RingDemo!Next
  /\ UNCHANGED <<program, monitors, waitFreeVars, capstoneVars, doubleVars, others>>
DoubleRuns ==
  /\ Runs("double_ring") /\ Double!Next
  /\ UNCHANGED <<program, monitors, waitFreeVars, capstoneVars, demoVars, others>>
StackRuns ==
  /\ Runs("lockfree_stack") /\ Stack!Next
  /\ UNCHANGED <<program, monitors, rings, serverVars, clientVars, forkVars, pingPongVars>>
ServerRuns ==
  /\ Runs("latency_server") /\ Server!Next
  /\ UNCHANGED <<program, monitors, rings, stackVars, clientVars, forkVars, pingPongVars>>
ClientsRun ==
  /\ Runs("client_handlers") /\ Clients!Next
  /\ UNCHANGED <<program, monitors, rings, stackVars, serverVars, forkVars, pingPongVars>>
ForkRuns ==
  /\ Runs("fork_mmap_ipc_sync") /\ Fork!Next
  /\ UNCHANGED <<program, monitors, rings, stackVars, serverVars, clientVars, pingPongVars>>
PingRuns ==
  /\ Runs("context_switch") /\ Ping!Next
  /\ UNCHANGED <<program, monitors, rings, stackVars, serverVars, clientVars, forkVars>>
ProgramStep ==
  \/ LockRuns \/ QueueRuns \/ LoggerRuns \/ PoolRuns
  \/ WaitFreeRuns \/ CapstoneRuns \/ RingDemoRuns \/ DoubleRuns
  \/ StackRuns \/ ServerRuns \/ ClientsRun \/ ForkRuns \/ PingRuns

(* In the program that runs every thread is scheduled, and a thread that   *)
(* waits for a mutex gets it in the end.                                   *)
MonitorFairness ==
  /\ \A t \in Threads : WF_lockVars(Runs("reader_writer_lock") /\ Step(t))
  /\ WF_queueVars(Runs("thread_safe_queue") /\ Queue!Producer)
  /\ \A c \in Consumers : WF_queueVars(Runs("thread_safe_queue") /\ Queue!wait_and_pop(c))
  /\ WF_loggerVars(Runs("async_logger") /\ Logger!WorkerStep)
  /\ WF_loggerVars(Runs("async_logger") /\ Logger!SetDone)
  /\ WF_loggerVars(Runs("async_logger") /\ Logger!Join)
  /\ \A t \in Loggers : WF_loggerVars(Runs("async_logger") /\ Logger!log(t))
  /\ WF_poolVars(Runs("thread_pool") /\ Pool!MainStep)
  /\ \A x \in Workers : WF_poolVars(Runs("thread_pool") /\ Pool!WorkerStep(x))
(* The flag that ends the capstone's loop becomes visible in the end, and  *)
(* the two seconds of the double ring pass.                                *)
RingFairness ==
  /\ WF_waitFreeVars(Runs("waitfree_spsc_queue") /\ WaitFree!Enqueue)
  /\ WF_waitFreeVars(Runs("waitfree_spsc_queue") /\ WaitFree!Dequeue)
  /\ WF_capstoneVars(Runs("capstone") /\ Capstone!Producer)
  /\ WF_capstoneVars(Runs("capstone") /\ Capstone!Consumer)
  /\ SF_capstoneVars(Runs("capstone") /\ Capstone!LoopDone)
  /\ WF_demoVars(Runs("ring_demos") /\ RingDemo!Produce)
  /\ WF_demoVars(Runs("ring_demos") /\ RingDemo!Consume)
  /\ WF_demoVars(Runs("ring_demos") /\ RingDemo!StopThreads)
  /\ WF_doubleVars(Runs("double_ring") /\ Double!ProducerStep)
  /\ WF_doubleVars(Runs("double_ring") /\ Double!ConsumerStep)
  /\ WF_doubleVars(Runs("double_ring") /\ Double!Stop)
(* Nobody has to press a key to stop a server, and no client has to come.  *)
OtherFairness ==
  /\ \A t \in Pushers : WF_stackVars(Runs("lockfree_stack") /\ Stack!Push(t))
  /\ \A t \in Poppers : WF_stackVars(Runs("lockfree_stack") /\ Stack!Pop(t))
  /\ WF_stackVars(Runs("lockfree_stack") /\ Stack!Destroy)
  /\ WF_serverVars(Runs("latency_server") /\ Server!NetStep /\ Server!Overlaps)
  /\ WF_serverVars(Runs("latency_server") /\ Server!ConStep /\ Server!Overlaps)
  /\ WF_serverVars(Runs("latency_server") /\ Server!Join /\ Server!Overlaps)
  /\ WF_clientVars(Runs("client_handlers") /\ Clients!NetStep /\ Clients!Noted)
  /\ WF_clientVars(Runs("client_handlers") /\ Clients!Consumer /\ Clients!Noted)
  /\ WF_clientVars(Runs("client_handlers") /\ Clients!MainStep /\ Clients!Noted)
  /\ WF_forkVars(Runs("fork_mmap_ipc_sync") /\ Fork!ParentStep)
  /\ WF_forkVars(Runs("fork_mmap_ipc_sync") /\ Fork!ChildStep)
  /\ WF_pingPongVars(Runs("context_switch") /\ Ping!StepA)
  /\ WF_pingPongVars(Runs("context_switch") /\ Ping!StepB)

Programs ==
  Start /\ [][ProgramStep]_allVars /\ MonitorFairness /\ RingFairness /\ OtherFairness

----------------------------------------------------------------------------
(* Exclusion and NoMissedTurn of ReaderWriterLock are checked as they are. *)

(* No thread sleeps on work: in the thread-safe queue there is a consumer  *)
(* awake for every item while one waits, even when a poller takes the item *)
(* a consumer was notified of; the logger's worker never waits on a        *)
(* message or a destructor; although submit and ~ThreadPool notify after   *)
(* unlocking, no pool worker waits on a task or on a stopped pool; the     *)
(* child process does not sleep through the parent's signal, nor a         *)
(* ping-pong thread when it is its turn.                                   *)
NoLostWakeup ==
  /\ Queue!NoLostWakeup /\ Logger!NoLostWakeup /\ Pool!NoLostWakeup
  /\ Fork!NoLostWakeup /\ Ping!NoLostWakeup

(* Shutdown loses no work: a consumer of the thread-safe queue leaves only *)
(* when there will never be another item, the logger's destructor returns  *)
(* with every message printed, the pool's with every accepted task run,    *)
(* the capstone's consumer leaves an empty ring, and the stack's           *)
(* destructor frees every node.                                            *)
ShutdownLosesNothing ==
  /\ Queue!NothingAfterFalse /\ Logger!FlushedAtExit /\ Pool!DrainedAtEnd
  /\ Capstone!DrainedAtExit /\ Stack!NothingLeaked

(* Order survives the hand-over between threads: the logger prints in the  *)
(* order of the calls, the market data and mutex queues and the language   *)
(* ring deliver every message once in order, the capstone's book only      *)
(* moves forward, the servers count what they received in order unless     *)
(* alloc and free have overlapped, and the stack returns every value once, *)
(* each pusher's last in first out.                                        *)
DeliveredInOrder ==
  /\ Logger!OutputInOrder /\ RingDemo!ReceivedInOrder /\ Capstone!BookInOrder
  /\ Server!CountedInOrder /\ Stack!AllPoppedLifo

(* Memory has one owner at a time: the stack's list holds exactly the      *)
(* nodes no thread owns, a message of the latency server is in one place   *)
(* unless alloc and free have overlapped, and a buffer of the double ring  *)
(* is in one place unless batches are used.                                *)
OneOwnerEach ==
  Stack!ListIsExact /\ Server!OneOwnerUnlessOverlap /\ Double!OneByOneExact

(* v4_blocking_tcp_pool_lockfree: until two connections push, or two       *)
(* threads are in the pool, at once, a message is counted once, in order   *)
(* and as it was received, and a block has one owner.                      *)
ServedUnlessRaced == Clients!ServedUnlessRaced

(* hft_capstone_pipeline: only the drain loop loses updates, and at most   *)
(* half of what one full ring holds, rounded up.                           *)
LossOnlyInDrain == Capstone!LossOnlyInDrain

(* fork_mmap_ipc_sync: the child sees what the parent wrote, and the       *)
(* shared objects are destroyed when nobody uses them; context_switch: the *)
(* players alternate, in threads and in processes that may fail.           *)
HandedOver == Fork!HandedOver /\ Ping!Alternates

(* waitfree_spsc_queue: the flag of a slot is all that orders the accesses *)
(* of the two threads to its value, and it suffices.                       *)
SlotRaceFree == WaitFree!DataRaceFree

(* The thread-safe queue is a FIFO for all its consumers, and the          *)
(* wait-free queue a FIFO with all Capacity slots in use.                  *)
QueuesAreFifo == Queue!ImplementsFifo /\ WaitFree!ImplementsFifo

Ended ==
  CASE Runs("reader_writer_lock") -> Finished
    [] Runs("thread_safe_queue") -> Queue!GoneThrough
    [] Runs("async_logger") -> Logger!GoneThrough
    [] Runs("thread_pool") -> Pool!GoneThrough
    [] Runs("waitfree_spsc_queue") -> WaitFree!Finished
    [] Runs("lockfree_stack") -> Stack!GoneThrough
    [] Runs("capstone") -> Capstone!GoneThrough
    [] Runs("latency_server") -> Server!EndedUnlessStuck
    [] Runs("client_handlers") -> Clients!EndedUnlessHung
    [] Runs("fork_mmap_ipc_sync") -> Fork!GoneThrough
    [] Runs("context_switch") -> Ping!GoneThrough
    [] Runs("ring_demos") -> RingDemo!GoneThrough
    [] Runs("double_ring") -> Double!GoneThrough
\* a server goes on until a newline comes
Due ==
  (Runs("latency_server") => ~running) /\ (Runs("client_handlers") => ~up)

(* Every program ends: every guard of the lock is obtained; set_done       *)
(* releases the consumers; the destructors of the logger, the pool and the *)
(* jthreads join; failed CASes, full and empty rings and turns that are    *)
(* waited for come to an end; and a stopped server, a parent whose pipe    *)
(* worked and a double ring without batches are not left waiting.          *)
ProgramEnds == Due ~> Ended
=============================================================================
