--------------------------- MODULE LatencyServer ---------------------------
(***************************************************************************)
(* The servers of extras/latency: a network thread wraps what it receives  *)
(* in messages, a queue takes them to a consumer thread that counts them,  *)
(* and main stops both.  With allocator "pool" (v1, v3, v5) the messages   *)
(* come from a MemoryPool that both threads use without a lock, so alloc   *)
(* and free are cut at their accesses to free_head_; with "new" (v2) they  *)
(* come from operator new.                                                 *)
(*                                                                         *)
(* The queue is used by one thread at each end.  SPSCQueue is the protocol *)
(* of SpscRing, which implements a FIFO whose operations are one step, and *)
(* MutexQueue takes a lock, so push and pop are one step here.  A load of  *)
(* g_running that still returns true is a step taken before the store.     *)
(***************************************************************************)
EXTENDS Naturals, Sequences, FiniteSets

CONSTANTS Blocks, Null, Wild,   \* addresses; nullptr; a pointer made of message bytes
          Allocators,           \* the allocators to consider
          QueueSize,            \* messages the queue holds (511 or 512)
          MaxRecv               \* bound: recv calls that return data

VARIABLES allocator,
          free_head, mem,       \* free_head_; a block holds a pointer or a message
          live,                 \* what operator new has handed out
          queue,                \* g_queue
          np, blk, nxt, seq,    \* network thread: pc, its locals
          recvd,                \* recv calls that have returned data
          cp, msg, counted,     \* consumer: pc, msg, the seq of the messages counted
          running, mp,          \* g_running; main: pc
          overlap               \* an alloc and a free have been under way at once

pool == <<free_head, mem, live>>
network == <<np, blk, nxt, seq, recvd>>
consumer == <<cp, msg, counted>>
main == <<running, mp>>
vars == <<allocator, pool, queue, network, consumer, main, overlap>>

(* The free list the constructor builds, in the order of the addresses:    *)
(* every block is free, once.                                              *)
FirstFree ==
  CHOOSE f \in [1..Cardinality(Blocks) -> Blocks] :
    \A b \in Blocks : \E x \in DOMAIN f : f[x] = b
FirstLinks ==
  [b \in Blocks |->
     LET k == CHOOSE j \in DOMAIN FirstFree : FirstFree[j] = b
     IN  IF k = Len(FirstFree) THEN Null ELSE FirstFree[k + 1]]

(* What alloc reads from a block as the link to the next one. *)
AsLink(bytes) == IF bytes \in Blocks \cup {Null, Wild} THEN bytes ELSE Wild

Init ==
  /\ allocator \in Allocators
  /\ free_head = FirstFree[1]
  /\ mem = FirstLinks
  /\ live = {} /\ queue = <<>>
  /\ np = "loop" /\ blk = Null /\ nxt = Null /\ seq = 0 /\ recvd = 0
  /\ cp = "loop" /\ msg = Null /\ counted = <<>>
  /\ running = TRUE /\ mp = "wait" /\ overlap = FALSE

(* Both threads are inside the pool. *)
Overlaps == overlap' = (overlap \/ (np' \in {"next", "store"} /\ cp' = "head"))

----------------------------------------------------------------------------
(* while (g_running): the inner loop over recv does not look at it. *)
NetLoop ==
  /\ np = "loop"
  /\ np' = IF running THEN "recv" ELSE "exit"
  /\ UNCHANGED <<allocator, pool, queue, blk, nxt, seq, recvd, consumer, main>>

NetRecv ==
  /\ np = "recv" /\ recvd < MaxRecv
  /\ recvd' = recvd + 1 /\ np' = "alloc"
  /\ UNCHANGED <<allocator, pool, queue, blk, nxt, seq, consumer, main>>

(* No bytes for now, or the client has closed. *)
NetIdle ==
  /\ np = "recv"
  /\ np' = "loop"
  /\ UNCHANGED <<allocator, pool, queue, blk, nxt, seq, recvd, consumer, main>>

(* alloc: an empty pool drops what was received. *)
AllocHead ==
  /\ np = "alloc" /\ allocator = "pool" /\ free_head # Wild
  /\ blk' = free_head
  /\ np' = IF free_head = Null THEN "recv" ELSE "next"
  /\ UNCHANGED <<allocator, pool, queue, nxt, seq, recvd, consumer, main>>
AllocNext ==
  /\ np = "next"
  /\ nxt' = AsLink(mem[blk])
  /\ np' = "store"
  /\ UNCHANGED <<allocator, pool, queue, blk, seq, recvd, consumer, main>>
AllocStore ==
  /\ np = "store"
  /\ free_head' = nxt
  /\ np' = "fill"
  /\ UNCHANGED <<allocator, mem, live, queue, blk, nxt, seq, recvd, consumer, main>>

NetNew ==
  /\ np = "alloc" /\ allocator = "new"
  /\ \E b \in Blocks \ live : blk' = b /\ live' = live \cup {b}
  /\ np' = "fill"
  /\ UNCHANGED <<allocator, free_head, mem, queue, nxt, seq, recvd, consumer, main>>

(* msg->seq = seq++ and the other fields. *)
NetFill ==
  /\ np = "fill"
  /\ mem' = [mem EXCEPT ![blk] = seq]
  /\ seq' = seq + 1 /\ np' = "push"
  /\ UNCHANGED <<allocator, free_head, live, queue, blk, nxt, recvd, consumer, main>>

(* while (!g_queue.push(msg)): a refused push is tried again. *)
PushFront ==
  /\ np = "push" /\ Len(queue) < QueueSize
  /\ queue' = <<blk>> \o queue
  /\ np' = "recv"
  /\ UNCHANGED <<allocator, pool, blk, nxt, seq, recvd, consumer, main>>
NetPush ==
  /\ np = "push" /\ Len(queue) < QueueSize
  /\ queue' = Append(queue, blk)
  /\ np' = "recv"
  /\ UNCHANGED <<allocator, pool, blk, nxt, seq, recvd, consumer, main>>
NetStep ==
  \/ NetLoop \/ NetRecv \/ NetIdle \/ AllocHead \/ AllocNext \/ AllocStore
  \/ NetNew \/ NetFill \/ NetPush

----------------------------------------------------------------------------
ConLoopForever ==
  /\ cp = "loop"
  /\ cp' = "pop"
  /\ UNCHANGED <<allocator, pool, queue, network, msg, counted, main>>
ConLoop ==
  /\ cp = "loop"
  /\ cp' = IF running THEN "pop" ELSE "exit"
  /\ UNCHANGED <<allocator, pool, queue, network, msg, counted, main>>

ConPop ==
  /\ cp = "pop" /\ queue # <<>>
  /\ msg' = Head(queue) /\ queue' = Tail(queue)
  /\ cp' = "count"
  /\ UNCHANGED <<allocator, pool, network, counted, main>>
ConEmpty ==
  /\ cp = "pop" /\ queue = <<>>
  /\ cp' = "loop"
  /\ UNCHANGED <<allocator, pool, queue, network, msg, counted, main>>

(* The statistics, from the fields of the message. *)
ConCount ==
  /\ cp = "count"
  /\ counted' = Append(counted, mem[msg])
  /\ cp' = "free"
  /\ UNCHANGED <<allocator, pool, queue, network, msg, main>>

(* free: link the block, then make it the head. *)
FreeUnlinked ==
  /\ cp = "free" /\ allocator = "pool"
  /\ mem' = [mem EXCEPT ![msg] = Null]
  /\ cp' = "head"
  /\ UNCHANGED <<allocator, free_head, live, queue, network, msg, counted, main>>
FreeLink ==
  /\ cp = "free" /\ allocator = "pool"
  /\ mem' = [mem EXCEPT ![msg] = free_head]
  /\ cp' = "head"
  /\ UNCHANGED <<allocator, free_head, live, queue, network, msg, counted, main>>
FreeHead ==
  /\ cp = "head"
  /\ free_head' = msg
  /\ cp' = "loop"
  /\ UNCHANGED <<allocator, mem, live, queue, network, msg, counted, main>>

ConDelete ==
  /\ cp = "free" /\ allocator = "new"
  /\ live' = live \ {msg}
  /\ cp' = "loop"
  /\ UNCHANGED <<allocator, free_head, mem, queue, network, msg, counted, main>>
ConStep ==
  ConLoop \/ ConPop \/ ConEmpty \/ ConCount \/ FreeLink \/ FreeHead \/ ConDelete

----------------------------------------------------------------------------
(* std::cin.get() returns. *)
Stop ==
  /\ mp = "wait"
  /\ running' = FALSE /\ mp' = "join"
  /\ UNCHANGED <<allocator, pool, queue, network, consumer>>
Join ==
  /\ mp = "join" /\ np = "exit" /\ cp = "exit"
  /\ mp' = "end"
  /\ UNCHANGED <<allocator, pool, queue, network, consumer, running>>

(* The push loop once the consumer has gone, the use of a wild pointer,    *)
(* whose outcome the language does not define, and the end of main.        *)
Stuck == np = "push" /\ Len(queue) = QueueSize /\ cp = "exit"
Undefined == np = "alloc" /\ free_head = Wild
NoWayOn == (Stuck \/ Undefined \/ mp = "end") /\ UNCHANGED vars

Next == ((NetStep \/ ConStep \/ Stop \/ Join) /\ Overlaps) \/ NoWayOn

(* The two threads and main are scheduled; stdin may never have a line.    *)
Spec ==
  /\ Init /\ [][Next]_vars
  /\ WF_vars(NetStep /\ Overlaps) /\ WF_vars(ConStep /\ Overlaps) /\ WF_vars(Join /\ Overlaps)

----------------------------------------------------------------------------
(* The free list as a set: what every closed set with the head contains.   *)
FreeFrom(first, links) ==
  {b \in Blocks : \A S \in SUBSET Blocks :
     (\A p \in {first} \cup {links[x] : x \in S} : p \in Blocks => p \in S) => b \in S}
FreeList == FreeFrom(free_head, mem)

(* The messages in flight: in the network thread's hands from the moment   *)
(* alloc has unlinked the block, in the queue, or with the consumer.       *)
InFlight ==
  (IF np \in {"fill", "push"} THEN <<blk>> ELSE <<>>) \o queue
     \o (IF cp \in {"count", "free", "head"} THEN <<msg>> ELSE <<>>)
Carried == {InFlight[k] : k \in DOMAIN InFlight}
Distinct == Cardinality(Carried) = Len(InFlight)
Owned == IF allocator = "new" THEN live ELSE Blocks \ FreeList

(* Every block has one owner and none is lost: a message in flight is in   *)
(* one place, and the blocks in flight are exactly those alloc or new has  *)
(* handed out.  For the pool this is so as long as no alloc and free have  *)
(* been under way at once: the pool itself is right, its sharing is not.   *)
OneOwnerUnlessOverlap ==
  ~overlap => Distinct /\ (np \notin {"next", "store"} => Carried = Owned)

(* The comment on g_pool and g_queue says that they decouple network I/O   *)
(* from accounting: whatever the two threads do, no block is handed out    *)
(* while it is in flight.                                                  *)
OneOwner == Distinct

(* Messages are counted once each, in the order they were received and     *)
(* with the contents they were given, except for those an empty pool       *)
(* dropped, which get no number; again unless alloc and free overlapped.   *)
CountedInOrder == ~overlap => \A k \in DOMAIN counted : counted[k] = k - 1

(* A newline on stdin ends the server once the clients fall silent, unless *)
(* the network thread is caught pushing into a full queue after the        *)
(* consumer has left, or alloc has followed a wild pointer.                *)
EndedUnlessStuck == mp = "end" \/ Stuck \/ Undefined
=============================================================================
