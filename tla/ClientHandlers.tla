--------------------------- MODULE ClientHandlers ---------------------------
(***************************************************************************)
(* extras/latency/v4_blocking_tcp_pool_lockfree.cpp: one detached thread   *)
(* per connection, all of them taking their messages from one MemoryPool   *)
(* and pushing them into the SPSCQueue that was made for one producer, and *)
(* a network thread that main gets out of accept by closing the listening  *)
(* descriptor.  alloc, free and push take no lock and are cut at their     *)
(* accesses: alloc where it has read free_head_ and where it has read the  *)
(* link, free where it has written the link, push where it has read the    *)
(* indices, where it has written the slot, and where the new index becomes *)
(* visible.                                                                *)
(***************************************************************************)
EXTENDS Naturals, Sequences, FiniteSets

CONSTANTS Blocks, Null, Wild,      \* as in LatencyServer
          Handlers, QueueSlots,    \* slots_; one of them stays empty
          MaxMessages              \* bound: no recv returns data once so many have a number

VARIABLES hp,                      \* handler -> where it is
          hblk, hnxt,              \* the block and the link in its alloc, then its message
          hseq, hw,                \* its seq; w in its push
          free_head, mem,          \* free_head_; a block holds a link or a message's seq
          ring, widx, ridx,        \* slots_, write_idx_, read_idx_
          g_seq,
          net, con, msg, mainAt,   \* where the other threads are; the consumer's message
          up, listening, wakes,    \* g_running, g_listen_fd; close has woken a blocked accept
          raced,                   \* two threads have been inside push, or the pool, at once
          due, wrong               \* seq of the messages accepted and not yet counted;
                                   \* whether the consumer has counted anything else

handlerVars == <<hp, hblk, hnxt, hseq, hw, g_seq>>
poolVars == <<free_head, mem>>
queueVars == <<ring, widx, ridx>>
consumerVars == <<con, msg, wrong>>
mainVars == <<mainAt, up, listening, wakes>>
vars == <<handlerVars, poolVars, queueVars, consumerVars, net, mainVars, raced, due>>
Following(x) == (x + 1) % QueueSlots

(* MemoryPool as in LatencyServer: the free list of the constructor, the   *)
(* link that alloc reads in a block, and the free list as a set.           *)
FirstFree ==
  CHOOSE f \in [1..Cardinality(Blocks) -> Blocks] :
    \A b \in Blocks : \E x \in DOMAIN f : f[x] = b
FirstLinks ==
  [b \in Blocks |->
     LET k == CHOOSE j \in DOMAIN FirstFree : FirstFree[j] = b
     IN  IF k = Len(FirstFree) THEN Null ELSE FirstFree[k + 1]]

AsLink(bytes) == IF bytes \in Blocks \cup {Null, Wild} THEN bytes ELSE Wild
FreeFrom(first, links) ==
  {b \in Blocks : \A S \in SUBSET Blocks :
     (\A p \in {first} \cup {links[x] : x \in S} : p \in Blocks => p \in S) => b \in S}

InPush(h) == hp[h] \in {"write", "store"}
InAlloc(h) == hp[h] \in {"next", "unlink"}
InFree == con = "head"
(* Two threads are inside push, or two are inside the pool. *)
Meet ==
  \E h \in Handlers :
    \/ InFree /\ InAlloc(h)
    \/ \E g \in Handlers \ {h} : (InPush(g) /\ InPush(h)) \/ (InAlloc(g) /\ InAlloc(h))
Noted == raced' = (raced \/ Meet')

Init ==
  /\ hp = [h \in Handlers |-> "none"]
  /\ hblk = [h \in Handlers |-> Null] /\ hnxt = [h \in Handlers |-> Null]
  /\ hseq = [h \in Handlers |-> 0] /\ hw = [h \in Handlers |-> 0]
  /\ free_head = FirstFree[1] /\ mem = FirstLinks
  /\ ring = [x \in 0..QueueSlots - 1 |-> Null] /\ widx = 0 /\ ridx = 0 /\ g_seq = 0
  /\ net = "listen" /\ con = "loop" /\ msg = Null /\ mainAt = "wait"
  /\ up = TRUE /\ listening = "no" /\ wakes = FALSE
  /\ raced = FALSE /\ due = <<>> /\ wrong = FALSE

\* socket, bind, listen; g_listen_fd.store
Listen ==
  /\ net = "listen" /\ net' = "loop" /\ listening' = "open"
  /\ UNCHANGED <<handlerVars, poolVars, queueVars, consumerVars, due, mainAt, up, wakes>>
NetLoopForever ==
  /\ net = "loop" /\ net' = "call"
  /\ UNCHANGED <<handlerVars, poolVars, queueVars, consumerVars, due, mainVars>>
NetLoop ==
  /\ net = "loop" /\ net' = IF up THEN "call" ELSE "left"
  /\ UNCHANGED <<handlerVars, poolVars, queueVars, consumerVars, due, mainVars>>
\* accept on a closed descriptor fails at once
CallAccept ==
  /\ net = "call" /\ net' = IF listening = "closed" THEN "loop" ELSE "accept"
  /\ UNCHANGED <<handlerVars, poolVars, queueVars, consumerVars, due, mainVars>>
AcceptFails ==
  /\ net = "accept" /\ wakes /\ net' = "loop"
  /\ UNCHANGED <<handlerVars, poolVars, queueVars, consumerVars, due, mainVars>>
NetStep == Listen \/ NetLoop \/ CallAccept \/ AcceptFails
\* a client connects: std::thread(client_handler, conn).detach()
Connect(h) ==
  /\ net = "accept" /\ ~wakes /\ hp[h] = "none" /\ net' = "loop"
  /\ hp' = [hp EXCEPT ![h] = "loop"]
  /\ UNCHANGED <<hblk, hnxt, hseq, hw, g_seq, poolVars, queueVars, consumerVars, due, mainVars>>

----------------------------------------------------------------------------
To(h, at) == hp' = [hp EXCEPT ![h] = at]
OthersRest == UNCHANGED <<consumerVars, net, mainVars>>
\* the loop condition looks at g_running before the blocking recv
HandlerLoop(h) ==
  /\ hp[h] = "loop" /\ To(h, IF up THEN "recv" ELSE "closed")
  /\ UNCHANGED <<hblk, hnxt, hseq, hw, g_seq, poolVars, queueVars, due>> /\ OthersRest
\* bytes, or the end of the connection
HandlerRecv(h) ==
  /\ hp[h] = "recv"
  /\ (g_seq < MaxMessages /\ To(h, "alloc")) \/ To(h, "closed")
  /\ UNCHANGED <<hblk, hnxt, hseq, hw, g_seq, poolVars, queueVars, due>> /\ OthersRest

\* alloc: an empty pool drops what was received; a wild head is undefined
AllocHead(h) ==
  /\ hp[h] = "alloc" /\ free_head # Wild
  /\ hblk' = [hblk EXCEPT ![h] = free_head]
  /\ To(h, IF free_head = Null THEN "loop" ELSE "next")
  /\ UNCHANGED <<hnxt, hseq, hw, g_seq, poolVars, queueVars, due>> /\ OthersRest
AllocNext(h) ==
  /\ hp[h] = "next" /\ To(h, "unlink")
  /\ hnxt' = [hnxt EXCEPT ![h] = AsLink(mem[hblk[h]])]
  /\ UNCHANGED <<hblk, hseq, hw, g_seq, poolVars, queueVars, due>> /\ OthersRest
AllocStore(h) ==
  /\ hp[h] = "unlink" /\ To(h, "fill") /\ free_head' = hnxt[h]
  /\ hnxt' = [hnxt EXCEPT ![h] = Null]
  /\ UNCHANGED <<hblk, hseq, hw, g_seq, mem, queueVars, due>> /\ OthersRest

\* g_seq.fetch_add, and the fields of the message
HandlerFill(h) ==
  /\ hp[h] = "fill" /\ To(h, "push") /\ g_seq' = g_seq + 1
  /\ hseq' = [hseq EXCEPT ![h] = g_seq] /\ mem' = [mem EXCEPT ![hblk[h]] = g_seq]
  /\ UNCHANGED <<hblk, hnxt, hw, free_head, queueVars, due>> /\ OthersRest

PushUnchecked(h) ==
  /\ hp[h] = "push" /\ To(h, "write") /\ hw' = [hw EXCEPT ![h] = widx]
  /\ UNCHANGED <<hblk, hnxt, hseq, g_seq, poolVars, queueVars, due>> /\ OthersRest
\* push: a full queue is tried again
PushCheck(h) ==
  /\ hp[h] = "push" /\ Following(widx) # ridx /\ To(h, "write")
  /\ hw' = [hw EXCEPT ![h] = widx]
  /\ UNCHANGED <<hblk, hnxt, hseq, g_seq, poolVars, queueVars, due>> /\ OthersRest
PushWrite(h) ==
  /\ hp[h] = "write" /\ To(h, "store") /\ ring' = [ring EXCEPT ![hw[h]] = hblk[h]]
  /\ UNCHANGED <<hblk, hnxt, hseq, hw, g_seq, poolVars, widx, ridx, due>> /\ OthersRest
PushStore(h) ==
  /\ hp[h] = "store" /\ To(h, "loop") /\ widx' = Following(hw[h])
  /\ due' = Append(due, hseq[h])
  /\ hw' = [hw EXCEPT ![h] = 0] /\ hseq' = [hseq EXCEPT ![h] = 0]
  /\ hblk' = [hblk EXCEPT ![h] = Null]
  /\ UNCHANGED <<hnxt, g_seq, poolVars, ring, ridx>> /\ OthersRest

\* the process, and its detached threads, end with main
Handler(h) ==
  /\ mainAt # "end"
  /\ \/ HandlerLoop(h) \/ HandlerRecv(h) \/ AllocHead(h) \/ AllocNext(h) \/ AllocStore(h)
     \/ HandlerFill(h) \/ PushCheck(h) \/ PushWrite(h) \/ PushStore(h)

----------------------------------------------------------------------------
ConLoop ==
  /\ con = "loop" /\ con' = IF up THEN "pop" ELSE "left"
  /\ UNCHANGED <<handlerVars, poolVars, queueVars, msg, wrong, due, net, mainVars>>
\* nothing to pop, or a slot nobody has written
Pop ==
  /\ con = "pop"
  /\ \/ ridx = widx /\ con' = "loop" /\ UNCHANGED <<ridx, msg>>
     \/ /\ ridx # widx /\ ridx' = Following(ridx) /\ msg' = ring[ridx]
        /\ con' = IF ring[ridx] = Null THEN "loop" ELSE "count"
  /\ UNCHANGED <<handlerVars, poolVars, ring, widx, wrong, due, net, mainVars>>
\* the statistics, from the fields of the message
Count ==
  /\ con = "count" /\ con' = "free"
  /\ wrong' = (wrong \/ due = <<>> \/ mem[msg] # Head(due))
  /\ due' = IF due = <<>> THEN <<>> ELSE Tail(due)
  /\ UNCHANGED <<handlerVars, poolVars, queueVars, msg, net, mainVars>>
\* free: link the block, then make it the head
FreeUnlinked ==
  /\ con = "free" /\ con' = "head" /\ mem' = [mem EXCEPT ![msg] = Null]
  /\ UNCHANGED <<handlerVars, free_head, queueVars, msg, wrong, due, net, mainVars>>
FreeLink ==
  /\ con = "free" /\ con' = "head" /\ mem' = [mem EXCEPT ![msg] = free_head]
  /\ UNCHANGED <<handlerVars, free_head, queueVars, msg, wrong, due, net, mainVars>>
FreeHead ==
  /\ con = "head" /\ con' = "loop" /\ free_head' = msg /\ msg' = Null
  /\ UNCHANGED <<handlerVars, mem, queueVars, wrong, due, net, mainVars>>
Consumer == ConLoop \/ Pop \/ Count \/ FreeLink \/ FreeHead

----------------------------------------------------------------------------
\* std::cin.get() returns
Stop ==
  /\ mainAt = "wait" /\ mainAt' = "close" /\ up' = FALSE
  /\ UNCHANGED <<handlerVars, poolVars, queueVars, consumerVars, due, net, listening, wakes>>
\* g_listen_fd.exchange(-1), close
Close ==
  /\ mainAt = "close" /\ mainAt' = "join"
  /\ IF listening = "open" THEN listening' = "closed" /\ wakes' \in BOOLEAN
     ELSE UNCHANGED <<listening, wakes>>
  /\ UNCHANGED <<handlerVars, poolVars, queueVars, consumerVars, due, net, up>>
Join ==
  /\ mainAt = "join" /\ net = "left" /\ con = "left" /\ mainAt' = "end"
  /\ UNCHANGED <<handlerVars, poolVars, queueVars, consumerVars, due, net, up, listening, wakes>>
MainStep == Close \/ Join

\* accept goes on after main has closed, or has found nothing to close
Hangs == mainAt = "join" /\ net = "accept" /\ ~wakes
Rests == (Hangs \/ mainAt = "end") /\ UNCHANGED vars

Next ==
  \/ Rests
  \/ /\ \/ NetStep \/ Consumer \/ Stop \/ Close \/ Join
        \/ \E h \in Handlers : Connect(h) \/ Handler(h)
     /\ Noted

(* The network thread, the consumer and main are scheduled.  Nobody has to *)
(* press a key, and no client has to come or to send.                      *)
Spec ==
  /\ Init /\ [][Next]_vars
  /\ WF_vars(NetStep /\ Noted) /\ WF_vars(Consumer /\ Noted) /\ WF_vars(MainStep /\ Noted)

----------------------------------------------------------------------------
\* the messages accepted and not yet counted: the consumer's, then the slots from ridx on
Held == (widx + QueueSlots - ridx) % QueueSlots
Waiting ==
  (IF con = "count" THEN <<mem[msg]>> ELSE <<>>)
    \o [j \in 1..Held |-> mem[ring[(ridx + j - 1) % QueueSlots]]]

(* Every message that was accepted is counted once, in order and with what *)
(* was written into it.                                                    *)
CountedAsAccepted == ~wrong /\ Waiting = due

\* where block b is: with a handler, in a slot, or with the consumer
Holders(b) ==
  {<<"handler", h>> : h \in {g \in Handlers :
                             hp[g] \in {"fill", "push", "write", "store"} /\ hblk[g] = b}}
    \cup {<<"slot", j>> : j \in {l \in 1..Held : ring[(ridx + l - 1) % QueueSlots] = b}}
    \cup (IF con \in {"count", "free", "head"} /\ msg = b THEN {<<"consumer", 0>>} ELSE {})

(* A block is in one place, and it is in one exactly if it is not in the   *)
(* free list.                                                              *)
OneOwner ==
  \A b \in Blocks :
    /\ \A x, y \in Holders(b) : x = y
    /\ (Holders(b) = {}) <=> b \in FreeFrom(free_head, mem)

(* "Single consumer thread drains the queue fed by all client_handler      *)
(* threads and performs the same latency accounting as in the epoll-based  *)
(* variants" (v4_blocking_tcp_pool_lockfree.cpp:41-42): so it is as long   *)
(* as no two connections push at the same time and no two threads, be it   *)
(* two connections in alloc or one and the consumer in free, are in the    *)
(* pool at the same time, although nothing but the timing keeps them       *)
(* apart.  The pool and the queue are right, sharing them is not.          *)
ServedUnlessRaced == ~raced => CountedAsAccepted /\ OneOwner

(* A newline ends the server, unless the network thread is in accept and   *)
(* the system does not wake it, or main came before the descriptor was     *)
(* stored and closed nothing.                                              *)
EndedUnlessHung == mainAt = "end" \/ Hangs
=============================================================================
