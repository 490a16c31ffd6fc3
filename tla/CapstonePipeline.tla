-------------------------- MODULE CapstonePipeline --------------------------
(***************************************************************************)
(* topics/domain_sketches/hft_capstone_pipeline.cpp: a producer of market  *)
(* data, a ring, and a consumer that updates the book.  The ring runs the  *)
(* protocol of SpscRing, which implements BoundedFifo, so it is used here  *)
(* as that queue: a push or a pop is one step.                             *)
(***************************************************************************)
EXTENDS Naturals, Sequences

CONSTANTS qcap,        \* 4096 in main; one slot stays free
          total,       \* 2'000'000 in main
          MaxDropped   \* bound: dropped stops counting here

VARIABLES q, i, popped,      \* the ring, the producer's loop counter, all pops
          pp, dropped,       \* producer: program counter, failed pushes
          done, seenDone,    \* the flag, and whether the consumer read it true
          cp, processed      \* consumer: program counter, what reached the book
vars == <<q, i, popped, pp, dropped, done, seenDone, cp, processed>>

Ring == INSTANCE BoundedFifo WITH MaxSize <- qcap - 1, N <- total, sent <- i, got <- popped

Init ==
  /\ Ring!Init
  /\ pp = "push" /\ dropped = 0
  /\ done = FALSE /\ seenDone = FALSE /\ cp = "loop" /\ processed = <<>>

----------------------------------------------------------------------------
(* while (!q.push(u)) { dropped.fetch_add(1); yield } *)
PushOk ==
  /\ pp = "push" /\ Ring!Push
  /\ UNCHANGED <<pp, dropped, done, seenDone, cp, processed>>
PushFull ==
  /\ pp = "push" /\ i < total /\ Len(q) >= qcap - 1
  /\ dropped' = IF dropped < MaxDropped THEN dropped + 1 ELSE dropped
  /\ UNCHANGED <<q, i, popped, pp, done, seenDone, cp, processed>>

(* done.store(true, release) *)
EarlyDone ==
  /\ pp = "push" /\ i + 1 >= total
  /\ done' = TRUE
  /\ pp' = IF i = total THEN "exit" ELSE "push"
  /\ UNCHANGED <<q, i, popped, dropped, seenDone, cp, processed>>
ForgottenDone ==
  /\ pp = "push" /\ i = total
  /\ pp' = "exit"
  /\ UNCHANGED <<q, i, popped, dropped, done, seenDone, cp, processed>>
SetDone ==
  /\ pp = "push" /\ i = total
  /\ done' = TRUE /\ pp' = "exit"
  /\ UNCHANGED <<q, i, popped, dropped, seenDone, cp, processed>>

----------------------------------------------------------------------------
(* while (!done.load(acquire) || q.pop(m)) *)
LoopNotDone ==
  /\ cp = "loop" /\ ~seenDone
  /\ cp' = "body"
  /\ UNCHANGED <<q, i, popped, pp, dropped, done, seenDone, processed>>
LoopDone ==
  /\ cp = "loop" /\ done
  /\ seenDone' = TRUE /\ cp' = "cond"
  /\ UNCHANGED <<q, i, popped, pp, dropped, done, processed>>

(* The pop of the condition; what it returns is overwritten by the body.   *)
CondPop ==
  /\ cp = "cond" /\ Ring!Pop
  /\ cp' = "body"
  /\ UNCHANGED <<pp, dropped, done, seenDone, processed>>
CondEmpty ==
  /\ cp = "cond" /\ q = <<>>
  /\ cp' = "exit"
  /\ UNCHANGED <<q, i, popped, pp, dropped, done, seenDone, processed>>

(* if (!q.pop(m)) { yield; continue; }  update the book, ++processed *)
BodyPopSkips ==
  /\ cp = "body" /\ Ring!Pop
  /\ processed' = IF seenDone THEN processed ELSE Append(processed, Head(q))
  /\ cp' = "loop"
  /\ UNCHANGED <<pp, dropped, done, seenDone>>
BodyPopTwice ==
  /\ cp = "body" /\ Ring!Pop
  /\ processed' = Append(Append(processed, Head(q)), Head(q))
  /\ cp' = "loop"
  /\ UNCHANGED <<pp, dropped, done, seenDone>>
BodyPop ==
  /\ cp = "body" /\ Ring!Pop
  /\ processed' = Append(processed, Head(q))
  /\ cp' = "loop"
  /\ UNCHANGED <<pp, dropped, done, seenDone>>
BodyYieldExits ==
  /\ cp = "body" /\ q = <<>>
  /\ cp' = "exit"
  /\ UNCHANGED <<q, i, popped, pp, dropped, done, seenDone, processed>>
BodyYield ==
  /\ cp = "body" /\ q = <<>>
  /\ cp' = "loop"
  /\ UNCHANGED <<q, i, popped, pp, dropped, done, seenDone, processed>>

Joined == pp = "exit" /\ cp = "exit" /\ UNCHANGED vars

Producer == PushOk \/ PushFull \/ SetDone
Consumer == LoopNotDone \/ LoopDone \/ CondPop \/ CondEmpty \/ BodyPop \/ BodyYield
Next == Producer \/ Consumer \/ Joined

(* Both threads are scheduled, and the flag becomes visible in the end. *)
Spec ==
  /\ Init /\ [][Next]_vars
  /\ WF_vars(Producer) /\ WF_vars(Consumer) /\ SF_vars(LoopDone)

----------------------------------------------------------------------------
(* The book moves forward: updates reach it in the order they were sent    *)
(* and none reaches it twice.                                              *)
BookInOrder ==
  \A k \in 1..Len(processed) - 1 : processed[k] < processed[k + 1]

(* Until the consumer has read done as true every popped update reaches    *)
(* the book; after that at least every second one does, so the loss of the *)
(* drain loop is at most half of what one full ring holds, rounded up.     *)
LossOnlyInDrain ==
  /\ ~seenDone => processed = popped
  /\ 2 * (Len(popped) - Len(processed)) <= qcap

(* When the consumer leaves, everything sent was at least taken out of the *)
(* ring.                                                                   *)
DrainedAtExit == cp = "exit" => q = <<>> /\ Len(popped) = total

(* In the end both threads finish. *)
GoneThrough == pp = "exit" /\ cp = "exit"

(* The header's "market data -> queue -> book -> signal": every update     *)
(* that went through the queue reaches the book.                           *)
EveryUpdateReachesBook == cp = "exit" => Len(processed) = total
=============================================================================
