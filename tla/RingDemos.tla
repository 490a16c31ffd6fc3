----------------------------- MODULE RingDemos ------------------------------
(***************************************************************************)
(* Three programs with one producer and one consumer: the MarketDataQueue  *)
(* and the MutexMsgQueue of market_data_message_queue.cpp, whose consumer  *)
(* stops when the producer is done and everything has been received, and   *)
(* the RingBuffer of topics/language/spsc_ring_buffer.cpp, whose threads   *)
(* are stopped from outside, consumer first.  The rings have one step per  *)
(* access to the indices and to a slot, with the orders of SpscRing; the   *)
(* operations of MutexMsgQueue are one step.                               *)
(***************************************************************************)
EXTENDS Naturals, Sequences

CONSTANTS RingCapacity, Messages      \* Messages: 1000, or a bound for "language"

VARIABLES demo,                 \* "market", "mutex" or "language"
          slots, wr, rd,        \* slots_, write_idx_ (head_), read_idx_ (tail_)
          msgs,                 \* q_ of MutexMsgQueue
          prod, cons,           \* where the two threads are
          sentCount, gotten,    \* the producer's i; what the consumer has taken
          finishedFlag,         \* done; the consumer's stop token
          prodStop              \* the producer's stop token

vars == <<demo, slots, wr, rd, msgs, prod, cons, sentCount, gotten, finishedFlag, prodStop>>
After(x) == (x + 1) % RingCapacity
Ring == demo # "mutex"

Init ==
  /\ demo \in {"market", "mutex", "language"}
  /\ slots = [x \in 0..RingCapacity - 1 |-> 0] /\ wr = 0 /\ rd = 0 /\ msgs = <<>>
  /\ prod = "check" /\ cons = "loop" /\ sentCount = 0 /\ gotten = <<>>
  /\ finishedFlag = FALSE /\ prodStop = FALSE

consumerSide == <<rd, cons, gotten>>
producerSide == <<slots, wr, prod, sentCount>>
flags == <<finishedFlag, prodStop>>

\* publish, push: a full ring returns false and the loop tries again, unless it is stopped
PubCheck ==
  /\ Ring /\ prod = "check" /\ sentCount < Messages
  /\ \/ After(wr) # rd /\ prod' = "write"
     \/ prodStop /\ prod' = "joined"
  /\ UNCHANGED <<demo, slots, wr, msgs, sentCount, consumerSide, flags>>
PubWrite ==
  /\ prod = "write" /\ prod' = "store" /\ slots' = [slots EXCEPT ![wr] = sentCount + 1]
  /\ UNCHANGED <<demo, wr, msgs, sentCount, consumerSide, flags>>
PubStore ==
  /\ prod = "store" /\ prod' = "check" /\ wr' = After(wr) /\ sentCount' = sentCount + 1
  /\ UNCHANGED <<demo, slots, msgs, consumerSide, flags>>
PubLocked ==
  /\ demo = "mutex" /\ prod = "check" /\ sentCount < Messages /\ Len(msgs) < RingCapacity
  /\ msgs' = Append(msgs, sentCount + 1) /\ sentCount' = sentCount + 1
  /\ UNCHANGED <<demo, slots, wr, prod, consumerSide, flags>>
\* done = true; the language demo's producer goes on until it is stopped
PubDone ==
  /\ prod = "check" /\ sentCount = Messages
  /\ IF demo = "language" THEN prodStop /\ UNCHANGED finishedFlag ELSE finishedFlag' = TRUE
  /\ prod' = "joined"
  /\ UNCHANGED <<demo, slots, wr, msgs, sentCount, consumerSide, prodStop>>
Produce == PubCheck \/ PubWrite \/ PubStore \/ PubLocked \/ PubDone

LeavesWhenDone == finishedFlag
\* while (!done || received < 1000), while (!st.stop_requested())
Leaves == finishedFlag /\ (demo # "language" => Len(gotten) >= Messages)
SubLeaves ==
  /\ cons = "loop" /\ Leaves /\ cons' = "joined"
  /\ UNCHANGED <<demo, rd, msgs, gotten, producerSide, flags>>
SubCheck ==
  /\ Ring /\ cons = "loop" /\ ~Leaves /\ rd # wr /\ cons' = "read"
  /\ UNCHANGED <<demo, rd, msgs, gotten, producerSide, flags>>
SubRead ==
  /\ cons = "read" /\ cons' = "store" /\ gotten' = Append(gotten, slots[rd])
  /\ UNCHANGED <<demo, rd, msgs, producerSide, flags>>
SubStore ==
  /\ cons = "store" /\ cons' = "loop" /\ rd' = After(rd)
  /\ UNCHANGED <<demo, msgs, gotten, producerSide, flags>>
SubLocked ==
  /\ demo = "mutex" /\ cons = "loop" /\ ~Leaves /\ msgs # <<>>
  /\ gotten' = Append(gotten, Head(msgs)) /\ msgs' = Tail(msgs)
  /\ UNCHANGED <<demo, rd, cons, producerSide, flags>>
Consume == SubLeaves \/ SubCheck \/ SubRead \/ SubStore \/ SubLocked

\* ~jthread in reverse order: stop and join the consumer, then the producer
StopThreads ==
  /\ demo = "language"
  /\ \/ ~finishedFlag /\ finishedFlag' = TRUE /\ UNCHANGED prodStop
     \/ cons = "joined" /\ ~prodStop /\ prodStop' = TRUE /\ UNCHANGED finishedFlag
  /\ UNCHANGED <<demo, msgs, producerSide, consumerSide>>

BothJoined == prod = "joined" /\ cons = "joined" /\ UNCHANGED vars
Next == Produce \/ Consume \/ StopThreads \/ BothJoined

----------------------------------------------------------------------------
(* Messages are received in order, without loss or repetition, all of them *)
(* when market_data_message_queue ends; and the two threads are never at   *)
(* the same slot of a ring at once.                                        *)
ReceivedInOrder ==
  /\ \A k \in DOMAIN gotten : gotten[k] = k
  /\ cons = "joined" /\ demo # "language" => Len(gotten) = Messages
  /\ prod = "write" /\ cons = "read" => wr # rd

(* The program ends: with the queue full or empty, the loops that spin on  *)
(* it are left once the other side is done or they are stopped.            *)
GoneThrough == prod = "joined" /\ cons = "joined"
=============================================================================
