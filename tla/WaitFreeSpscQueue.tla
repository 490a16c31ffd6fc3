------------------------- MODULE WaitFreeSpscQueue -------------------------
(***************************************************************************)
(* WaitFreeSPSCQueue of topics/concurrency/waitfree_spsc_queue.cpp and the *)
(* two threads that drive it.  The threads share no index: each slot has a *)
(* flag ready that the producer sets and the consumer clears, and each     *)
(* thread walks round the slots with an index only it uses.                *)
(*                                                                         *)
(* A stale load of ready returns the value the loading thread stored there *)
(* itself, since the two threads store in turn; it makes the call return   *)
(* false, like a call on a full or empty queue, and the caller calls again *)
(* at once, which is a stuttering step.  A load that lets the call proceed *)
(* has read the other thread's last store and acquires its clock.  Clocks  *)
(* count a thread's accesses to the values, as in SpscRing.                *)
(***************************************************************************)
EXTENDS Naturals, Sequences

CONSTANTS Capacity,   \* template parameter Capacity (8 in main)
          N           \* items offered (20 in main)

VARIABLES
  ready, value,               \* the slots; ready holds [val, clk]
  write_idx, read_idx,        \* the members, as their owner sees them
  pp, i, hbR, pclk,           \* producer: pc, loop counter, view, clock
  cp, v, hbW, cclk, out,      \* consumer: pc, popped value, view, clock, result
  wrAt, rdAt                  \* per slot: clock of the last write, last read

producer == <<write_idx, pp, i, hbR, pclk>>
consumer == <<read_idx, cp, v, hbW, cclk, out>>
vars == <<ready, value, producer, consumer, wrAt, rdAt>>

Slots == 0..Capacity - 1
Succ(k) == (k + 1) % Capacity
Join(a, b) == IF a >= b THEN a ELSE b

Init ==
  /\ ready = [s \in Slots |-> [val |-> FALSE, clk |-> 0]]
  /\ value = [s \in Slots |-> 0]
  /\ write_idx = 0 /\ pp = "check" /\ i = 0 /\ hbR = 0 /\ pclk = 0
  /\ read_idx = 0 /\ cp = "check" /\ v = 0 /\ hbW = 0 /\ cclk = 0 /\ out = <<>>
  /\ wrAt = [s \in Slots |-> 0] /\ rdAt = [s \in Slots |-> 0]

----------------------------------------------------------------------------
(* enqueue: the slot is free. *)
UncheckedPCheck ==
  /\ pp = "check" /\ i < N
  /\ hbR' = Join(hbR, ready[write_idx].clk)
  /\ pp' = "write"
  /\ UNCHANGED <<ready, value, write_idx, i, pclk, consumer, wrAt, rdAt>>
PCheck ==
  /\ pp = "check" /\ i < N /\ ~ready[write_idx].val
  /\ hbR' = Join(hbR, ready[write_idx].clk)
  /\ pp' = "write"
  /\ UNCHANGED <<ready, value, write_idx, i, pclk, consumer, wrAt, rdAt>>

(* enqueue: s.value = std::move(value) *)
PWrite ==
  /\ pp = "write"
  /\ value' = [value EXCEPT ![write_idx] = i]
  /\ pclk' = pclk + 1
  /\ wrAt' = [wrAt EXCEPT ![write_idx] = pclk + 1]
  /\ pp' = "ready"
  /\ UNCHANGED <<ready, write_idx, i, hbR, consumer, rdAt>>

(* enqueue: the release store of ready. *)
PReady ==
  /\ pp = "ready"
  /\ ready' = [ready EXCEPT ![write_idx] = [val |-> TRUE, clk |-> pclk]]
  /\ pp' = "advance"
  /\ UNCHANGED <<value, write_idx, i, hbR, pclk, consumer, wrAt, rdAt>>

(* enqueue: write_idx_.store, return true; ++produced. *)
PAdvance ==
  /\ pp = "advance"
  /\ write_idx' = Succ(write_idx)
  /\ i' = i + 1 /\ pp' = "check"
  /\ UNCHANGED <<ready, value, hbR, pclk, consumer, wrAt, rdAt>>

----------------------------------------------------------------------------
(* while (consumed < N): dequeue, the slot is ready. *)
CCheck ==
  /\ cp = "check" /\ Len(out) < N /\ ready[read_idx].val
  /\ hbW' = Join(hbW, ready[read_idx].clk)
  /\ cp' = "read"
  /\ UNCHANGED <<ready, value, producer, read_idx, v, cclk, out, wrAt, rdAt>>

(* dequeue: value = std::move(s.value) *)
CRead ==
  /\ cp = "read"
  /\ v' = value[read_idx]
  /\ cclk' = cclk + 1
  /\ rdAt' = [rdAt EXCEPT ![read_idx] = cclk + 1]
  /\ cp' = "clear"
  /\ UNCHANGED <<ready, value, producer, read_idx, hbW, out, wrAt>>

(* dequeue: the release store of ready. *)
RelaxedCClear ==
  /\ cp = "clear"
  /\ ready' = [ready EXCEPT ![read_idx] = [val |-> FALSE, clk |-> 0]]
  /\ out' = Append(out, v)
  /\ cp' = "advance"
  /\ UNCHANGED <<value, producer, read_idx, v, hbW, cclk, wrAt, rdAt>>
CClear ==
  /\ cp = "clear"
  /\ ready' = [ready EXCEPT ![read_idx] = [val |-> FALSE, clk |-> cclk]]
  /\ out' = Append(out, v)
  /\ cp' = "advance"
  /\ UNCHANGED <<value, producer, read_idx, v, hbW, cclk, wrAt, rdAt>>

(* dequeue: read_idx_.store, return true; ++consumed. *)
CAdvance ==
  /\ cp = "advance"
  /\ read_idx' = Succ(read_idx)
  /\ cp' = "check"
  /\ UNCHANGED <<ready, value, producer, v, hbW, cclk, out, wrAt, rdAt>>

(* producer.join(); consumer.join() *)
(* The indices meet again after every lap, so that neither thread waits    *)
(* for a slot the other has passed: both loops come to their end.          *)
Finished == pp = "check" /\ i = N /\ cp = "check" /\ Len(out) = N
Joined == Finished /\ UNCHANGED vars

Enqueue == PCheck \/ PWrite \/ PReady \/ PAdvance
Dequeue == CCheck \/ CRead \/ CClear \/ CAdvance
Next == Enqueue \/ Dequeue \/ Joined

(* Both threads are scheduled, and a store becomes visible in the end. *)
Spec == Init /\ [][Next]_vars /\ WF_vars(Enqueue) /\ WF_vars(Dequeue)

----------------------------------------------------------------------------
(* The flag is all that protects a slot: a thread about to use its value   *)
(* has every earlier access of the other thread to that slot in its view.  *)
DataRaceFree ==
  /\ pp = "write" => rdAt[write_idx] <= hbR
  /\ cp = "read" => wrAt[read_idx] <= hbW

(* It implements the mutex-and-deque baseline with all Capacity slots in   *)
(* use; a push takes effect when ready is set, a pop when it is cleared.   *)
enqueued == IF pp = "advance" THEN i + 1 ELSE i
Content == [k \in 1..enqueued - Len(out) |-> value[(Len(out) + k - 1) % Capacity]]
Fifo == INSTANCE BoundedFifo
          WITH MaxSize <- Capacity, q <- Content, sent <- enqueued, got <- out
ImplementsFifo == Fifo!Safety
=============================================================================
