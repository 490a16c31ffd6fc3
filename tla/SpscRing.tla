------------------------------ MODULE SpscRing ------------------------------
(***************************************************************************)
(* SPSCRingBuffer and the two threads that drive it, from                  *)
(* topics/concurrency/lockfree_spsc_ring_buffer.cpp, under the C++         *)
(* release/acquire memory model.                                           *)
(*                                                                         *)
(* An atomic index is its modification order: the sequence of the values   *)
(* stored so far, each with the clock that its release store publishes.    *)
(* The other thread may load any value that is not older than the last one *)
(* it loaded (coherence), so it may act on a stale index.  An acquire load *)
(* joins the published clock into the loader's view.  A thread's clock     *)
(* counts its accesses to buffer_; two accesses to one slot are ordered    *)
(* when the later one has the earlier one in its view, and race otherwise. *)
(***************************************************************************)
EXTENDS Naturals, Sequences

CONSTANTS Capacity,   \* template parameter Capacity (64 in main)
          N           \* items the producer pushes (100 in main)

ASSUME CapacityAssumption == Capacity \in Nat /\ Capacity >= 2
ASSUME NAssumption == N \in Nat

VARIABLES
  write_idx, read_idx,  \* the atomics: sequences of [val, clk]
  buffer,               \* buffer_
  done,                 \* the flag, with the producer's view when it is set
  pp, i,                \* producer: program counter and loop counter
  seenR, hbR, pclk,     \* producer: oldest read_idx it may load, view, clock
  cp, v, seenDone,      \* consumer: program counter, popped value, done read
  seenW, hbW, cclk,     \* consumer: oldest write_idx it may load, view, clock
  out,                  \* the values popped, in order
  wrAt, rdAt            \* per slot: clock of the last write and of the last read

atomics  == <<write_idx, read_idx, done>>
producer == <<pp, i, seenR, hbR, pclk>>
consumer == <<cp, v, seenDone, seenW, hbW, cclk, out>>
slots    == <<buffer, wrAt, rdAt>>
vars     == <<atomics, producer, consumer, slots>>

Slots == 0..Capacity - 1
Succ(k) == (k + 1) % Capacity
Join(a, b) == IF a >= b THEN a ELSE b

(* The relaxed loads of a thread's own index: only it stores there. *)
w == write_idx[Len(write_idx)].val
r == read_idx[Len(read_idx)].val
(* int count: incremented once per successful pop. *)
count == Len(out)

Init ==
  /\ write_idx = <<[val |-> 0, clk |-> 0]>>
  /\ read_idx  = <<[val |-> 0, clk |-> 0]>>
  /\ done = [val |-> FALSE, clk |-> 0, widx |-> 1]
  /\ buffer = [s \in Slots |-> 0]
  /\ pp = "push" /\ i = 0 /\ seenR = 1 /\ hbR = 0 /\ pclk = 0
  /\ cp = "loop" /\ v = 0 /\ seenDone = FALSE
  /\ seenW = 1 /\ hbW = 0 /\ cclk = 0 /\ out = <<>>
  /\ wrAt = [s \in Slots |-> 0] /\ rdAt = [s \in Slots |-> 0]

----------------------------------------------------------------------------
(* The producer thread: while (!rb.push(i)); then done = true. *)

(* read_idx_.load(acquire) returning the j-th value stored there. *)
RelaxedLoadReadIdx(j) == seenR' = j /\ hbR' = hbR
LoadReadIdx(j) ==
  /\ seenR' = j
  /\ hbR' = Join(hbR, read_idx[j].clk)

(* push, up to the full test.  A full ring returns false and the caller    *)
(* calls again at once.                                                    *)
Full(val) == Succ(w) = val

PCheck(j) ==
  /\ pp = "push" /\ i < N
  /\ LoadReadIdx(j)
  /\ pp' = IF Full(read_idx[j].val) THEN "push" ELSE "write"
  /\ UNCHANGED <<atomics, i, pclk, consumer, slots>>

(* push: buffer_[w] = std::move(value). *)
PWrite ==
  /\ pp = "write"
  /\ buffer' = [buffer EXCEPT ![w] = i]
  /\ pclk' = pclk + 1
  /\ wrAt' = [wrAt EXCEPT ![w] = pclk + 1]
  /\ pp' = "publish"
  /\ UNCHANGED <<atomics, i, seenR, hbR, consumer, rdAt>>

(* push: the release store of write_idx_, return true, ++i. *)
PPublish ==
  /\ pp = "publish"
  /\ write_idx' = Append(write_idx, [val |-> Succ(w), clk |-> pclk])
  /\ i' = i + 1
  /\ pp' = "push"
  /\ UNCHANGED <<read_idx, done, seenR, hbR, pclk, consumer, slots>>

(* done = true: it publishes all that the producer has done so far. *)
ForgottenDone ==
  /\ pp = "push" /\ i = N
  /\ pp' = "exit"
  /\ UNCHANGED <<atomics, i, seenR, hbR, pclk, consumer, slots>>
PDone ==
  /\ pp = "push" /\ i = N
  /\ done' = [val |-> TRUE, clk |-> pclk, widx |-> Len(write_idx)]
  /\ pp' = "exit"
  /\ UNCHANGED <<write_idx, read_idx, i, seenR, hbR, pclk, consumer, slots>>

----------------------------------------------------------------------------
(* The consumer thread: while (!done || !rb.empty()) if (rb.pop(v)) ++count *)

(* write_idx_.load(acquire) returning the j-th value stored there. *)
LoadWriteIdx(j) ==
  /\ seenW' = j
  /\ hbW' = Join(hbW, write_idx[j].clk)

(* !done is true: go on to pop.  A stale false may be read until true is. *)
CNotDone ==
  /\ cp = "loop" /\ ~seenDone
  /\ cp' = "pop"
  /\ UNCHANGED <<atomics, producer, v, seenDone, seenW, hbW, cclk, out, slots>>

(* !done is false: the load synchronises with the store, so that no index  *)
(* older than the last one stored before done can be loaded any more.      *)
ExitWhenDone ==
  /\ cp = "loop" /\ done.val
  /\ cp' = "exit"
  /\ seenDone' = TRUE
  /\ UNCHANGED <<atomics, producer, v, seenW, hbW, cclk, out, slots>>
CDone ==
  /\ cp = "loop" /\ done.val
  /\ seenDone' = TRUE
  /\ seenW' = Join(seenW, done.widx)
  /\ hbW' = Join(hbW, done.clk)
  /\ cp' = "empty"
  /\ UNCHANGED <<atomics, producer, v, cclk, out, slots>>

(* rb.empty() in the loop condition. *)
CEmpty(j) ==
  /\ cp = "empty"
  /\ LoadWriteIdx(j)
  /\ cp' = IF r = write_idx[j].val THEN "exit" ELSE "pop"
  /\ UNCHANGED <<atomics, producer, v, seenDone, cclk, out, slots>>

(* pop, up to the empty test: an empty ring returns false. *)
CCheck(j) ==
  /\ cp = "pop"
  /\ LoadWriteIdx(j)
  /\ cp' = IF r = write_idx[j].val THEN "loop" ELSE "read"
  /\ UNCHANGED <<atomics, producer, v, seenDone, cclk, out, slots>>

(* pop: value = std::move(buffer_[r]). *)
CRead ==
  /\ cp = "read"
  /\ v' = buffer[r]
  /\ cclk' = cclk + 1
  /\ rdAt' = [rdAt EXCEPT ![r] = cclk + 1]
  /\ cp' = "release"
  /\ UNCHANGED <<atomics, producer, seenDone, seenW, hbW, out, buffer, wrAt>>

(* pop: the release store of read_idx_, return true; ++count. *)
NoWrapRelease ==
  /\ cp = "release"
  /\ read_idx' = Append(read_idx, [val |-> Join(r, Succ(r)), clk |-> cclk])
  /\ out' = Append(out, v)
  /\ cp' = "loop"
  /\ UNCHANGED <<write_idx, done, producer, v, seenDone, seenW, hbW, cclk, slots>>
CRelease ==
  /\ cp = "release"
  /\ read_idx' = Append(read_idx, [val |-> Succ(r), clk |-> cclk])
  /\ out' = Append(out, v)
  /\ cp' = "loop"
  /\ UNCHANGED <<write_idx, done, producer, v, seenDone, seenW, hbW, cclk, slots>>

----------------------------------------------------------------------------
(* producer.join(); consumer.join() *)
Joined == pp = "exit" /\ cp = "exit" /\ UNCHANGED vars

Next ==
  \/ \E j \in seenR..Len(read_idx) : PCheck(j)
  \/ PWrite \/ PPublish \/ PDone
  \/ CNotDone \/ CDone
  \/ \E j \in seenW..Len(write_idx) : CEmpty(j) \/ CCheck(j)
  \/ CRead \/ CRelease
  \/ Joined

(* Both threads are scheduled, and the language asks that a store becomes  *)
(* visible to other threads in a finite time: a thread that keeps loading  *)
(* does not read stale values for ever.                                    *)
FreshPush  == PCheck(Len(read_idx))
FreshEmpty == CEmpty(Len(write_idx))
FreshPop   == CCheck(Len(write_idx))

Fairness ==
  /\ WF_vars(FreshPush) /\ WF_vars(PWrite) /\ WF_vars(PPublish) /\ WF_vars(PDone)
  /\ WF_vars(CNotDone \/ CDone) /\ SF_vars(CDone)
  /\ WF_vars(FreshEmpty) /\ SF_vars(FreshPop)
  /\ WF_vars(CRead) /\ WF_vars(CRelease)

Spec == Init /\ [][Next]_vars /\ Fairness

----------------------------------------------------------------------------
IndexStores == Seq([val : Slots, clk : Nat])

(* Every variable has its type; in particular the indices stay inside      *)
(* buffer_, which operator[] of the vector does not check.                 *)
TypeOK ==
  /\ write_idx \in IndexStores /\ read_idx \in IndexStores
  /\ Len(write_idx) >= 1 /\ Len(read_idx) >= 1
  /\ done \in [val : BOOLEAN, clk : Nat, widx : Nat \ {0}]
  /\ buffer \in [Slots -> Nat]
  /\ pp \in {"push", "write", "publish", "exit"}
  /\ i \in 0..N /\ seenR \in 1..Len(read_idx) /\ hbR \in Nat /\ pclk \in Nat
  /\ cp \in {"loop", "empty", "pop", "read", "release", "exit"}
  /\ v \in Nat /\ seenDone \in BOOLEAN
  /\ seenW \in 1..Len(write_idx) /\ hbW \in Nat /\ cclk \in Nat
  /\ out \in Seq(Nat)
  /\ wrAt \in [Slots -> Nat] /\ rdAt \in [Slots -> Nat]

(* The two threads never race on a slot: when push is about to write       *)
(* buffer_[w] every earlier read of that slot happens before the write,    *)
(* and when pop is about to read buffer_[r] every earlier write of it does,*)
(* however stale the index that let the thread in.                         *)
DataRaceFree ==
  /\ pp = "write" => rdAt[w] <= hbR
  /\ cp = "read"  => wrAt[r] <= hbW

(* The consumer receives 0, 1, 2, ... : no value is lost, repeated,        *)
(* overwritten before it is read, or delivered out of order.               *)
FifoOrder == \A k \in 1..Len(out) : out[k] = k - 1

(* When the consumer's loop condition turns false it has everything: done  *)
(* is tested before empty(), and reading it true makes the last index      *)
(* visible, so "Total consumed" is the number of items pushed.             *)
NoLossAtExit == cp = "exit" => count = N

(***************************************************************************)
(* The inductive invariant.  P and C are the positions of the current      *)
(* indices in their modification orders, Dist the number of steps from one *)
(* slot forward to another.                                                *)
(***************************************************************************)
P == Len(write_idx)
C == Len(read_idx)
Dist(a, b) == IF b >= a THEN b - a ELSE b - a + Capacity

(* The k-th store of an index publishes the clock k - 1, and a thread's    *)
(* view of the other is exactly the store it has loaded last.              *)
Clocks ==
  /\ \A k \in 1..P : write_idx[k].clk = k - 1
  /\ \A k \in 1..C : read_idx[k].clk = k - 1
  /\ pclk = IF pp = "publish" THEN P ELSE P - 1
  /\ cclk = IF cp = "release" THEN C ELSE C - 1
  /\ hbR = seenR - 1 /\ hbW = seenW - 1
  /\ done.clk = done.widx - 1 /\ done.widx <= P

(* Positions less than a lap apart hold slots that are as far apart. *)
Laps ==
  \A j \in 1..C, k \in 1..P :
     j <= k /\ k - j <= Capacity - 1 => Dist(read_idx[j].val, write_idx[k].val) = k - j

(* Even against the oldest index it may still load, the producer is at     *)
(* most one lap ahead and the consumer never ahead.                        *)
Gap ==
  /\ P - seenR <= Capacity - 1
  /\ pp \in {"write", "publish"} => P - seenR <= Capacity - 2 /\ i < N
  /\ C <= seenW
  /\ cp \in {"read", "release"} => C < seenW

(* The e-th access of a thread is to the slot its e-th index names. *)
Epochs ==
  /\ \A s \in Slots : wrAt[s] # 0 => wrAt[s] \in 1..pclk /\ write_idx[wrAt[s]].val = s
  /\ \A s \in Slots : rdAt[s] # 0 => rdAt[s] \in 1..cclk /\ read_idx[rdAt[s]].val = s

(* What is written and not yet released is intact, and what was popped is  *)
(* what was pushed.                                                        *)
Values ==
  /\ i = P - 1
  /\ \A k \in C..pclk : buffer[write_idx[k].val] = k - 1
  /\ cp = "release" => v = C - 1
  /\ Len(out) = C - 1
  /\ FifoOrder

(* done is the producer's last store, and the consumer leaves only with    *)
(* the last index in its view and its own index equal to it.               *)
Exits ==
  /\ done.val => pp = "exit" /\ done.widx = P
  /\ pp = "exit" => i = N
  /\ seenDone => done.val /\ seenW = P
  /\ cp \in {"empty", "exit"} => seenDone
  /\ cp = "exit" => C = P

(* The invariant that carries DataRaceFree, FifoOrder and NoLossAtExit     *)
(* through every step of either thread.                                    *)
IndInv == TypeOK /\ Clocks /\ Laps /\ Gap /\ Epochs /\ Values /\ Exits

(* Both loops end. *)
Termination == <>(pp = "exit" /\ cp = "exit")

(* The values between the two indices. *)
Content == [k \in 1..Len(write_idx) - Len(read_idx) |-> buffer[(r + k - 1) % Capacity]]
Fifo == INSTANCE BoundedFifo
          WITH MaxSize <- Capacity - 1, q <- Content, sent <- i, got <- out

(* The lock-free ring implements the mutex-and-deque baseline it is        *)
(* compared with, with one slot kept free: a push takes effect at the      *)
(* store of write_idx_, a pop at the store of read_idx_, and both go on.   *)
ImplementsFifo == Fifo!Spec
=============================================================================
