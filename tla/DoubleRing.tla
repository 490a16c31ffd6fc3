----------------------------- MODULE DoubleRing -----------------------------
(***************************************************************************)
(* topics/concurrency/notes_spsc_bump_vs_double_ring.cpp: a producer hands *)
(* buffers to a consumer through SPSCRing, which is the protocol of        *)
(* SpscRing, so that push and pop are one step.  run_single_ring_bump      *)
(* takes the buffers from an arena, round and round; run_double_ring_fixed *)
(* gets them back through a second ring.  In batch mode an array of        *)
(* buffers is pushed and popped element by element; the double ring has    *)
(* one array for both threads.                                             *)
(***************************************************************************)
EXTENDS Naturals, Sequences

CONSTANTS Modes,             \* of "single", "single_batch", "double", "double_batch"
          RingSize,          \* a ring holds one less
          ArenaCap, BatchSize,
          MaxTaken           \* bounds the buffers the producer takes while it is not stopped

VARIABLES ringMode, freeRing, usedRing,
          offset,
          batch,             \* thread -> its array; one entry, "both", for the double ring
          at2, n2, k2,       \* thread -> where it is, buffers in its batch, buffers pushed
          stopped,
          taken

vars == <<ringMode, freeRing, usedRing, offset, batch, at2, n2, k2, stopped, taken>>
P == "producer"
C == "consumer"
Single == ringMode \in {"single", "single_batch"}
Size == IF ringMode \in {"single_batch", "double_batch"} THEN BatchSize ELSE 1
Room == RingSize - 1
\* buf is a variable of each thread; batch_buf one for both threads in run_double_ring_fixed
Array(t) == IF ringMode = "double_batch" THEN "both" ELSE t

\* the loop that fills free_ring stops having an effect when it is full
Init ==
  /\ ringMode \in Modes
  /\ freeRing = (IF Single THEN <<>> ELSE [k \in 1..Room |-> k]) /\ usedRing = <<>>
  /\ offset = 0 /\ stopped = FALSE /\ taken = 0
  /\ batch = [t \in {P, C, "both"} |-> [k \in 1..BatchSize |-> 0]]
  /\ at2 = [t \in {P, C} |-> "loop"] /\ n2 = [t \in {P, C} |-> 0] /\ k2 = [t \in {P, C} |-> 0]

Stay == UNCHANGED <<ringMode, stopped>>
Put(t, buf) == batch' = [batch EXCEPT ![Array(t)][n2[t] + 1] = buf] /\ n2' = [n2 EXCEPT ![t] = @ + 1]
Goto(t, to) == at2' = [at2 EXCEPT ![t] = to]

\* while (!stop.load())
Enter(t, to) ==
  /\ at2[t] = "loop" /\ (~stopped /\ t = P => taken < MaxTaken)
  /\ Goto(t, IF stopped THEN "left" ELSE to)
  /\ n2' = [n2 EXCEPT ![t] = 0] /\ k2' = [k2 EXCEPT ![t] = 0]
  /\ UNCHANGED <<freeRing, usedRing, offset, batch, taken>> /\ Stay

\* offset.fetch_add(1); without batches the index that reached the end is still used
Bump ==
  /\ Single /\ at2[P] = "fill" /\ n2[P] < Size
  /\ offset' = (IF offset >= ArenaCap THEN 0 ELSE offset + 1)
  /\ Put(P, IF ringMode = "single_batch" /\ offset >= ArenaCap THEN 0 ELSE offset)
  /\ taken' = taken + 1 /\ UNCHANGED <<freeRing, usedRing, at2, k2>> /\ Stay
TakeFreeKept ==
  /\ ~Single /\ at2[P] = "fill" /\ n2[P] < Size /\ freeRing # <<>>
  /\ Put(P, Head(freeRing)) /\ taken' = taken + 1
  /\ UNCHANGED <<freeRing, usedRing, offset, at2, k2>> /\ Stay
TakeFree ==
  /\ ~Single /\ at2[P] = "fill" /\ n2[P] < Size /\ freeRing # <<>>
  /\ Put(P, Head(freeRing)) /\ freeRing' = Tail(freeRing)
  /\ taken' = taken + 1 /\ UNCHANGED <<usedRing, offset, at2, k2>> /\ Stay
\* the batch is full, or the ring is empty; an empty batch starts over
Filled ==
  /\ at2[P] = "fill" /\ (n2[P] = Size \/ (~Single /\ freeRing = <<>>))
  /\ Goto(P, IF n2[P] = 0 THEN "loop" ELSE "push")
  /\ UNCHANGED <<freeRing, usedRing, offset, batch, n2, k2, taken>> /\ Stay

Popped ==
  /\ at2[C] = "pop" /\ n2[C] < Size /\ usedRing # <<>>
  /\ Put(C, Head(usedRing)) /\ usedRing' = Tail(usedRing)
  /\ UNCHANGED <<freeRing, offset, at2, k2, taken>> /\ Stay
\* processed.fetch_add(n)
Processed ==
  /\ at2[C] = "pop" /\ (n2[C] = Size \/ usedRing = <<>>)
  /\ Goto(C, IF n2[C] = 0 \/ Single THEN "loop" ELSE "push")
  /\ UNCHANGED <<freeRing, usedRing, offset, batch, n2, k2, taken>> /\ Stay

\* while (ring.push_batch(span) != n): a batch that did not fit is pushed again from its start
Target(t) == IF t = P THEN usedRing ELSE freeRing
PushOne(t) ==
  /\ at2[t] = "push" /\ k2[t] < n2[t] /\ Len(Target(t)) < Room
  /\ LET r == Append(Target(t), batch[Array(t)][k2[t] + 1]) IN
       IF t = P THEN usedRing' = r /\ UNCHANGED freeRing ELSE freeRing' = r /\ UNCHANGED usedRing
  /\ k2' = [k2 EXCEPT ![t] = @ + 1]
  /\ UNCHANGED <<offset, batch, at2, n2, taken>> /\ Stay
PushAgain(t) ==
  /\ at2[t] = "push" /\ k2[t] < n2[t] /\ Len(Target(t)) = Room /\ k2[t] > 0
  /\ k2' = [k2 EXCEPT ![t] = 0]
  /\ UNCHANGED <<freeRing, usedRing, offset, batch, at2, n2, taken>> /\ Stay
Pushed(t) ==
  /\ at2[t] = "push" /\ k2[t] = n2[t] /\ Goto(t, "loop")
  /\ n2' = [n2 EXCEPT ![t] = 0] /\ k2' = [k2 EXCEPT ![t] = 0]
  /\ UNCHANGED <<freeRing, usedRing, offset, batch, taken>> /\ Stay

\* after two seconds
Stop ==
  /\ ~stopped /\ stopped' = TRUE
  /\ UNCHANGED <<ringMode, freeRing, usedRing, offset, batch, at2, n2, k2, taken>>

\* ~jthread joins both; or the producer spins on a full ring that nobody empties any more
Left == at2[P] = "left" /\ at2[C] = "left"
Stuck == at2[P] = "push" /\ Len(usedRing) = Room /\ at2[C] = "left"
Rests == (Left \/ Stuck) /\ UNCHANGED vars

ProducerStep == Enter(P, "fill") \/ Bump \/ TakeFree \/ Filled \/ PushOne(P) \/ PushAgain(P) \/ Pushed(P)
ConsumerStep == Enter(C, "pop") \/ Popped \/ Processed \/ PushOne(C) \/ PushAgain(C) \/ Pushed(C)
Next == ProducerStep \/ ConsumerStep \/ Stop \/ Rests
Spec == Init /\ [][Next]_vars

----------------------------------------------------------------------------
\* where buffer b is: in a ring, or with a thread that has not pushed it yet
Places(b) ==
  {<<"free", k>> : k \in {k \in DOMAIN freeRing : freeRing[k] = b}}
    \cup {<<"used", k>> : k \in {k \in DOMAIN usedRing : usedRing[k] = b}}
    \cup UNION {{<<t, k>> : k \in {k \in k2[t] + 1 .. n2[t] : batch[Array(t)][k] = b}} : t \in {P, C}}

(* "Every object is allocated again only after the Consumer is done with   *)
(* it" (notes_spsc_bump_vs_double_ring.cpp:25): each buffer is in exactly  *)
(* one place.                                                              *)
BuffersExact == ~Single => \A b \in 1..Room : \E p \in Places(b) : Places(b) = {p}

(* That holds of the double ring without batches; and the bump allocator,  *)
(* which makes no such promise, leaves its arena by one buffer at most.    *)
OneByOneExact ==
  /\ ringMode = "double" => BuffersExact
  /\ Single => \A k \in DOMAIN usedRing : usedRing[k] <= ArenaCap

(* The double ring without batches ends; in the other modes the producer   *)
(* may be left spinning on a ring that the consumer has stopped emptying.  *)
GoneThrough == Left \/ (ringMode # "double" /\ Stuck)
=============================================================================
