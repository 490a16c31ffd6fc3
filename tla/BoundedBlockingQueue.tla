------------------------ MODULE BoundedBlockingQueue ------------------------
(***************************************************************************)
(* BoundedBlockingQueue of topics/concurrency/bounded_blocking_queue.cpp,  *)
(* driven by any number of producer and consumer threads (one of each in   *)
(* main).  The items are numbered in the order in which they are pushed.   *)
(***************************************************************************)
EXTENDS Naturals, Sequences, FiniteSets, CondVar

CONSTANTS Producers, Consumers,   \* the threads
          MaxSize,                \* template parameter MaxSize (3 in main)
          Pushes, Pops            \* calls made by each producer, each consumer

ASSUME ThreadsAssumption ==
  IsFiniteSet(Producers) /\ IsFiniteSet(Consumers) /\ Producers \cap Consumers = {}
ASSUME QueueAssumption ==
  /\ MaxSize \in Nat \ {0} /\ Pushes \in Nat /\ Pops \in Nat
  /\ Cardinality(Producers) * Pushes = Cardinality(Consumers) * Pops

VARIABLES queue,                  \* queue_
          not_full, not_empty,    \* the threads waiting on the two variables
          pushes, pops,           \* calls completed, by thread
          popped                  \* the items popped, in order
vars == <<queue, not_full, not_empty, pushes, pops, popped>>

Total == Cardinality(Producers) * Pushes
pushed == Len(popped) + Len(queue)

Init ==
  /\ queue = <<>> /\ not_full = {} /\ not_empty = {} /\ popped = <<>>
  /\ pushes = [p \in Producers |-> 0] /\ pops = [c \in Consumers |-> 0]

Producing(p) == pushes[p] < Pushes /\ p \notin not_full
Consuming(c) == pops[c] < Pops /\ c \notin not_empty

----------------------------------------------------------------------------
(* push: the predicate of not_full_.wait holds. *)
PushIntoFull(p) ==
  /\ Producing(p) /\ Len(queue) <= MaxSize
  /\ queue' = Append(queue, pushed)
  /\ not_empty' \in NotifyOne(not_empty)
  /\ pushes' = [pushes EXCEPT ![p] = @ + 1]
  /\ UNCHANGED <<not_full, pops, popped>>
PushIfEmptyNotify(p) ==
  /\ Producing(p) /\ Len(queue) < MaxSize
  /\ queue' = Append(queue, pushed)
  /\ not_empty' \in IF queue = <<>> THEN NotifyOne(not_empty) ELSE {not_empty}
  /\ pushes' = [pushes EXCEPT ![p] = @ + 1]
  /\ UNCHANGED <<not_full, pops, popped>>
push(p) ==
  /\ Producing(p) /\ Len(queue) < MaxSize
  /\ queue' = Append(queue, pushed)
  /\ not_empty' \in NotifyOne(not_empty)
  /\ pushes' = [pushes EXCEPT ![p] = @ + 1]
  /\ UNCHANGED <<not_full, pops, popped>>

(* push: it does not, and the thread waits. *)
PushWaits(p) ==
  /\ Producing(p) /\ ~(Len(queue) < MaxSize)
  /\ not_full' = not_full \cup {p}
  /\ UNCHANGED <<queue, not_empty, pushes, pops, popped>>

(* pop: the predicate of not_empty_.wait holds. *)
PopNotifiesWrong(c) ==
  /\ Consuming(c) /\ queue # <<>>
  /\ popped' = Append(popped, Head(queue))
  /\ queue' = Tail(queue)
  /\ not_empty' \in NotifyOne(not_empty)
  /\ pops' = [pops EXCEPT ![c] = @ + 1]
  /\ UNCHANGED <<not_full, pushes>>
pop(c) ==
  /\ Consuming(c) /\ queue # <<>>
  /\ popped' = Append(popped, Head(queue))
  /\ queue' = Tail(queue)
  /\ not_full' \in NotifyOne(not_full)
  /\ pops' = [pops EXCEPT ![c] = @ + 1]
  /\ UNCHANGED <<not_empty, pushes>>

(* pop: it does not, and the thread waits. *)
PopWaits(c) ==
  /\ Consuming(c) /\ queue = <<>>
  /\ not_empty' = not_empty \cup {c}
  /\ UNCHANGED <<queue, not_full, pushes, pops, popped>>

Spurious ==
  /\ \/ not_full' \in SpuriousWakeup(not_full) /\ UNCHANGED not_empty
     \/ not_empty' \in SpuriousWakeup(not_empty) /\ UNCHANGED not_full
  /\ UNCHANGED <<queue, pushes, pops, popped>>

(* producer.join(); consumer.join() *)
Finished == (\A p \in Producers : pushes[p] = Pushes) /\ (\A c \in Consumers : pops[c] = Pops)
Joined == Finished /\ UNCHANGED vars

Producer(p) == push(p) \/ PushWaits(p)
Consumer(c) == pop(c) \/ PopWaits(c)
Next ==
  \/ \E p \in Producers : Producer(p)
  \/ \E c \in Consumers : Consumer(c)
  \/ Spurious \/ Joined

(* A thread that is not waiting gets the mutex in the end; nothing wakes a *)
(* waiting thread but a notification, as no wake-up without one is sure.   *)
Spec ==
  /\ Init /\ [][Next]_vars
  /\ \A p \in Producers : WF_vars(Producer(p))
  /\ \A c \in Consumers : WF_vars(Consumer(c))

----------------------------------------------------------------------------
(* Every variable has its type, and the queue never exceeds MaxSize. *)
TypeOK ==
  /\ queue \in Seq(Nat) /\ Len(queue) <= MaxSize /\ popped \in Seq(Nat)
  /\ not_full \subseteq Producers /\ not_empty \subseteq Consumers
  /\ pushes \in [Producers -> 0..Pushes] /\ pops \in [Consumers -> 0..Pops]

(* notify_one is enough: while a consumer waits there is a thread awake    *)
(* for every item of the queue, and while a producer waits there is one    *)
(* awake for every free place, so no wake-up is lost or spent on a thread  *)
(* that cannot use it, whoever takes the item in between.                  *)
AwakeProducers == {p \in Producers : Producing(p)}
AwakeConsumers == {c \in Consumers : Consuming(c)}
NoLostWakeup ==
  /\ not_empty # {} => Cardinality(AwakeConsumers) >= Len(queue)
  /\ not_full # {} => Cardinality(AwakeProducers) >= MaxSize - Len(queue)

(* A thread that waits is in the middle of a call. *)
WaitersBusy ==
  /\ \A p \in not_full : pushes[p] < Pushes
  /\ \A c \in not_empty : pops[c] < Pops

(* The invariant that every step preserves. *)
IndInv == TypeOK /\ WaitersBusy /\ NoLostWakeup

(* Every thread completes its calls: no push or pop blocks for ever. *)
Termination == <>Finished

(* The monitor implements the bounded FIFO queue, progress included. *)
Fifo == INSTANCE BoundedFifo WITH N <- Total, q <- queue, sent <- pushed, got <- popped
ImplementsFifo == Fifo!Spec
=============================================================================
