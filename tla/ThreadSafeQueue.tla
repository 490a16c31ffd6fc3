-------------------------- MODULE ThreadSafeQueue --------------------------
(***************************************************************************)
(* ThreadSafeQueue of topics/concurrency/thread_safe_queue.cpp: a producer *)
(* that pushes N items and then calls set_done, consumers that loop on     *)
(* wait_and_pop until it returns false (one in main), and pollers that     *)
(* call try_pop, which main does not use.  A try_pop of an empty queue     *)
(* changes nothing, so it is a stuttering step.                            *)
(***************************************************************************)
EXTENDS Naturals, Sequences, FiniteSets, CondVar

CONSTANTS Consumers, Pollers, N

VARIABLES queue, done_,   \* queue_, done_
          cond,           \* the threads waiting on cond_
          i,              \* the producer's loop counter
          exited,         \* the consumers that have left their loop
          got             \* the items popped, in order
vars == <<queue, done_, cond, i, exited, got>>

Init ==
  /\ queue = <<>> /\ done_ = FALSE /\ cond = {}
  /\ i = 0 /\ exited = {} /\ got = <<>>

push ==
  /\ i < N
  /\ queue' = Append(queue, i) /\ i' = i + 1
  /\ cond' \in NotifyOne(cond)
  /\ UNCHANGED <<done_, exited, got>>

set_done ==
  /\ i = N /\ ~done_
  /\ done_' = TRUE
  /\ cond' = NotifyAll(cond)
  /\ UNCHANGED <<queue, i, exited, got>>

Take ==
  /\ queue # <<>>
  /\ got' = Append(got, Head(queue))
  /\ queue' = Tail(queue)
  /\ UNCHANGED <<done_, cond, i, exited>>

(* try_pop of a non-empty queue, by any poller. *)
try_pop == Pollers # {} /\ Take

Awake == Consumers \ (cond \cup exited)

(* wait_and_pop: the predicate fails, it returns false, or it pops. *)
Waits(c) ==
  /\ c \in Awake /\ queue = <<>> /\ ~done_
  /\ cond' = cond \cup {c}
  /\ UNCHANGED <<queue, done_, i, exited, got>>
LeavesWhenDone(c) ==
  /\ c \in Awake /\ done_
  /\ exited' = exited \cup {c}
  /\ UNCHANGED <<queue, done_, cond, i, got>>
Leaves(c) ==
  /\ c \in Awake /\ queue = <<>> /\ done_
  /\ exited' = exited \cup {c}
  /\ UNCHANGED <<queue, done_, cond, i, got>>
Pops(c) == c \in Awake /\ Take
wait_and_pop(c) == Waits(c) \/ Leaves(c) \/ Pops(c)

Spurious == cond' \in SpuriousWakeup(cond) /\ UNCHANGED <<queue, done_, i, exited, got>>

Joined == done_ /\ exited = Consumers /\ UNCHANGED vars

Producer == push \/ set_done
Next ==
  Producer \/ (\E c \in Consumers : wait_and_pop(c)) \/ try_pop \/ Spurious \/ Joined

(* The producer and the consumers that are awake get the mutex in the end. *)
Spec ==
  /\ Init /\ [][Next]_vars /\ WF_vars(Producer)
  /\ \A c \in Consumers : WF_vars(wait_and_pop(c))

----------------------------------------------------------------------------
(* While a consumer waits there is one awake for every item, even when a   *)
(* poller takes the item a consumer was notified of, and nobody waits any  *)
(* more once set_done has run.                                             *)
NoLostWakeup == cond # {} => ~done_ /\ Cardinality(Awake) >= Len(queue)

(* wait_and_pop returns false only when there will never be another item,  *)
(* so that a consumer that leaves misses none.                             *)
NothingAfterFalse == exited # {} => Len(got) = N

(* In the end the consumers are released: none waits for ever on a         *)
(* finished queue.                                                         *)
GoneThrough == exited = Consumers

(* The monitor is an unbounded FIFO queue: no more than N items are pushed.*)
Fifo == INSTANCE BoundedFifo WITH MaxSize <- N, q <- queue, sent <- i, got <- got
ImplementsFifo == Fifo!Safety
=============================================================================
