---------------------------- MODULE BoundedFifo ----------------------------
(***************************************************************************)
(* What every queue of the repository promises: a FIFO of at most MaxSize  *)
(* items between one producer, which offers the items 0, 1, ..., N-1 in    *)
(* that order, and one consumer.  The mutex-and-deque baselines            *)
(* (MutexSPSCDeque, MutexMsgQueue, MutexQueue) are this state machine line *)
(* by line: each operation runs under one lock_guard, so it is one step.   *)
(***************************************************************************)
EXTENDS Naturals, Sequences

CONSTANTS MaxSize,   \* template parameter MaxSize of the baseline
          N          \* how many items the driving loop offers

VARIABLES q,      \* q_: the deque
          sent,   \* loop counter i of the producer, the next item offered
          got     \* the items handed to the consumer, in order

vars == <<q, sent, got>>

Init == q = <<>> /\ sent = 0 /\ got = <<>>

(* push: false, and nothing changes, when q_.size() >= MaxSize. *)
Push ==
  /\ sent < N
  /\ Len(q) < MaxSize
  /\ q' = Append(q, sent)
  /\ sent' = sent + 1
  /\ UNCHANGED got

(* pop: false, and nothing changes, when q_ is empty. *)
Pop ==
  /\ q # <<>>
  /\ got' = Append(got, Head(q))
  /\ q' = Tail(q)
  /\ UNCHANGED sent

Next == Push \/ Pop

Safety == Init /\ [][Next]_vars

(* Both loops retry a refused call until it succeeds. *)
Spec == Safety /\ WF_vars(Push) /\ WF_vars(Pop)
============================================================================
