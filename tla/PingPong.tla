------------------------------ MODULE PingPong ------------------------------
(***************************************************************************)
(* topics/.../context_switch_threads_vs_processes.cpp: thread_ping_pong,   *)
(* two threads that take turns with one condition variable, and            *)
(* process_ping_pong, two processes with a pipe each way, where read and   *)
(* write may fail and writing to a pipe nobody reads kills the process.    *)
(***************************************************************************)
EXTENDS Naturals, CondVar

CONSTANT ITERS

VARIABLES mode,                  \* "threads" or "processes"
          turn, over, asleep,    \* turn, done, who waits on cv
          rounds,                \* player -> rounds of its loop
          at,                    \* player -> where it is
          p2c, c2p               \* bytes in the pipes

vars == <<mode, turn, over, asleep, rounds, at, p2c, c2p>>
A == "A"                         \* main, the parent
B == "B"                         \* the worker, the child
Gone == {"left", "exit", "killed"}

Init ==
  /\ mode \in {"threads", "processes"}
  /\ turn = FALSE /\ over = FALSE /\ asleep = {} /\ p2c = 0 /\ c2p = 0
  /\ rounds = [x \in {A, B} |-> 0] /\ at = [x \in {A, B} |-> "loop"]

Goes(x, to) == at' = [at EXCEPT ![x] = to]
Counts(x) == rounds' = [rounds EXCEPT ![x] = @ + 1]
threadOnly == <<turn, over, asleep>>
pipes == <<p2c, c2p>>

\* one turn of a thread's loop under the mutex: it waits, or takes its turn and notifies
ThreadTurn(x) ==
  /\ mode = "threads" /\ at[x] = "loop" /\ x \notin asleep /\ rounds[x] < ITERS
  /\ \/ /\ turn # (x = B) /\ ~(x = B /\ over) /\ asleep' = asleep \cup {x}
        /\ UNCHANGED <<turn, rounds, at>>
     \/ x = B /\ over /\ Goes(B, "left") /\ UNCHANGED <<turn, asleep, rounds>>
     \/ /\ turn = (x = B) /\ ~(x = B /\ over) /\ turn' = ~turn /\ Counts(x)
        /\ asleep' \in NotifyOne(asleep) /\ UNCHANGED at
  /\ UNCHANGED <<mode, over, pipes>>
\* done = true and notify_one; the worker's loop ends
ThreadEnds(x) ==
  /\ mode = "threads" /\ at[x] = "loop" /\ rounds[x] = ITERS /\ Goes(x, "left")
  /\ IF x = A THEN over' = TRUE /\ asleep' \in NotifyOne(asleep) ELSE UNCHANGED <<over, asleep>>
  /\ UNCHANGED <<mode, turn, rounds, pipes>>
SpuriousTurn ==
  /\ mode = "threads" /\ asleep' \in SpuriousWakeup(asleep)
  /\ UNCHANGED <<mode, turn, over, rounds, at, pipes>>

\* the parent: write, read; it leaves the loop on a failure and closes its ends
ParentWrite ==
  /\ mode = "processes" /\ at[A] = "loop" /\ rounds[A] < ITERS
  /\ \/ at[B] \notin Gone /\ p2c' = p2c + 1 /\ Goes(A, "read")
     \/ at[B] \in Gone /\ Goes(A, "killed") /\ UNCHANGED p2c
     \/ Goes(A, "left") /\ UNCHANGED p2c
  /\ UNCHANGED <<mode, threadOnly, rounds, c2p>>
ParentRead ==
  /\ mode = "processes" /\ at[A] = "read"
  /\ \/ c2p > 0 /\ c2p' = c2p - 1 /\ Counts(A) /\ Goes(A, "loop")
     \/ (c2p = 0 => at[B] \in Gone) /\ Goes(A, "left") /\ UNCHANGED <<c2p, rounds>>
  /\ UNCHANGED <<mode, threadOnly, p2c>>
ParentDone ==
  /\ mode = "processes" /\ at[A] = "loop" /\ rounds[A] = ITERS /\ Goes(A, "left")
  /\ UNCHANGED <<mode, threadOnly, rounds, pipes>>

\* the child: read, write; it exits on a failure
ChildRead ==
  /\ mode = "processes" /\ at[B] = "loop" /\ rounds[B] < ITERS
  /\ \/ p2c > 0 /\ p2c' = p2c - 1 /\ Goes(B, "write")
     \/ (p2c = 0 => at[A] \in Gone) /\ Goes(B, "exit") /\ UNCHANGED p2c
  /\ UNCHANGED <<mode, threadOnly, rounds, c2p>>
ChildWrite ==
  /\ mode = "processes" /\ at[B] = "write"
  /\ \/ at[A] \notin Gone /\ c2p' = c2p + 1 /\ Counts(B) /\ Goes(B, "loop")
     \/ at[A] \in Gone /\ Goes(B, "killed") /\ UNCHANGED <<c2p, rounds>>
     \/ Goes(B, "exit") /\ UNCHANGED <<c2p, rounds>>
  /\ UNCHANGED <<mode, threadOnly, p2c>>
ChildDone ==
  /\ mode = "processes" /\ at[B] = "loop" /\ rounds[B] = ITERS /\ Goes(B, "exit")
  /\ UNCHANGED <<mode, threadOnly, rounds, pipes>>

\* tB.join(), waitpid
Over == at[A] \in Gone /\ at[B] \in Gone /\ UNCHANGED vars

StepA == ThreadTurn(A) \/ ThreadEnds(A) \/ ParentWrite \/ ParentRead \/ ParentDone
StepB == ThreadTurn(B) \/ ThreadEnds(B) \/ ChildRead \/ ChildWrite \/ ChildDone
Next == StepA \/ StepB \/ SpuriousTurn \/ Over

----------------------------------------------------------------------------
(* The players alternate: neither is ahead by more than a round, and at    *)
(* most one byte is under way.                                             *)
Alternates ==
  /\ rounds[B] <= rounds[A] + 1 /\ rounds[A] <= rounds[B] + 1
  /\ p2c + c2p <= 1

(* Although turns and the end share one condition variable and one         *)
(* notification, nobody sleeps when it is its turn or when it is over.     *)
NoLostWakeup == (A \in asleep => turn) /\ (B \in asleep => ~turn /\ ~over)

(* Both players end, a failed read or write included: closing a pipe       *)
(* releases the process at its other end.                                  *)
GoneThrough == at[A] \in Gone /\ at[B] \in Gone
=============================================================================
