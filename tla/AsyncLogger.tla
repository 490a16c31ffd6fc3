---------------------------- MODULE AsyncLogger ----------------------------
(***************************************************************************)
(* AsyncLogger of topics/io/async_logger.cpp: threads that call log, the   *)
(* worker thread started by the constructor, and the destructor, which may *)
(* run while messages are still queued.  A message is the thread and the   *)
(* number of its call, with a flag for the empty string, which is queued   *)
(* but never printed.                                                      *)
(***************************************************************************)
EXTENDS Naturals, Sequences, SequencesExt, CondVar

CONSTANTS Loggers,   \* threads that call log (main in the demo)
          Logs       \* calls made by each

VARIABLES queue, done_,    \* queue_, done_
          cond,            \* the threads waiting on cond_: only the worker does
          logs,            \* calls completed, by thread
          logged,          \* the non-empty messages, in the order of the calls
          wp, msg,         \* worker: program counter and msg
          printed,         \* what std::print was given, in order
          joined           \* the destructor has returned
vars == <<queue, done_, cond, logs, logged, wp, msg, printed, joined>>

Worker == "worker"
NoMessage == <<>>

Init ==
  /\ queue = <<>> /\ done_ = FALSE /\ cond = {}
  /\ logs = [t \in Loggers |-> 0] /\ logged = <<>>
  /\ wp = "lock" /\ msg = NoMessage /\ printed = <<>> /\ joined = FALSE

----------------------------------------------------------------------------
log(t) ==
  /\ logs[t] < Logs
  /\ \E e \in BOOLEAN :
       LET m == [by |-> t, n |-> logs[t], empty |-> e]
       IN  /\ queue' = Append(queue, m)
           /\ logged' = IF e THEN logged ELSE Append(logged, m)
  /\ logs' = [logs EXCEPT ![t] = @ + 1]
  /\ cond' \in NotifyOne(cond)
  /\ UNCHANGED <<done_, wp, msg, printed, joined>>

(* The destructor, once no thread uses the logger any more: the locked     *)
(* block, then worker_.join().                                             *)
SetDone ==
  /\ ~done_ /\ \A t \in Loggers : logs[t] = Logs
  /\ done_' = TRUE
  /\ cond' = NotifyAll(cond)
  /\ UNCHANGED <<queue, logs, logged, wp, msg, printed, joined>>
Join ==
  /\ done_ /\ wp = "exit" /\ ~joined
  /\ joined' = TRUE
  /\ UNCHANGED <<queue, done_, cond, logs, logged, wp, msg, printed>>

----------------------------------------------------------------------------
Locked == wp = "lock" /\ Worker \notin cond

(* cond_.wait: the predicate is false. *)
WorkerWaits ==
  /\ Locked /\ ~done_ /\ queue = <<>>
  /\ cond' = cond \cup {Worker}
  /\ UNCHANGED <<queue, done_, logs, logged, wp, msg, printed, joined>>

(* if (done_ && queue_.empty()) break *)
LeavesWhenDone ==
  /\ Locked /\ done_
  /\ wp' = "exit"
  /\ UNCHANGED <<queue, done_, cond, logs, logged, msg, printed, joined>>
WorkerLeaves ==
  /\ Locked /\ done_ /\ queue = <<>>
  /\ wp' = "exit"
  /\ UNCHANGED <<queue, done_, cond, logs, logged, msg, printed, joined>>

(* msg = front, pop, unlock *)
WorkerTakes ==
  /\ Locked /\ queue # <<>>
  /\ msg' = Head(queue) /\ queue' = Tail(queue)
  /\ wp' = "print"
  /\ UNCHANGED <<done_, cond, logs, logged, printed, joined>>

(* if (!msg.empty()) std::print; the next round has a new msg. *)
PrintAll ==
  /\ wp = "print"
  /\ printed' = Append(printed, msg)
  /\ wp' = "lock" /\ msg' = NoMessage
  /\ UNCHANGED <<queue, done_, cond, logs, logged, joined>>
WorkerPrints ==
  /\ wp = "print"
  /\ printed' = IF msg.empty THEN printed ELSE Append(printed, msg)
  /\ wp' = "lock" /\ msg' = NoMessage
  /\ UNCHANGED <<queue, done_, cond, logs, logged, joined>>

Spurious ==
  /\ cond' \in SpuriousWakeup(cond)
  /\ UNCHANGED <<queue, done_, logs, logged, wp, msg, printed, joined>>

Ended == joined /\ UNCHANGED vars

WorkerStep == WorkerWaits \/ WorkerLeaves \/ WorkerTakes \/ WorkerPrints
Next == (\E t \in Loggers : log(t)) \/ SetDone \/ Join \/ WorkerStep \/ Spurious \/ Ended

(* Every thread is scheduled: the loggers make their calls, and main lets  *)
(* the logger go out of scope after them.                                  *)
Spec ==
  /\ Init /\ [][Next]_vars
  /\ WF_vars(WorkerStep) /\ WF_vars(SetDone) /\ WF_vars(Join)
  /\ \A t \in Loggers : WF_vars(log(t))

----------------------------------------------------------------------------
(* Lines come out in the order of the log calls of all threads, with no    *)
(* gap, repetition or empty line, at any moment the process may be looked  *)
(* at: the output is a prefix of what was logged.                          *)
OutputInOrder == IsPrefix(printed, logged)

(* The destructor loses nothing: whatever was queued, or already taken by  *)
(* the worker, when it set done_ has been printed when it returns.         *)
FlushedAtExit == joined => printed = logged

(* The worker never sleeps on work, or on the destructor. *)
NoLostWakeup == Worker \in cond => queue = <<>> /\ ~done_

(* In the end the destructor returns. *)
GoneThrough == joined
=============================================================================
