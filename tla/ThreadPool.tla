----------------------------- MODULE ThreadPool -----------------------------
(***************************************************************************)
(* ThreadPool of topics/concurrency/thread_pool.cpp.  main submits the     *)
(* tasks 1..N, may wait for their futures in order and destroys the pool.  *)
(* The task of a spawner submits another task from the worker that runs    *)
(* it, which may happen while the destructor is waiting.  submit and the   *)
(* destructor notify after they have released the mutex, so the lock and   *)
(* the notification are two steps.                                         *)
(***************************************************************************)
EXTENDS Naturals, Sequences, FiniteSets, CondVar

CONSTANTS Workers, Main,   \* the threads
          N,               \* tasks main submits (8 in main)
          Spawners         \* tasks that submit one more, their child

child(t) == N + t
VARIABLES tasks_, stop_,    \* the members
          cond,             \* the workers waiting on cond_
          pc, task,         \* program counter of every thread, task of a worker
          submitted, got,   \* main: tasks submitted, futures obtained
          finished, failed  \* futures that hold a value, an exception
vars == <<tasks_, stop_, cond, pc, task, submitted, got, finished, failed>>

Init ==
  /\ tasks_ = <<>> /\ stop_ = FALSE /\ cond = {}
  /\ pc = [x \in Workers \cup {Main} |-> IF x = Main THEN "submit" ELSE "lock"]
  /\ task = [x \in Workers |-> 0]
  /\ submitted = 0 /\ got = 0 /\ finished = {} /\ failed = {}

Goto(x, l) == pc' = [pc EXCEPT ![x] = l]

----------------------------------------------------------------------------
(* submit, the locked block: it throws on a stopped pool. *)
Enqueue(t) == ~stop_ /\ tasks_' = Append(tasks_, t)

MainSubmits ==
  /\ pc[Main] = "submit" /\ submitted < N
  /\ Enqueue(submitted + 1)
  /\ submitted' = submitted + 1
  /\ Goto(Main, "notify")
  /\ UNCHANGED <<stop_, cond, task, got, finished, failed>>

(* submit: cond_.notify_one(), outside of the lock. *)
MainUnnotified ==
  /\ pc[Main] = "notify"
  /\ Goto(Main, "submit")
  /\ UNCHANGED <<tasks_, stop_, cond, task, submitted, got, finished, failed>>
MainNotifies ==
  /\ pc[Main] = "notify"
  /\ cond' \in NotifyOne(cond)
  /\ Goto(Main, "submit")
  /\ UNCHANGED <<tasks_, stop_, task, submitted, got, finished, failed>>

(* futures[i].get() *)
MainGets ==
  /\ pc[Main] = "submit" /\ submitted = N /\ got < N
  /\ got + 1 \in finished \cup failed
  /\ got' = got + 1
  /\ UNCHANGED <<tasks_, stop_, cond, pc, task, submitted, finished, failed>>

(* ~ThreadPool, with or without a get of every future before it. *)
MainStops ==
  /\ pc[Main] = "submit" /\ submitted = N
  /\ stop_' = TRUE
  /\ Goto(Main, "stopped")
  /\ UNCHANGED <<tasks_, cond, task, submitted, got, finished, failed>>
NotifiesOnlyOne ==
  /\ pc[Main] = "stopped"
  /\ cond' \in NotifyOne(cond)
  /\ Goto(Main, "join")
  /\ UNCHANGED <<tasks_, stop_, task, submitted, got, finished, failed>>
MainNotifiesAll ==
  /\ pc[Main] = "stopped"
  /\ cond' = NotifyAll(cond)
  /\ Goto(Main, "join")
  /\ UNCHANGED <<tasks_, stop_, task, submitted, got, finished, failed>>
MainJoins ==
  /\ pc[Main] = "join" /\ \A x \in Workers : pc[x] = "exit"
  /\ Goto(Main, "end")
  /\ UNCHANGED <<tasks_, stop_, cond, task, submitted, got, finished, failed>>

----------------------------------------------------------------------------
Locked(x) == pc[x] = "lock" /\ x \notin cond

(* cond_.wait: the predicate is false. *)
WorkerWaits(x) ==
  /\ Locked(x) /\ ~stop_ /\ tasks_ = <<>>
  /\ cond' = cond \cup {x}
  /\ UNCHANGED <<tasks_, stop_, pc, task, submitted, got, finished, failed>>

(* if (stop_ && tasks_.empty()) return *)
LeavesWhenStopped(x) ==
  /\ Locked(x) /\ stop_
  /\ Goto(x, "exit")
  /\ UNCHANGED <<tasks_, stop_, cond, task, submitted, got, finished, failed>>
WorkerLeaves(x) ==
  /\ Locked(x) /\ stop_ /\ tasks_ = <<>>
  /\ Goto(x, "exit")
  /\ UNCHANGED <<tasks_, stop_, cond, task, submitted, got, finished, failed>>

WorkerTakes(x) ==
  /\ Locked(x) /\ tasks_ # <<>>
  /\ task' = [task EXCEPT ![x] = Head(tasks_)]
  /\ tasks_' = Tail(tasks_)
  /\ Goto(x, "run")
  /\ UNCHANGED <<stop_, cond, submitted, got, finished, failed>>

(* task() of a task that submits nothing: its future becomes ready. *)
WorkerRuns(x) ==
  /\ pc[x] = "run" /\ task[x] \notin Spawners
  /\ finished' = finished \cup {task[x]}
  /\ Goto(x, "lock")
  /\ UNCHANGED <<tasks_, stop_, cond, task, submitted, got, failed>>

(* task() of a spawner: submit, or its exception kept in the future. *)
WorkerSpawns(x) ==
  /\ pc[x] = "run" /\ task[x] \in Spawners
  /\ Enqueue(child(task[x]))
  /\ Goto(x, "notify")
  /\ UNCHANGED <<stop_, cond, task, submitted, got, finished, failed>>
WorkerNotifies(x) ==
  /\ pc[x] = "notify"
  /\ cond' \in NotifyOne(cond)
  /\ finished' = finished \cup {task[x]}
  /\ Goto(x, "lock")
  /\ UNCHANGED <<tasks_, stop_, task, submitted, got, failed>>
WorkerThrows(x) ==
  /\ pc[x] = "run" /\ task[x] \in Spawners /\ stop_
  /\ failed' = failed \cup {task[x]}
  /\ Goto(x, "lock")
  /\ UNCHANGED <<tasks_, stop_, cond, task, submitted, got, finished>>

Spurious ==
  /\ cond' \in SpuriousWakeup(cond)
  /\ UNCHANGED <<tasks_, stop_, pc, task, submitted, got, finished, failed>>

Ended == pc[Main] = "end" /\ UNCHANGED vars

MainStep == MainSubmits \/ MainNotifies \/ MainGets \/ MainStops \/ MainNotifiesAll \/ MainJoins
WorkerStep(x) ==
  \/ WorkerWaits(x) \/ WorkerLeaves(x) \/ WorkerTakes(x)
  \/ WorkerRuns(x) \/ WorkerSpawns(x) \/ WorkerNotifies(x) \/ WorkerThrows(x)
Next == MainStep \/ (\E x \in Workers : WorkerStep(x)) \/ Spurious \/ Ended

(* Every thread that can go on does, and tasks return. *)
Spec ==
  /\ Init /\ [][Next]_vars /\ WF_vars(MainStep)
  /\ \A x \in Workers : WF_vars(WorkerStep(x))

----------------------------------------------------------------------------
(* Although submit and the destructor notify after unlocking, no worker    *)
(* sleeps on work: while one waits, every queued task has a worker awake   *)
(* or a notification on its way, and a stopped pool its notify_all.        *)
Awake == {x \in Workers : Locked(x)}
Notifying == {x \in Workers \cup {Main} : pc[x] = "notify"}
NoLostWakeup ==
  cond # {} => /\ Len(tasks_) <= Cardinality(Awake) + Cardinality(Notifying)
               /\ stop_ => pc[Main] = "stopped"

(* The destructor drains the pool: when it returns, every task that submit *)
(* accepted has run, the ones accepted from a worker too, and no future is *)
(* left without a value or an exception.                                   *)
DrainedAtEnd ==
  pc[Main] = "end" =>
    /\ 1..N \subseteq finished \cup failed
    /\ \A t \in Spawners \cap finished : child(t) \in finished

(* main gets through in the end: every future it waits for becomes ready and the      *)
(* destructor joins every worker.                                          *)
GoneThrough == pc[Main] = "end"
=============================================================================
