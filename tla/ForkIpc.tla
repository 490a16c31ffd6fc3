------------------------------ MODULE ForkIpc -------------------------------
(***************************************************************************)
(* topics/concurrency/fork_mmap_ipc_sync.cpp: a parent and a child that    *)
(* synchronise through a pipe, two atomics, a mutex, a condition variable  *)
(* and a semaphore in shared memory.  A section under the mutex is one     *)
(* step.  pipe, mmap and fork have succeeded; the write to the pipe may    *)
(* fail, and then the read does.  "hi" stands for the message.             *)
(***************************************************************************)
EXTENDS Naturals, CondVar

VARIABLES counter, message, child_ready, condWait, sem,   \* Shared
          sem_ok,
          bytes, writeOpen,      \* the pipe: bytes in it, the parent has its end open
          parent, child,         \* where the two processes are
          seen,                  \* what the child read under the mutex
          destroyed              \* destroy_shared and munmap are over

vars == <<counter, message, child_ready, condWait, sem, sem_ok, bytes, writeOpen,
          parent, child, seen, destroyed>>
Child == "child"
Nothing == [counter |-> 0, message |-> "zeroes"]

\* Shared(), init_shared, fork; sem_init may not be supported
Init ==
  /\ counter = 0 /\ message = "zeroes" /\ child_ready = 0 /\ condWait = {} /\ sem = 0
  /\ sem_ok \in BOOLEAN /\ bytes = 0 /\ writeOpen = TRUE
  /\ parent = "data" /\ child = "read" /\ seen = Nothing /\ destroyed = FALSE

P(from, to) == parent = from /\ parent' = to
C(from, to) == child = from /\ child' = to
pipe == <<bytes, writeOpen>>
shared == <<counter, message, child_ready, condWait, sem, sem_ok, destroyed>>
mine == <<child, seen>>

ParentData ==
  /\ P("data", "write") /\ counter' = 10 /\ message' = "hi"
  /\ UNCHANGED <<child_ready, condWait, sem, sem_ok, destroyed, pipe, mine>>
\* the result of write is not looked at
ParentWrite ==
  /\ P("write", "spin") /\ bytes' \in {bytes, bytes + 1} /\ writeOpen' = FALSE
  /\ UNCHANGED <<shared, mine>>
ParentSpin == P("spin", "signal") /\ child_ready = 1 /\ UNCHANGED <<shared, pipe, mine>>
ParentUnsignalled ==
  /\ P("signal", "post") /\ counter' = 20
  /\ UNCHANGED <<message, child_ready, condWait, sem, sem_ok, destroyed, pipe, mine>>
ParentSignal ==
  /\ P("signal", "post") /\ counter' = 20 /\ condWait' \in NotifyOne(condWait)
  /\ UNCHANGED <<message, child_ready, sem, sem_ok, destroyed, pipe, mine>>
ParentPost ==
  /\ P("post", "wait") /\ sem' = IF sem_ok THEN sem + 1 ELSE sem
  /\ UNCHANGED <<counter, message, child_ready, condWait, sem_ok, destroyed, pipe, mine>>
ParentLeaves == P("wait", "destroy") /\ UNCHANGED <<shared, pipe, mine>>
ParentWait == P("wait", "destroy") /\ child \in {"exit0", "exit1"} /\ UNCHANGED <<shared, pipe, mine>>
ParentDestroy ==
  /\ P("destroy", "ended") /\ destroyed' = TRUE
  /\ UNCHANGED <<counter, message, child_ready, condWait, sem, sem_ok, pipe, mine>>
ParentStep ==
  \/ ParentData \/ ParentWrite \/ ParentSpin \/ ParentSignal
  \/ ParentPost \/ ParentWait \/ ParentDestroy

\* a byte, or the end of the pipe
ChildRead ==
  /\ \/ C("read", "ready") /\ bytes > 0 /\ bytes' = bytes - 1
     \/ C("read", "exit1") /\ bytes = 0 /\ ~writeOpen /\ UNCHANGED bytes
  /\ UNCHANGED <<writeOpen, shared, parent, seen>>
ChildReady ==
  /\ C("ready", "look") /\ child_ready' = 1
  /\ UNCHANGED <<counter, message, condWait, sem, sem_ok, destroyed, pipe, parent, seen>>
ChildLook ==
  /\ C("look", "cond") /\ seen' = [counter |-> counter, message |-> message]
  /\ UNCHANGED <<shared, pipe, parent>>
ChildCond ==
  /\ Child \notin condWait
  /\ \/ C("cond", "sem") /\ counter >= 20 /\ UNCHANGED condWait
     \/ C("cond", "cond") /\ counter < 20 /\ condWait' = {Child}
  /\ UNCHANGED <<counter, message, child_ready, sem, sem_ok, destroyed, pipe, parent, seen>>
ChildSem ==
  /\ C("sem", "store") /\ (sem_ok => sem > 0) /\ sem' = IF sem_ok THEN sem - 1 ELSE sem
  /\ UNCHANGED <<counter, message, child_ready, condWait, sem_ok, destroyed, pipe, parent, seen>>
ChildExit ==
  /\ C("store", "exit0") /\ counter' = 99
  /\ UNCHANGED <<message, child_ready, condWait, sem, sem_ok, destroyed, pipe, parent, seen>>
ChildStep == ChildRead \/ ChildReady \/ ChildLook \/ ChildCond \/ ChildSem \/ ChildExit
Spurious ==
  /\ condWait' \in SpuriousWakeup(condWait)
  /\ UNCHANGED <<counter, message, child_ready, sem, sem_ok, destroyed, pipe, parent, mine>>

Ended == parent = "ended" /\ UNCHANGED vars
\* the child is gone without setting child_ready: the parent spins for ever
Spinning == parent = "spin" /\ child = "exit1" /\ UNCHANGED vars

Next == ParentStep \/ ChildStep \/ Spurious \/ Ended \/ Spinning

----------------------------------------------------------------------------
(* What the child reads under the mutex is what the parent wrote before    *)
(* the byte, with the counter before or after the signal; the parent       *)
(* reports 99 if the child got that far; and the shared objects are        *)
(* destroyed only when nobody uses them any more.                          *)
HandedOver ==
  /\ seen # Nothing => seen.message = "hi" /\ seen.counter \in {10, 20}
  /\ parent = "destroy" => counter = (IF child = "exit0" THEN 99 ELSE 20)
  /\ destroyed => child = "exit0" /\ condWait = {} /\ sem = 0

(* The child does not sleep through the signal, spurious wake-ups or not.  *)
NoLostWakeup == condWait # {} => counter < 20

(* Both processes end, unless the pipe failed: then the parent spins on    *)
(* child_ready, which nobody sets.                                         *)
GoneThrough == parent = "ended" \/ (parent = "spin" /\ child = "exit1")
=============================================================================
