------------------------------ MODULE CondVar ------------------------------
(***************************************************************************)
(* std::condition_variable as the monitors of the repository use it, by    *)
(* its set of waiting threads.  A thread in the set holds no mutex and     *)
(* does nothing; a thread that leaves it takes the mutex and evaluates the *)
(* predicate of its wait again.  A critical section is one step, because   *)
(* every access to the guarded state is made under the one mutex.          *)
(***************************************************************************)

(* What notify_one may leave of the waiting threads. *)
NotifyOne(waiting) ==
  IF waiting = {} THEN {{}} ELSE {waiting \ {t} : t \in waiting}

(* What notify_all leaves of them. *)
NotifyAll(waiting) == {}

(* A wait may also return when nobody has notified it. *)
SpuriousWakeup(waiting) == {waiting \ {t} : t \in waiting}
============================================================================
