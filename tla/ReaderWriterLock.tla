-------------------------- MODULE ReaderWriterLock --------------------------
(***************************************************************************)
(* ReaderWriterLock of topics/concurrency/reader_writer_lock.cpp and the   *)
(* threads of main, which take it through ReadGuard and WriteGuard a fixed *)
(* number of times.  Every reader and writer waits on the one variable     *)
(* cond_, each with its own predicate.                                     *)
(***************************************************************************)
EXTENDS Naturals, FiniteSets, CondVar

CONSTANTS Readers, Writers,   \* the threads (two and one in main)
          Rounds              \* guards each thread takes (10 and 5 in main)

Threads == Readers \cup Writers

ASSUME RWAssumption ==
  /\ IsFiniteSet(Readers) /\ IsFiniteSet(Writers) /\ Readers \cap Writers = {}
  /\ Rounds \in Nat

VARIABLES readers_, writing_,   \* the members
          cond,                 \* the threads waiting on cond_
          inside,               \* the threads whose guard is alive
          rounds                \* guards released, by thread
vars == <<readers_, writing_, cond, inside, rounds>>

Init ==
  /\ readers_ = 0 /\ writing_ = FALSE /\ cond = {} /\ inside = {}
  /\ rounds = [t \in Threads |-> 0]

MayRead == ~writing_
MayWrite == ~writing_ /\ readers_ = 0

Asking(t) == rounds[t] < Rounds /\ t \notin inside \cup cond
Released(t) == inside' = inside \ {t} /\ rounds' = [rounds EXCEPT ![t] = @ + 1]

Wait(t) ==
  /\ cond' = cond \cup {t}
  /\ UNCHANGED <<readers_, writing_, inside, rounds>>

----------------------------------------------------------------------------
LockReadAnyway(t) ==
  /\ t \in Readers /\ Asking(t)
  /\ readers_' = readers_ + 1 /\ inside' = inside \cup {t}
  /\ UNCHANGED <<writing_, cond, rounds>>
lock_read(t) ==
  /\ t \in Readers /\ Asking(t)
  /\ \/ /\ MayRead
        /\ readers_' = readers_ + 1 /\ inside' = inside \cup {t}
        /\ UNCHANGED <<writing_, cond, rounds>>
     \/ ~MayRead /\ Wait(t)

UnlockReadSilent(t) ==
  /\ t \in Readers /\ t \in inside
  /\ readers_' = readers_ - 1
  /\ Released(t) /\ UNCHANGED <<writing_, cond>>
unlock_read(t) ==
  /\ t \in Readers /\ t \in inside
  /\ readers_' = readers_ - 1
  /\ cond' = IF readers_' = 0 THEN NotifyAll(cond) ELSE cond
  /\ Released(t) /\ UNCHANGED writing_

lock_write(t) ==
  /\ t \in Writers /\ Asking(t)
  /\ \/ /\ MayWrite
        /\ writing_' = TRUE /\ inside' = inside \cup {t}
        /\ UNCHANGED <<readers_, cond, rounds>>
     \/ ~MayWrite /\ Wait(t)

UnlockWriteOne(t) ==
  /\ t \in Writers /\ t \in inside
  /\ writing_' = FALSE
  /\ cond' \in NotifyOne(cond)
  /\ Released(t) /\ UNCHANGED readers_
unlock_write(t) ==
  /\ t \in Writers /\ t \in inside
  /\ writing_' = FALSE
  /\ cond' = NotifyAll(cond)
  /\ Released(t) /\ UNCHANGED readers_

Spurious == cond' \in SpuriousWakeup(cond) /\ UNCHANGED <<readers_, writing_, inside, rounds>>

(* writer.join(); reader1.join(); reader2.join() *)
(* Every guard is obtained in the end: with finitely many rounds the       *)
(* readers, who may overtake a waiting writer, cannot do so for ever.      *)
Finished == \A t \in Threads : rounds[t] = Rounds
Joined == Finished /\ UNCHANGED vars

Step(t) == lock_read(t) \/ unlock_read(t) \/ lock_write(t) \/ unlock_write(t)
Next == (\E t \in Threads : Step(t)) \/ Spurious \/ Joined

(* A thread that is not waiting on cond_ gets the mutex in the end. *)
Spec == Init /\ [][Next]_vars /\ \A t \in Threads : WF_vars(Step(t))

----------------------------------------------------------------------------
(* Every variable has its type. *)
TypeOK ==
  /\ readers_ \in 0..Cardinality(Readers) /\ writing_ \in BOOLEAN
  /\ cond \subseteq Threads /\ inside \subseteq Threads
  /\ rounds \in [Threads -> 0..Rounds]

(* "Multiple readers OR single writer": a writer is alone inside. *)
Exclusion == \A t \in inside \cap Writers : inside = {t}

(* No thread sleeps through its turn: the predicate of every waiting       *)
(* thread is false.  unlock_read notifies only when the last reader        *)
(* leaves, and one notification must serve readers and writers alike.      *)
NoMissedTurn ==
  /\ cond \cap Readers # {} => ~MayRead
  /\ cond \cap Writers # {} => ~MayWrite

(* The members agree with the guards that are alive. *)
Accounts ==
  /\ readers_ = Cardinality(inside \cap Readers)
  /\ writing_ <=> inside \cap Writers # {}
  /\ \A t \in inside : rounds[t] < Rounds

(* The invariant that every step preserves. *)
IndInv == TypeOK /\ Accounts /\ Exclusion /\ NoMissedTurn
=============================================================================
