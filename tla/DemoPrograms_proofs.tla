------------------------- MODULE DemoPrograms_proofs -------------------------
(***************************************************************************)
(* Results about the programs of DemoPrograms for every value of their     *)
(* parameters.  A program has an inductive invariant of its own, about its *)
(* own variables only, since the other programs do not touch them; a       *)
(* property of all programs follows from the invariants of each.           *)
(***************************************************************************)
EXTENDS DemoPrograms, FiniteSetTheorems, SequenceTheorems, TLAPS

----------------------------------------------------------------------------
(* Facts about condition variables, queues and counting.                   *)

(* notify_one takes one of the waiting threads, when there are any. *)
LEMMA NotifyOneFact ==
  ASSUME NEW W, NEW V, V \in NotifyOne(W)
  PROVE  /\ V \subseteq W
         /\ V # {} => \E t \in W : V = W \ {t}
         /\ \A t : W \subseteq {t} => V = {}
  BY DEF NotifyOne

(* A spurious wake-up only makes the set of waiting threads smaller. *)
LEMMA SpuriousFact ==
  ASSUME NEW W, NEW V, V \in SpuriousWakeup(W)
  PROVE  V \subseteq W
  BY DEF SpuriousWakeup

(* A queue that takes one more item. *)
LEMMA Appended ==
  ASSUME NEW S, NEW s \in Seq(S), NEW x \in S
  PROVE  /\ Append(s, x) \in Seq(S) /\ Len(s) \in Nat
         /\ Len(Append(s, x)) = Len(s) + 1
         /\ Append(s, x) # <<>>
  BY AppendProperties, LenProperties

(* A queue that gives its first item. *)
LEMMA Taken ==
  ASSUME NEW S, NEW s \in Seq(S), s # <<>>
  PROVE  /\ Head(s) \in S /\ Tail(s) \in Seq(S)
         /\ Len(s) \in Nat /\ Len(s) >= 1 /\ Len(Tail(s)) = Len(s) - 1
  <1>1. Len(s) \in Nat /\ Len(s) # 0
    BY EmptySeq, LenProperties
  <1> QED BY <1>1, HeadTailProperties

(* A set that gains no member but loses at most one. *)
LEMMA LoseOne ==
  ASSUME NEW S, NEW T, NEW x, IsFiniteSet(S), IsFiniteSet(T), S \ {x} \subseteq T
  PROVE  /\ Cardinality(T) \in Nat /\ Cardinality(S) \in Nat
         /\ Cardinality(T) >= Cardinality(S) - 1
         /\ S \subseteq T => Cardinality(T) >= Cardinality(S)
  <1>1. Cardinality(S \ {x}) \in Nat /\ Cardinality(S) \in Nat /\ Cardinality(T) \in Nat
    BY FS_RemoveElement, FS_CardinalityType
  <1>2. Cardinality(S \ {x}) <= Cardinality(T)
    BY FS_Subset
  <1>3. Cardinality(S \ {x}) >= Cardinality(S) - 1
    BY <1>1, FS_RemoveElement
  <1>4. S \subseteq T => Cardinality(S) <= Cardinality(T)
    BY FS_Subset
  <1> QED BY <1>1, <1>2, <1>3, <1>4

(* A set that gains a new member. *)
LEMMA GainOne ==
  ASSUME NEW S, NEW T, NEW x, IsFiniteSet(S), IsFiniteSet(T), x \notin S, S \cup {x} \subseteq T
  PROVE  /\ Cardinality(T) \in Nat /\ Cardinality(S) \in Nat
         /\ Cardinality(T) >= Cardinality(S) + 1
  <1>1. IsFiniteSet(S \cup {x}) /\ Cardinality(S \cup {x}) = Cardinality(S) + 1
    BY FS_AddElement
  <1>2. Cardinality(S \cup {x}) <= Cardinality(T)
    BY FS_Subset
  <1>3. Cardinality(S) \in Nat /\ Cardinality(T) \in Nat
    BY FS_CardinalityType
  <1> QED BY <1>1, <1>2, <1>3

----------------------------------------------------------------------------
(* reader_writer_lock: a writer is alone inside, and no thread waits while *)
(* it could enter.                                                         *)

(* Sets of readers are finite and can be counted. *)
LEMMA ReadersCount ==
  ASSUME NEW S, S \subseteq Readers
  PROVE  /\ IsFiniteSet(S)
         /\ Cardinality(S) \in 0..Cardinality(Readers)
         /\ Cardinality(S) = 0 <=> S = {}
  <1>1. IsFiniteSet(S) /\ Cardinality(S) <= Cardinality(Readers)
    BY FS_Subset, RWAssumption
  <1>2. Cardinality(S) \in Nat /\ Cardinality(Readers) \in Nat
    BY <1>1, FS_CardinalityType, RWAssumption
  <1>3. Cardinality(S) = 0 <=> S = {}
    BY <1>1, FS_EmptySet
  <1> QED BY <1>1, <1>2, <1>3

(* The members start in agreement with no guard alive. *)
LEMMA InitInv == Init => IndInv
  <1> SUFFICES ASSUME Init PROVE IndInv
    OBVIOUS
  <1>1. Cardinality({}) = 0 /\ 0 \in 0..Cardinality(Readers)
    BY ReadersCount, FS_EmptySet
  <1>0. 0 \in 0..Rounds
    BY RWAssumption
  <1>2. TypeOK
    <2>1. rounds \in [Threads -> 0..Rounds]
      BY <1>0 DEF Init
    <2>2. readers_ \in 0..Cardinality(Readers)
      BY <1>1 DEF Init
    <2>3. writing_ \in BOOLEAN /\ cond \subseteq Threads /\ inside \subseteq Threads
      BY DEF Init
    <2> QED BY <2>1, <2>2, <2>3 DEF TypeOK
  <1>3. inside \cap Readers = {}
    BY DEF Init
  <1>4. Accounts
    BY <1>1, <1>3 DEF Init, Accounts
  <1>5. Exclusion /\ NoMissedTurn
    BY DEF Init, Exclusion, NoMissedTurn
  <1> QED BY <1>2, <1>4, <1>5 DEF IndInv

(* A thread that starts to wait does so because its predicate is false. *)
LEMMA WaitInv ==
  ASSUME IndInv, NEW t \in Threads, Wait(t),
         t \in Readers => ~MayRead, t \in Writers => ~MayWrite
  PROVE  IndInv'
  <1> USE DEF IndInv
  <1>1. TypeOK'
    BY DEF TypeOK, Wait
  <1>2. Accounts' /\ Exclusion'
    BY DEF Accounts, Exclusion, Wait
  <1>3. NoMissedTurn'
    BY DEF NoMissedTurn, Wait, MayRead, MayWrite
  <1> QED BY <1>1, <1>2, <1>3

(* lock_read: one more reader, and no writer is inside. *)
LEMMA LockReadInv ==
  ASSUME IndInv, NEW t \in Threads, lock_read(t)
  PROVE  IndInv'
  <1> USE DEF IndInv
  <1>0. t \in Readers /\ t \notin Writers /\ t \notin inside /\ rounds[t] < Rounds
    BY RWAssumption DEF lock_read, Asking
  <1>1. CASE ~MayRead /\ Wait(t)
    BY <1>0, <1>1, WaitInv
  <1>2. CASE MayRead /\ ~(~MayRead /\ Wait(t))
    <2>1. /\ readers_' = readers_ + 1 /\ inside' = inside \cup {t}
          /\ writing_' = writing_ /\ cond' = cond /\ rounds' = rounds
      BY <1>2 DEF lock_read
    <2>2. inside' \cap Readers = (inside \cap Readers) \cup {t}
      BY <1>0, <2>1
    <2>3. IsFiniteSet(inside \cap Readers)
      BY ReadersCount
    <2>4. Cardinality(inside' \cap Readers) = Cardinality(inside \cap Readers) + 1
      BY <1>0, <2>2, <2>3, FS_AddElement
    <2>5. readers_' = Cardinality(inside' \cap Readers)
      BY <2>1, <2>4 DEF Accounts
    <2>6. inside \cap Writers = {} /\ inside' \cap Writers = {}
      BY <1>0, <1>2, <2>1, RWAssumption DEF Accounts, MayRead
    <2>7. readers_' \in 0..Cardinality(Readers)
      BY <2>5, ReadersCount
    <2>8. TypeOK'
      BY <1>0, <2>1, <2>7 DEF TypeOK
    <2>9. Accounts'
      BY <1>0, <2>1, <2>5, <2>6 DEF Accounts
    <2>10. Exclusion'
      BY <2>6 DEF Exclusion
    <2>11. readers_' # 0
      BY <2>1 DEF TypeOK
    <2>12. NoMissedTurn'
      BY <1>2, <2>1, <2>11 DEF NoMissedTurn, MayRead, MayWrite
    <2> QED BY <2>8, <2>9, <2>10, <2>12
  <1> QED BY <1>1, <1>2 DEF lock_read

(* unlock_read: one reader less; the last one wakes everybody. *)
LEMMA UnlockReadInv ==
  ASSUME IndInv, NEW t \in Threads, unlock_read(t)
  PROVE  IndInv'
  <1> USE DEF IndInv
  <1>0. t \in Readers /\ t \notin Writers /\ t \in inside /\ rounds[t] < Rounds
    BY RWAssumption DEF unlock_read, Accounts
  <1>1. /\ readers_' = readers_ - 1 /\ inside' = inside \ {t}
        /\ writing_' = writing_ /\ rounds' = [rounds EXCEPT ![t] = @ + 1]
        /\ cond' = IF readers_' = 0 THEN {} ELSE cond
    BY DEF unlock_read, Released, NotifyAll
  <1>2. inside' \cap Readers = (inside \cap Readers) \ {t}
    BY <1>1
  <1>3. IsFiniteSet(inside \cap Readers)
    BY ReadersCount
  <1>4. Cardinality(inside' \cap Readers) = Cardinality(inside \cap Readers) - 1
    BY <1>0, <1>2, <1>3, FS_RemoveElement
  <1>5. readers_' = Cardinality(inside' \cap Readers)
    BY <1>1, <1>4 DEF Accounts
  <1>6. inside \cap Writers = {} /\ inside' \cap Writers = {}
    BY <1>0, <1>1, RWAssumption DEF Exclusion
  <1>7. readers_' \in 0..Cardinality(Readers)
    BY <1>5, ReadersCount
  <1>8. rounds[t] + 1 \in 0..Rounds /\ rounds' \in [Threads -> 0..Rounds]
    BY <1>0, <1>1, RWAssumption DEF TypeOK
  <1>9. TypeOK'
    BY <1>1, <1>7, <1>8 DEF TypeOK
  <1>10. \A u \in inside' : rounds'[u] < Rounds
    BY <1>1 DEF TypeOK, Accounts
  <1>11. Accounts'
    BY <1>1, <1>5, <1>6, <1>10 DEF Accounts
  <1>12. Exclusion'
    BY <1>6 DEF Exclusion
  <1>13. cond' \cap Readers = {}
    BY <1>1, <1>6 DEF NoMissedTurn, MayRead, Accounts
  <1>14. NoMissedTurn'
    BY <1>1, <1>13 DEF NoMissedTurn, MayRead, MayWrite
  <1> QED BY <1>9, <1>11, <1>12, <1>14

(* lock_write: the predicate leaves nobody inside. *)
LEMMA LockWriteInv ==
  ASSUME IndInv, NEW t \in Threads, lock_write(t)
  PROVE  IndInv'
  <1> USE DEF IndInv
  <1>0. t \in Writers /\ t \notin Readers /\ t \notin inside /\ rounds[t] < Rounds
    BY RWAssumption DEF lock_write, Asking
  <1>1. CASE ~MayWrite /\ Wait(t)
    BY <1>0, <1>1, WaitInv
  <1>2. CASE MayWrite /\ ~(~MayWrite /\ Wait(t))
    <2>1. /\ writing_' = TRUE /\ inside' = inside \cup {t}
          /\ readers_' = readers_ /\ cond' = cond /\ rounds' = rounds
      BY <1>2 DEF lock_write
    <2>2. readers_ = 0 /\ inside \cap Writers = {}
      BY <1>2 DEF MayWrite, Accounts
    <2>3. inside \cap Readers = {}
      BY <2>2, ReadersCount DEF Accounts
    <2>4. inside' = {t} /\ inside' \cap Readers = {} /\ inside' \cap Writers # {}
      BY <1>0, <2>1, <2>2, <2>3 DEF TypeOK, Threads
    <2>5. readers_' = Cardinality(inside' \cap Readers)
      BY <2>1, <2>3, <2>4 DEF Accounts
    <2>6. TypeOK'
      BY <1>0, <2>1 DEF TypeOK
    <2>7. Accounts'
      BY <1>0, <2>1, <2>4, <2>5 DEF Accounts
    <2>8. Exclusion'
      BY <2>4 DEF Exclusion
    <2>9. NoMissedTurn'
      BY <2>1 DEF NoMissedTurn, MayRead, MayWrite
    <2> QED BY <2>6, <2>7, <2>8, <2>9
  <1> QED BY <1>1, <1>2 DEF lock_write

(* unlock_write: the only one inside leaves and wakes everybody. *)
LEMMA UnlockWriteInv ==
  ASSUME IndInv, NEW t \in Threads, unlock_write(t)
  PROVE  IndInv'
  <1> USE DEF IndInv
  <1>0. t \in Writers /\ t \notin Readers /\ inside = {t} /\ rounds[t] < Rounds
    BY RWAssumption DEF unlock_write, Accounts, Exclusion
  <1>1. /\ writing_' = FALSE /\ inside' = {} /\ readers_' = readers_
        /\ rounds' = [rounds EXCEPT ![t] = @ + 1] /\ cond' = {}
    BY <1>0 DEF unlock_write, Released, NotifyAll
  <1>2. inside \cap Readers = {} /\ inside' \cap Readers = {}
    BY <1>0, <1>1
  <1>3. readers_' = Cardinality(inside' \cap Readers)
    BY <1>1, <1>2 DEF Accounts
  <1>4. rounds[t] + 1 \in 0..Rounds /\ rounds' \in [Threads -> 0..Rounds]
    BY <1>0, <1>1, RWAssumption DEF TypeOK
  <1>5. TypeOK'
    BY <1>1, <1>4 DEF TypeOK
  <1>6. Accounts'
    BY <1>1, <1>3 DEF Accounts
  <1>7. Exclusion' /\ NoMissedTurn'
    BY <1>1 DEF Exclusion, NoMissedTurn
  <1> QED BY <1>5, <1>6, <1>7

(* A spurious wake-up only makes the set of waiting threads smaller. *)
LEMMA SpuriousInv ==
  ASSUME IndInv, Spurious
  PROVE  IndInv'
  <1> USE DEF IndInv
  <1>1. /\ cond' \subseteq cond
        /\ UNCHANGED <<readers_, writing_, inside, rounds>>
    BY DEF Spurious, SpuriousWakeup
  <1>2. TypeOK' /\ Accounts' /\ Exclusion'
    BY <1>1 DEF TypeOK, Accounts, Exclusion
  <1>3. NoMissedTurn'
    BY <1>1 DEF NoMissedTurn, MayRead, MayWrite
  <1> QED BY <1>2, <1>3

(* The other programs leave the lock alone. *)
LEMMA LockAlone ==
  ASSUME [ProgramStep]_allVars
  PROVE  [Next]_vars
  BY DEF ProgramStep, allVars, monitors, lockVars, LockRuns, QueueRuns, LoggerRuns, PoolRuns,
         WaitFreeRuns, CapstoneRuns, RingDemoRuns, DoubleRuns, StackRuns, ServerRuns, ClientsRun,
         ForkRuns, PingRuns

(* The invariant holds in every state of every execution. *)
LEMMA LockInvariance == Programs => []IndInv
  <1>1. Start => IndInv
    BY InitInv DEF Start
  <1>2. IndInv /\ [ProgramStep]_allVars => IndInv'
    <2> SUFFICES ASSUME IndInv, [Next]_vars PROVE IndInv'
      BY LockAlone
    <2>1. CASE \E t \in Threads : Step(t)
      <3>1. PICK t \in Threads : Step(t)
        BY <2>1
      <3> QED BY <3>1, LockReadInv, UnlockReadInv, LockWriteInv, UnlockWriteInv DEF Step
    <2>2. CASE Spurious
      BY <2>2, SpuriousInv
    <2>3. CASE UNCHANGED vars
      BY <2>3 DEF vars, IndInv, TypeOK, Accounts, Exclusion, NoMissedTurn, MayRead, MayWrite
    <2> QED BY <2>1, <2>2, <2>3 DEF Next, Joined
  <1> QED BY <1>1, <1>2, PTL DEF Programs

(* "Multiple readers OR single writer", for any number of threads: the     *)
(* data read or written under a guard is never accessed by two threads of  *)
(* which one writes.                                                       *)
THEOREM MutualExclusion == Programs => []Exclusion
  <1>1. IndInv => Exclusion
    BY DEF IndInv
  <1> QED BY <1>1, LockInvariance, PTL

(* A wake-up is never missed: whoever waits on cond_ has a predicate that  *)
(* is false, although unlock_read notifies only when readers_ reaches 0.   *)
THEOREM NobodySleepsThrough == Programs => []NoMissedTurn
  <1>1. IndInv => NoMissedTurn
    BY DEF IndInv
  <1> QED BY <1>1, LockInvariance, PTL

----------------------------------------------------------------------------
(* thread_safe_queue.                                                      *)

(* Nothing is lost and nothing is pushed after set_done; a consumer leaves *)
(* only a finished and empty queue, so one that waits has not left.        *)
QueueWakes == sleepers # {} => ~no_more /\ Cardinality(Queue!Awake) >= Len(items)
QueueInv ==
  /\ items \in Seq(Nat) /\ popped \in Seq(Nat) /\ no_more \in BOOLEAN
  /\ sleepers \subseteq Consumers /\ exited \subseteq Consumers
  /\ pushed \in 0..Items /\ pushed = Len(popped) + Len(items)
  /\ no_more => pushed = Items
  /\ exited # {} => no_more /\ items = <<>>
  /\ QueueWakes

(* The other programs leave the queue alone. *)
LEMMA QueueAlone ==
  ASSUME [ProgramStep]_allVars
  PROVE  [Queue!Next]_queueVars
  BY DEF ProgramStep, allVars, monitors, LockRuns, QueueRuns, LoggerRuns, PoolRuns, WaitFreeRuns,
         CapstoneRuns, RingDemoRuns, DoubleRuns, StackRuns, ServerRuns, ClientsRun, ForkRuns, PingRuns

(* The consumers that are awake can be counted, before and after a step. *)
LEMMA QueueAwake ==
  /\ IsFiniteSet(Queue!Awake) /\ Cardinality(Queue!Awake) \in Nat
  /\ IsFiniteSet(Queue!Awake') /\ Cardinality(Queue!Awake') \in Nat
  <1>1. IsFiniteSet(Queue!Awake) /\ IsFiniteSet(Queue!Awake')
    BY FS_Subset, ConsumersAssumption DEF Queue!Awake
  <1> QED BY <1>1, FS_CardinalityType

(* The queue starts empty. *)
LEMMA QueueInit == Start => QueueInv
  <1> SUFFICES ASSUME Queue!Init PROVE QueueInv
    BY DEF Start
  <1>1. Len(items) = 0 /\ Len(popped) = 0 /\ items \in Seq(Nat) /\ popped \in Seq(Nat)
    BY DEF Queue!Init
  <1>2. pushed \in 0..Items /\ pushed = Len(popped) + Len(items)
    BY <1>1, ConsumersAssumption DEF Queue!Init
  <1>3. no_more = FALSE /\ sleepers = {} /\ exited = {}
    BY DEF Queue!Init
  <1> QED BY <1>1, <1>2, <1>3 DEF QueueInv, QueueWakes

(* push: one item more, and a consumer woken if one waits. *)
LEMMA QueuePush ==
  ASSUME QueueInv, Queue!push
  PROVE  QueueInv'
  <1> USE DEF QueueInv
  <1>0. /\ pushed < Items /\ items' = Append(items, pushed) /\ pushed' = pushed + 1
        /\ sleepers' \in NotifyOne(sleepers)
        /\ UNCHANGED <<no_more, exited, popped>>
    BY DEF Queue!push, Queue!NotifyOne, NotifyOne
  <1>1. items' \in Seq(Nat) /\ Len(items') = Len(items) + 1 /\ Len(items) \in Nat
    BY <1>0, Appended, ConsumersAssumption
  <1>2. sleepers' \subseteq sleepers /\ (sleepers' # {} => \E t \in sleepers : sleepers' = sleepers \ {t})
    BY <1>0, NotifyOneFact
  <1>3. ASSUME sleepers' # {}
        PROVE  ~no_more' /\ Cardinality(Queue!Awake') >= Len(items')
    <2>1. PICK t \in sleepers : sleepers' = sleepers \ {t}
      BY <1>2, <1>3
    <2>2. ~no_more /\ exited = {} /\ Cardinality(Queue!Awake) >= Len(items)
      BY <2>1 DEF QueueWakes
    <2>3. t \notin Queue!Awake /\ Queue!Awake \cup {t} \subseteq Queue!Awake'
      BY <1>0, <2>1, <2>2 DEF Queue!Awake
    <2>4. Cardinality(Queue!Awake') >= Cardinality(Queue!Awake) + 1
      BY <2>3, GainOne, QueueAwake
    <2> QED BY <1>0, <1>1, <2>2, <2>4, QueueAwake
  <1>4. QueueWakes'
    BY <1>3 DEF QueueWakes
  <1>5. Len(popped) \in Nat
    BY LenProperties
  <1>6. pushed' \in 0..Items /\ pushed' = Len(popped') + Len(items')
    BY <1>0, <1>1, <1>5, ConsumersAssumption
  <1> QED BY <1>0, <1>1, <1>2, <1>4, <1>6

(* set_done wakes everybody. *)
LEMMA QueueDone ==
  ASSUME QueueInv, Queue!set_done
  PROVE  QueueInv'
  BY DEF QueueInv, Queue!set_done, Queue!NotifyAll, QueueWakes

(* wait_and_pop or try_pop takes an item: one consumer less is needed. *)
LEMMA QueueTake ==
  ASSUME QueueInv, Queue!Take
  PROVE  QueueInv'
  <1> USE DEF QueueInv
  <1>0. /\ items # <<>> /\ popped' = Append(popped, Head(items)) /\ items' = Tail(items)
        /\ UNCHANGED <<no_more, sleepers, pushed, exited>>
    BY DEF Queue!Take
  <1>1. /\ items' \in Seq(Nat) /\ Len(items) \in Nat /\ Len(items') = Len(items) - 1
        /\ Head(items) \in Nat /\ Len(items) >= 1
    BY <1>0, Taken
  <1>2. popped' \in Seq(Nat) /\ Len(popped') = Len(popped) + 1 /\ Len(popped) \in Nat
    BY <1>0, <1>1, Appended
  <1>3. Queue!Awake' = Queue!Awake
    BY <1>0 DEF Queue!Awake
  <1>4. QueueWakes'
    BY <1>0, <1>1, <1>3, QueueAwake DEF QueueWakes
  <1>5. pushed' = Len(popped') + Len(items')
    BY <1>0, <1>1, <1>2
  <1> QED BY <1>0, <1>1, <1>2, <1>4, <1>5

(* A consumer waits only for an empty queue, which needs nobody awake. *)
LEMMA QueueWaits ==
  ASSUME QueueInv, NEW c \in Consumers, Queue!Waits(c)
  PROVE  QueueInv'
  <1> USE DEF QueueInv
  <1>0. /\ items = <<>> /\ ~no_more /\ sleepers' = sleepers \cup {c}
        /\ UNCHANGED <<items, no_more, pushed, exited, popped>>
    BY DEF Queue!Waits
  <1>1. Len(items') = 0
    BY <1>0
  <1>2. QueueWakes'
    BY <1>0, <1>1, QueueAwake DEF QueueWakes
  <1> QED BY <1>0, <1>2

(* A consumer leaves a queue on which nobody waits any more. *)
LEMMA QueueLeaves ==
  ASSUME QueueInv, NEW c \in Consumers, Queue!Leaves(c)
  PROVE  QueueInv'
  BY DEF QueueInv, Queue!Leaves, QueueWakes

(* A spurious wake-up adds a consumer to those awake. *)
LEMMA QueueSpurious ==
  ASSUME QueueInv, Queue!Spurious
  PROVE  QueueInv'
  <1> USE DEF QueueInv
  <1>0. sleepers' \subseteq sleepers /\ UNCHANGED <<items, no_more, pushed, exited, popped>>
    BY SpuriousFact DEF Queue!Spurious, Queue!SpuriousWakeup, SpuriousWakeup
  <1>1. Cardinality(Queue!Awake') >= Cardinality(Queue!Awake)
    <2>1. Queue!Awake \subseteq Queue!Awake'
      BY <1>0 DEF Queue!Awake
    <2> QED BY <2>1, FS_Subset, QueueAwake
  <1>2. Len(items) \in Nat
    BY LenProperties
  <1>3. QueueWakes'
    BY <1>0, <1>1, <1>2, QueueAwake DEF QueueWakes
  <1> QED BY <1>0, <1>3

(* The invariant of the queue holds whatever program runs. *)
LEMMA QueueInvariance == Programs => []QueueInv
  <1>1. QueueInv /\ [ProgramStep]_allVars => QueueInv'
    <2> SUFFICES ASSUME QueueInv, [Queue!Next]_queueVars PROVE QueueInv'
      BY QueueAlone
    <2>1. CASE \E c \in Consumers : Queue!wait_and_pop(c)
      BY <2>1, QueueWaits, QueueLeaves, QueueTake DEF Queue!wait_and_pop, Queue!Pops
    <2>2. CASE Queue!Producer \/ Queue!try_pop
      BY <2>2, QueuePush, QueueDone, QueueTake DEF Queue!Producer, Queue!try_pop
    <2>3. CASE Queue!Spurious
      BY <2>3, QueueSpurious
    <2>4. CASE UNCHANGED queueVars
      BY <2>4 DEF queueVars, QueueInv, QueueWakes, Queue!Awake
    <2> QED BY <2>1, <2>2, <2>3, <2>4 DEF Queue!Next, Queue!Joined, Queue!vars, queueVars
  <1> QED BY QueueInit, <1>1, PTL DEF Programs

----------------------------------------------------------------------------
(* async_logger.                                                           *)

(* Only the worker waits, for an empty queue of a logger that is alive. *)
LoggerInv ==
  /\ sleeping \subseteq {Logger!Worker}
  /\ Logger!NoLostWakeup

(* The other programs leave the logger alone. *)
LEMMA LoggerAlone ==
  ASSUME [ProgramStep]_allVars
  PROVE  [Logger!Next]_loggerVars
  BY DEF ProgramStep, allVars, monitors, LockRuns, QueueRuns, LoggerRuns, PoolRuns, WaitFreeRuns,
         CapstoneRuns, RingDemoRuns, DoubleRuns, StackRuns, ServerRuns, ClientsRun, ForkRuns, PingRuns

(* The invariant of the logger holds whatever program runs: log and the    *)
(* destructor leave nobody waiting.                                        *)
LEMMA LoggerInvariance == Programs => []LoggerInv
  <1> USE DEF LoggerInv, Logger!NoLostWakeup
  <1>1. Start => LoggerInv
    BY DEF Start, Logger!Init
  <1>2. LoggerInv /\ [ProgramStep]_allVars => LoggerInv'
    <2> SUFFICES ASSUME LoggerInv, [Logger!Next]_loggerVars PROVE LoggerInv'
      BY LoggerAlone
    <2>1. CASE \E t \in Loggers : Logger!log(t)
      <3>1. sleeping' \in NotifyOne(sleeping)
        BY <2>1 DEF Logger!log, Logger!NotifyOne, NotifyOne
      <3>2. sleeping' = {}
        BY <3>1, NotifyOneFact
      <3> QED BY <3>2
    <2>2. CASE Logger!SetDone
      BY <2>2 DEF Logger!SetDone, Logger!NotifyAll
    <2>3. CASE Logger!Join
      BY <2>3 DEF Logger!Join
    <2>4. CASE Logger!WorkerStep
      BY <2>4 DEF Logger!WorkerStep, Logger!WorkerWaits, Logger!WorkerLeaves, Logger!WorkerTakes,
                  Logger!WorkerPrints, Logger!Locked
    <2>5. CASE Logger!Spurious
      <3>1. sleeping' \subseteq sleeping /\ UNCHANGED <<queue, done_>>
        BY <2>5, SpuriousFact DEF Logger!Spurious, Logger!SpuriousWakeup, SpuriousWakeup
      <3> QED BY <3>1
    <2>6. CASE UNCHANGED loggerVars
      BY <2>6 DEF loggerVars
    <2> QED BY <2>1, <2>2, <2>3, <2>4, <2>5, <2>6 DEF Logger!Next, Logger!Ended, Logger!vars, loggerVars
  <1> QED BY <1>1, <1>2, PTL DEF Programs

----------------------------------------------------------------------------
(* fork_mmap_ipc_sync.                                                     *)

(* Where the two processes can be together: the child gets past its read   *)
(* only when the parent has written, the parent past its spin only when    *)
(* the child has found a byte, the child past its wait only after the      *)
(* signal and, with a semaphore, past that only after the post.            *)
ForkTypes ==
  /\ parent \in {"data", "write", "spin", "signal", "post", "wait", "destroy", "ended"}
  /\ child \in {"read", "ready", "look", "cond", "sem", "store", "exit0", "exit1"}
  /\ counter \in Nat /\ child_ready \in Nat /\ sem \in Nat /\ bytes \in Nat
  /\ writeOpen \in BOOLEAN /\ sem_ok \in BOOLEAN
  /\ condWait \subseteq {Fork!Child}
ForkOrder ==
  /\ bytes > 0 => parent \notin {"data", "write"}
  /\ ~writeOpen => parent \notin {"data", "write"}
  /\ child # "read" => parent \notin {"data", "write"}
  /\ child_ready = 1 => child \in {"look", "cond", "sem", "store", "exit0"}
  /\ parent \in {"signal", "post", "wait", "destroy", "ended"} =>
       child \in {"look", "cond", "sem", "store", "exit0"}
  /\ child \in {"sem", "store", "exit0"} => parent \in {"post", "wait", "destroy", "ended"}
  /\ parent \in {"destroy", "ended"} => child = "exit0"
  /\ sem_ok /\ child \in {"store", "exit0"} => parent \in {"wait", "destroy", "ended"}
(* What the shared page then holds. *)
ForkPage ==
  /\ parent # "data" => message = "hi"
  /\ parent = "data" => counter = 0
  /\ parent \in {"write", "spin", "signal"} => counter = 10
  /\ parent \in {"post", "wait", "destroy", "ended"} /\ child # "exit0" => counter = 20
  /\ child = "exit0" => counter = 99
  /\ condWait # {} => child = "cond" /\ counter < 20
  /\ sem_ok /\ parent \in {"wait", "destroy", "ended"} /\ child \notin {"store", "exit0"} => sem = 1
  /\ ~sem_ok \/ parent \notin {"wait", "destroy", "ended"} \/ child \in {"store", "exit0"} => sem = 0
  /\ seen # Fork!Nothing => seen.message = "hi" /\ seen.counter \in {10, 20}
  /\ unmapped => parent = "ended"
ForkInv == ForkTypes /\ ForkOrder /\ ForkPage

(* The other programs leave the two processes alone. *)
LEMMA ForkAlone ==
  ASSUME [ProgramStep]_allVars
  PROVE  [Fork!Next]_forkVars
  BY DEF ProgramStep, allVars, others, LockRuns, QueueRuns, LoggerRuns, PoolRuns, WaitFreeRuns,
         CapstoneRuns, RingDemoRuns, DoubleRuns, StackRuns, ServerRuns, ClientsRun, ForkRuns, PingRuns

(* Before the fork nothing is shared. *)
LEMMA ForkInit == Start => ForkInv
  <1> SUFFICES ASSUME Fork!Init PROVE ForkInv
    BY DEF Start
  <1>1. ForkTypes /\ ForkOrder
    BY DEF Fork!Init, ForkTypes, ForkOrder
  <1>2. ForkPage
    BY DEF Fork!Init, ForkPage
  <1> QED BY <1>1, <1>2 DEF ForkInv

(* The parent: data, write, spin, signal, post, wait, destroy. *)
LEMMA ForkParent ==
  ASSUME ForkInv, Fork!ParentStep
  PROVE  ForkInv'
  <1> USE DEF ForkInv, Fork!P, Fork!pipe, Fork!mine, Fork!shared
  <1>1. CASE Fork!ParentData
    <2>1. ForkTypes' /\ ForkOrder'
      BY <1>1 DEF Fork!ParentData, ForkTypes, ForkOrder
    <2>2. ForkPage'
      BY <1>1 DEF Fork!ParentData, ForkTypes, ForkOrder, ForkPage
    <2> QED BY <2>1, <2>2
  <1>2. CASE Fork!ParentWrite
    <2>1. ForkTypes' /\ ForkOrder'
      <3>1. bytes' \in Nat
        BY <1>2 DEF Fork!ParentWrite, ForkTypes
      <3> QED BY <1>2, <3>1 DEF Fork!ParentWrite, ForkTypes, ForkOrder
    <2>2. ForkPage'
      BY <1>2 DEF Fork!ParentWrite, ForkTypes, ForkOrder, ForkPage
    <2> QED BY <2>1, <2>2
  <1>3. CASE Fork!ParentSpin
    <2>1. ForkTypes' /\ ForkOrder'
      BY <1>3 DEF Fork!ParentSpin, ForkTypes, ForkOrder
    <2>2. ForkPage'
      BY <1>3 DEF Fork!ParentSpin, ForkTypes, ForkOrder, ForkPage
    <2> QED BY <2>1, <2>2
  <1>4. CASE Fork!ParentSignal
    <2>1. condWait' = {}
      BY <1>4, NotifyOneFact DEF Fork!ParentSignal, Fork!NotifyOne, NotifyOne, ForkTypes
    <2>2. ForkTypes' /\ ForkOrder'
      BY <1>4, <2>1 DEF Fork!ParentSignal, ForkTypes, ForkOrder
    <2>3. ForkPage'
      BY <1>4, <2>1 DEF Fork!ParentSignal, ForkTypes, ForkOrder, ForkPage
    <2> QED BY <2>2, <2>3
  <1>5. CASE Fork!ParentPost
    <2>1. ForkTypes' /\ ForkOrder'
      BY <1>5 DEF Fork!ParentPost, ForkTypes, ForkOrder
    <2>2. ForkPage'
      BY <1>5 DEF Fork!ParentPost, ForkTypes, ForkOrder, ForkPage
    <2> QED BY <2>1, <2>2
  <1>6. CASE Fork!ParentWait
    <2>1. ForkTypes' /\ ForkOrder'
      BY <1>6 DEF Fork!ParentWait, ForkTypes, ForkOrder
    <2>2. ForkPage'
      BY <1>6 DEF Fork!ParentWait, ForkTypes, ForkOrder, ForkPage
    <2> QED BY <2>1, <2>2
  <1>7. CASE Fork!ParentDestroy
    <2>1. ForkTypes' /\ ForkOrder'
      BY <1>7 DEF Fork!ParentDestroy, ForkTypes, ForkOrder
    <2>2. ForkPage'
      BY <1>7 DEF Fork!ParentDestroy, ForkTypes, ForkOrder, ForkPage
    <2> QED BY <2>1, <2>2
  <1> QED BY <1>1, <1>2, <1>3, <1>4, <1>5, <1>6, <1>7 DEF Fork!ParentStep

(* The child: read, ready, look, wait for the signal, semaphore, exit. *)
LEMMA ForkChild ==
  ASSUME ForkInv, Fork!ChildStep
  PROVE  ForkInv'
  <1> USE DEF ForkInv, Fork!C, Fork!pipe, Fork!mine, Fork!shared
  <1>1. CASE Fork!ChildRead
    <2>1. ForkTypes' /\ ForkOrder'
      BY <1>1 DEF Fork!ChildRead, ForkTypes, ForkOrder
    <2>2. ForkPage'
      BY <1>1 DEF Fork!ChildRead, ForkTypes, ForkOrder, ForkPage
    <2> QED BY <2>1, <2>2
  <1>2. CASE Fork!ChildReady
    <2>1. ForkTypes' /\ ForkOrder'
      BY <1>2 DEF Fork!ChildReady, ForkTypes, ForkOrder
    <2>2. ForkPage'
      BY <1>2 DEF Fork!ChildReady, ForkTypes, ForkOrder, ForkPage
    <2> QED BY <2>1, <2>2
  <1>3. CASE Fork!ChildLook
    <2>1. ForkTypes' /\ ForkOrder'
      BY <1>3 DEF Fork!ChildLook, ForkTypes, ForkOrder
    <2>2. ForkPage'
      BY <1>3 DEF Fork!ChildLook, ForkTypes, ForkOrder, ForkPage
    <2> QED BY <2>1, <2>2
  <1>4. CASE Fork!ChildCond
    <2>1. ForkTypes' /\ ForkOrder'
      BY <1>4 DEF Fork!ChildCond, ForkTypes, ForkOrder, ForkPage
    <2>2. ForkPage'
      BY <1>4 DEF Fork!ChildCond, ForkTypes, ForkOrder, ForkPage
    <2> QED BY <2>1, <2>2
  <1>5. CASE Fork!ChildSem
    <2>1. ForkTypes' /\ ForkOrder'
      BY <1>5 DEF Fork!ChildSem, ForkTypes, ForkOrder, ForkPage
    <2>2. ForkPage'
      BY <1>5 DEF Fork!ChildSem, ForkTypes, ForkOrder, ForkPage
    <2> QED BY <2>1, <2>2
  <1>6. CASE Fork!ChildExit
    <2>1. ForkTypes' /\ ForkOrder'
      BY <1>6 DEF Fork!ChildExit, ForkTypes, ForkOrder
    <2>2. ForkPage'
      BY <1>6 DEF Fork!ChildExit, ForkTypes, ForkOrder, ForkPage
    <2> QED BY <2>1, <2>2
  <1> QED BY <1>1, <1>2, <1>3, <1>4, <1>5, <1>6 DEF Fork!ChildStep

(* The invariant of the two processes holds whatever program runs. *)
LEMMA ForkInvariance == Programs => []ForkInv
  <1>1. ForkInv /\ [ProgramStep]_allVars => ForkInv'
    <2> SUFFICES ASSUME ForkInv, [Fork!Next]_forkVars PROVE ForkInv'
      BY ForkAlone
    <2>1. CASE Fork!Spurious
      <3>1. /\ condWait' \subseteq condWait
            /\ UNCHANGED <<counter, message, child_ready, sem, sem_ok, bytes, writeOpen,
                           parent, child, seen, unmapped>>
        BY <2>1, SpuriousFact DEF Fork!Spurious, Fork!SpuriousWakeup, SpuriousWakeup, Fork!pipe, Fork!mine
      <3> QED BY <3>1 DEF ForkInv, ForkTypes, ForkOrder, ForkPage
    <2>2. CASE UNCHANGED forkVars
      BY <2>2 DEF forkVars, ForkInv, ForkTypes, ForkOrder, ForkPage
    <2> QED BY <2>1, <2>2, ForkParent, ForkChild
            DEF Fork!Next, Fork!Ended, Fork!Spinning, Fork!vars, forkVars
  <1> QED BY ForkInit, <1>1, PTL DEF Programs

----------------------------------------------------------------------------
(* context_switch_threads_vs_processes.                                    *)

(* Two threads: it is turn that tells the rounds of the two apart, a       *)
(* player that waits is in the middle of its loop, and the worker is told  *)
(* of the end.  Two processes: there is one token, in a pipe or with the   *)
(* child, while the parent is waiting for it, and none before a round.     *)
PingTypes ==
  /\ mode \in {"threads", "processes"} /\ turn \in BOOLEAN /\ over \in BOOLEAN
  /\ asleep \subseteq {"A", "B"} /\ p2c \in Nat /\ c2p \in Nat
  /\ played \in [{"A", "B"} -> Nat]
  /\ at \in [{"A", "B"} -> {"loop", "read", "write", "left", "exit", "killed"}]
PingThreads ==
  /\ played["A"] = played["B"] + (IF turn THEN 1 ELSE 0)
  /\ p2c = 0 /\ c2p = 0
  /\ "A" \in asleep => turn /\ played["A"] < ITERS
  /\ "B" \in asleep => ~turn /\ ~over /\ played["B"] < ITERS
PingProcesses ==
  /\ asleep = {} /\ played["B"] = played["A"] + c2p
  /\ p2c + c2p + (IF at["B"] = "write" THEN 1 ELSE 0) <= 1
  /\ at["A"] = "loop" => p2c + c2p = 0 /\ at["B"] # "write"
PingInv ==
  /\ PingTypes
  /\ mode = "threads" => PingThreads
  /\ mode = "processes" => PingProcesses

(* The other programs leave the two players alone. *)
LEMMA PingAlone ==
  ASSUME [ProgramStep]_allVars
  PROVE  [Ping!Next]_pingPongVars
  BY DEF ProgramStep, allVars, others, LockRuns, QueueRuns, LoggerRuns, PoolRuns, WaitFreeRuns,
         CapstoneRuns, RingDemoRuns, DoubleRuns, StackRuns, ServerRuns, ClientsRun, ForkRuns, PingRuns

(* Nobody has played, and A begins. *)
LEMMA PingInit == Start => PingInv
  <1> SUFFICES ASSUME Ping!Init PROVE PingInv
    BY DEF Start
  <1>1. PingTypes /\ played["A"] = 0 /\ played["B"] = 0
    BY DEF Ping!Init, Ping!A, Ping!B, PingTypes
  <1>2. PingThreads /\ PingProcesses
    BY <1>1, RingsAssumption DEF Ping!Init, Ping!A, Ping!B, PingThreads, PingProcesses
  <1> QED BY <1>1, <1>2 DEF PingInv

(* A thread waits for its turn, takes it, or sees that it is over. *)
LEMMA PingTurn ==
  ASSUME PingInv, NEW x \in {"A", "B"}, Ping!ThreadTurn(x)
  PROVE  PingInv'
  <1> USE DEF PingInv, Ping!A, Ping!B, Ping!pipes
  <1>0. /\ mode = "threads" /\ mode' = mode /\ over' = over /\ p2c' = p2c /\ c2p' = c2p
        /\ x \notin asleep /\ played[x] < ITERS
    BY DEF Ping!ThreadTurn
  <1>1. CASE turn # (x = "B") /\ asleep' = asleep \cup {x} /\ ~(x = "B" /\ over)
             /\ UNCHANGED <<turn, played, at>>
    BY <1>0, <1>1 DEF PingTypes, PingThreads
  <1>2. CASE x = "B" /\ over /\ Ping!Goes("B", "left") /\ UNCHANGED <<turn, asleep, played>>
    BY <1>0, <1>2 DEF PingTypes, PingThreads, Ping!Goes
  <1>3. CASE /\ turn = (x = "B") /\ turn' = ~turn /\ Ping!Counts(x)
             /\ asleep' \in NotifyOne(asleep) /\ UNCHANGED at
    <2>1. asleep' = {}
      <3>1. asleep \subseteq {IF x = "A" THEN "B" ELSE "A"}
        BY <1>0 DEF PingTypes
      <3> QED BY <3>1, <1>3, NotifyOneFact
    <2>2. /\ played' \in [{"A", "B"} -> Nat] /\ played'[x] = played[x] + 1
          /\ \A y \in {"A", "B"} \ {x} : played'[y] = played[y]
      BY <1>3 DEF Ping!Counts, PingTypes
    <2>3. PingTypes'
      BY <1>0, <1>3, <2>1, <2>2 DEF PingTypes
    <2>4. PingThreads'
      <3>1. CASE x = "A"
        <4>1. ~turn /\ turn'
          BY <1>3, <3>1 DEF PingTypes
        <4>2. played'["A"] = played["A"] + 1 /\ played'["B"] = played["B"]
          BY <2>2, <3>1
        <4> QED BY <1>0, <2>1, <4>1, <4>2 DEF PingTypes, PingThreads
      <3>2. CASE x = "B"
        <4>1. turn /\ ~turn'
          BY <1>3, <3>2 DEF PingTypes
        <4>2. played'["B"] = played["B"] + 1 /\ played'["A"] = played["A"]
          BY <2>2, <3>2
        <4> QED BY <1>0, <2>1, <4>1, <4>2 DEF PingTypes, PingThreads
      <3> QED BY <3>1, <3>2
    <2> QED BY <1>0, <2>3, <2>4
  <1> QED BY <1>1, <1>2, <1>3 DEF Ping!ThreadTurn, Ping!NotifyOne, NotifyOne

(* A thread ends; the main thread wakes the worker. *)
LEMMA PingEnds ==
  ASSUME PingInv, NEW x \in {"A", "B"}, Ping!ThreadEnds(x)
  PROVE  PingInv'
  <1> USE DEF PingInv, Ping!A, Ping!B, Ping!pipes
  <1>0. /\ mode = "threads" /\ played[x] = ITERS
        /\ UNCHANGED <<mode, turn, played, p2c, c2p>> /\ Ping!Goes(x, "left")
    BY DEF Ping!ThreadEnds
  <1>1. x \notin asleep
    BY <1>0, RingsAssumption DEF PingTypes, PingThreads
  <1>2. CASE x = "A"
    <2>1. over' = TRUE /\ asleep' \in NotifyOne(asleep)
      BY <1>2 DEF Ping!ThreadEnds, Ping!NotifyOne, NotifyOne
    <2>2. asleep' = {}
      <3>1. asleep \subseteq {"B"}
        BY <1>1, <1>2 DEF PingTypes
      <3> QED BY <3>1, <2>1, NotifyOneFact
    <2> QED BY <1>0, <2>1, <2>2 DEF PingTypes, PingThreads, Ping!Goes
  <1>3. CASE x = "B"
    <2>1. UNCHANGED <<over, asleep>>
      BY <1>3 DEF Ping!ThreadEnds
    <2> QED BY <1>0, <1>3, <2>1 DEF PingTypes, PingThreads, Ping!Goes
  <1> QED BY <1>2, <1>3

(* The parent writes a byte, reads one, or leaves. *)
LEMMA PingParent ==
  ASSUME PingInv, Ping!ParentWrite \/ Ping!ParentRead \/ Ping!ParentDone
  PROVE  PingInv'
  <1> USE DEF PingInv, Ping!A, Ping!B, Ping!threadOnly, Ping!pipes, Ping!Goes, Ping!Counts
  <1>1. CASE Ping!ParentWrite
    BY <1>1 DEF Ping!ParentWrite, PingTypes, PingProcesses
  <1>2. CASE Ping!ParentRead
    BY <1>2 DEF Ping!ParentRead, PingTypes, PingProcesses
  <1>3. CASE Ping!ParentDone
    BY <1>3 DEF Ping!ParentDone, PingTypes, PingProcesses
  <1> QED BY <1>1, <1>2, <1>3

(* The child reads a byte, writes one, or exits. *)
LEMMA PingChild ==
  ASSUME PingInv, Ping!ChildRead \/ Ping!ChildWrite \/ Ping!ChildDone
  PROVE  PingInv'
  <1> USE DEF PingInv, Ping!A, Ping!B, Ping!threadOnly, Ping!pipes, Ping!Goes, Ping!Counts
  <1>1. CASE Ping!ChildRead
    BY <1>1 DEF Ping!ChildRead, PingTypes, PingProcesses
  <1>2. CASE Ping!ChildWrite
    BY <1>2 DEF Ping!ChildWrite, PingTypes, PingProcesses
  <1>3. CASE Ping!ChildDone
    BY <1>3 DEF Ping!ChildDone, PingTypes, PingProcesses
  <1> QED BY <1>1, <1>2, <1>3

(* The invariant of the two players holds whatever program runs. *)
LEMMA PingInvariance == Programs => []PingInv
  <1>1. PingInv /\ [ProgramStep]_allVars => PingInv'
    <2> SUFFICES ASSUME PingInv, [Ping!Next]_pingPongVars PROVE PingInv'
      BY PingAlone
    <2>1. CASE Ping!SpuriousTurn
      <3>1. /\ mode = "threads" /\ asleep' \subseteq asleep
            /\ UNCHANGED <<mode, turn, over, played, at, p2c, c2p>>
        BY <2>1, SpuriousFact DEF Ping!SpuriousTurn, Ping!SpuriousWakeup, SpuriousWakeup, Ping!pipes
      <3> QED BY <3>1 DEF PingInv, PingTypes, PingThreads, PingProcesses
    <2>2. CASE UNCHANGED pingPongVars
      BY <2>2 DEF pingPongVars, PingInv, PingTypes, PingThreads, PingProcesses
    <2>3. CASE Ping!StepA \/ Ping!StepB
      BY <2>3, PingTurn, PingEnds, PingParent, PingChild DEF Ping!StepA, Ping!StepB, Ping!A, Ping!B
    <2> QED BY <2>1, <2>2, <2>3 DEF Ping!Next, Ping!Over, Ping!vars, pingPongVars
  <1> QED BY PingInit, <1>1, PTL DEF Programs

----------------------------------------------------------------------------
(* thread_pool.                                                            *)

PoolTypes ==
  /\ tasks_ \in Seq(Nat) /\ stop_ \in BOOLEAN /\ task \in [Workers -> Nat]
  /\ submitted \in 0..Submitted
  /\ pc \in [Workers \cup {Main} ->
               {"submit", "notify", "stopped", "join", "end", "lock", "run", "exit"}]
  /\ pc[Main] \in {"submit", "notify", "stopped", "join", "end"}
  /\ \A x \in Workers : pc[x] \in {"lock", "run", "notify", "exit"}
  /\ resting \subseteq {x \in Workers : pc[x] = "lock"}
  /\ stop_ => pc[Main] \in {"stopped", "join", "end"}
  /\ pc[Main] \in {"stopped", "join", "end"} => stop_ /\ submitted = Submitted
(* A thread that is awake or about to notify is good for one task. *)
PoolReady == Pool!Awake \cup Pool!Notifying
PoolWakes ==
  resting # {} => /\ Len(tasks_) <= Cardinality(PoolReady)
                  /\ stop_ => pc[Main] = "stopped"
(* No task is dropped: it is in the queue, or with a worker, or done; so   *)
(* is the task a spawner has submitted.  A worker exits on an empty queue. *)
Held(t) ==
  \/ \E j \in 1..Len(tasks_) : tasks_[j] = t
  \/ \E x \in Workers : pc[x] \in {"run", "notify"} /\ task[x] = t
Spawned(t) == t \in finished \/ \E x \in Workers : pc[x] = "notify" /\ task[x] = t
PoolTasks ==
  /\ \A t \in 1..submitted : Held(t) \/ t \in finished \cup failed
  /\ \A t \in Spawners : Spawned(t) => Held(Submitted + t) \/ Submitted + t \in finished
  /\ (\E x \in Workers : pc[x] = "exit") => stop_ /\ tasks_ = <<>>
  /\ pc[Main] = "end" => \A x \in Workers : pc[x] = "exit"
PoolInv == PoolTypes /\ PoolWakes /\ PoolTasks

(* The other programs leave the pool alone. *)
LEMMA PoolAlone ==
  ASSUME [ProgramStep]_allVars
  PROVE  [Pool!Next]_poolVars
  BY DEF ProgramStep, allVars, monitors, LockRuns, QueueRuns, LoggerRuns, PoolRuns, WaitFreeRuns,
         CapstoneRuns, RingDemoRuns, DoubleRuns, StackRuns, ServerRuns, ClientsRun, ForkRuns, PingRuns

(* The threads that are ready can be counted, before and after a step. *)
LEMMA PoolCount ==
  /\ IsFiniteSet(PoolReady) /\ Cardinality(PoolReady) \in Nat
  /\ IsFiniteSet(PoolReady') /\ Cardinality(PoolReady') \in Nat
  <1>1. IsFiniteSet(Workers \cup {Main})
    BY PoolAssumption, FS_AddElement
  <1>2. PoolReady \subseteq Workers \cup {Main} /\ PoolReady' \subseteq Workers \cup {Main}
    BY DEF PoolReady, Pool!Awake, Pool!Notifying
  <1>3. IsFiniteSet(PoolReady) /\ IsFiniteSet(PoolReady')
    BY <1>1, <1>2, FS_Subset
  <1> QED BY <1>3, FS_CardinalityType

(* The pool starts with no task and every worker about to look for one. *)
LEMMA PoolInit == Start => PoolInv
  <1> SUFFICES ASSUME Pool!Init PROVE PoolInv
    BY DEF Start
  <1>1. tasks_ = <<>> /\ Len(tasks_) = 0 /\ resting = {} /\ submitted = 0 /\ finished = {}
    BY DEF Pool!Init
  <1>2. pc[Main] = "submit" /\ \A x \in Workers : pc[x] = "lock"
    BY PoolAssumption DEF Pool!Init
  <1>3. PoolTypes
    <2>1. task \in [Workers -> Nat] /\ tasks_ \in Seq(Nat) /\ stop_ = FALSE
      BY DEF Pool!Init
    <2>2. pc \in [Workers \cup {Main} ->
                  {"submit", "notify", "stopped", "join", "end", "lock", "run", "exit"}]
      BY DEF Pool!Init
    <2>3. submitted \in 0..Submitted
      BY <1>1, PoolAssumption
    <2> QED BY <1>1, <1>2, <2>1, <2>2, <2>3 DEF PoolTypes
  <1>4. PoolWakes /\ PoolTasks
    BY <1>1, <1>2 DEF PoolWakes, PoolTasks, Spawned
  <1> QED BY <1>3, <1>4 DEF PoolInv

(* A task that is appended is held, and so is every task held before. *)
LEMMA HeldEnqueued ==
  ASSUME PoolTypes, NEW t \in Nat, tasks_' = Append(tasks_, t), task' = task,
         \A x \in Workers : pc[x] \in {"run", "notify"} => pc'[x] \in {"run", "notify"}
  PROVE  Held(t)' /\ \A u : Held(u) => Held(u)'
  <1>1. Len(tasks_) \in Nat /\ Len(tasks_') = Len(tasks_) + 1
    BY Appended DEF PoolTypes
  <1>2. \A j \in 1..Len(tasks_) : j \in 1..Len(tasks_') /\ tasks_'[j] = tasks_[j]
    BY <1>1, AppendProperties DEF PoolTypes
  <1>3. Len(tasks_') \in 1..Len(tasks_') /\ tasks_'[Len(tasks_')] = t
    BY <1>1, AppendProperties DEF PoolTypes
  <1> QED BY <1>2, <1>3 DEF Held

(* submit by main: a task, and a notification on its way. *)
LEMMA PoolSubmits ==
  ASSUME PoolInv, Pool!MainSubmits
  PROVE  PoolInv'
  <1> USE DEF PoolInv
  <1>0. /\ pc[Main] = "submit" /\ submitted < Submitted /\ ~stop_
        /\ tasks_' = Append(tasks_, submitted + 1) /\ submitted' = submitted + 1
        /\ pc' = [pc EXCEPT ![Main] = "notify"]
        /\ UNCHANGED <<stop_, resting, task, got, finished, failed>>
    BY DEF Pool!MainSubmits, Pool!Enqueue, Pool!Goto
  <1>1. /\ submitted + 1 \in Nat /\ submitted' \in 0..Submitted
        /\ tasks_' \in Seq(Nat) /\ Len(tasks_) \in Nat /\ Len(tasks_') = Len(tasks_) + 1
    BY <1>0, Appended, PoolAssumption DEF PoolTypes
  <1>2. pc'[Main] = "notify" /\ \A x \in Workers : pc'[x] = pc[x]
    BY <1>0, PoolAssumption DEF PoolTypes
  <1>3. PoolTypes'
    BY <1>0, <1>1, <1>2 DEF PoolTypes
  <1>4. PoolWakes'
    <2>1. Main \notin PoolReady /\ PoolReady \cup {Main} \subseteq PoolReady'
      BY <1>0, <1>2, PoolAssumption
         DEF PoolReady, Pool!Awake, Pool!Notifying, Pool!Locked
    <2>2. Cardinality(PoolReady') >= Cardinality(PoolReady) + 1
      BY <2>1, GainOne, PoolCount
    <2> QED BY <1>0, <1>1, <2>2, PoolCount DEF PoolWakes
  <1>5. PoolTasks'
    <2>1. ASSUME NEW t \in Nat, t = submitted + 1
          PROVE  Held(t)' /\ \A u : Held(u) => Held(u)'
      BY <1>0, <1>1, <1>2, <2>1, HeldEnqueued
    <2>2. \A t \in 1..submitted' : Held(t)' \/ t \in finished' \cup failed'
      <3>1. ASSUME NEW t \in 1..submitted' PROVE t \in 1..submitted \/ t = submitted + 1
        BY <1>0, <1>1 DEF PoolTypes
      <3> QED BY <1>0, <1>1, <2>1, <3>1 DEF PoolTasks
    <2>3. \A t : Spawned(t)' => Spawned(t)
      BY <1>0, <1>2 DEF Spawned
    <2>4. \A x \in Workers : pc'[x] # "exit"
      BY <1>0, <1>2 DEF PoolTasks
    <2>5. \A t : Held(t) => Held(t)'
      BY <1>1, <2>1
    <2>6. \A t \in Spawners : Spawned(t)' => Held(Submitted + t)' \/ Submitted + t \in finished'
      BY <1>0, <2>3, <2>5 DEF PoolTasks
    <2> QED BY <1>2, <2>2, <2>4, <2>6 DEF PoolTasks
  <1> QED BY <1>3, <1>4, <1>5

(* Held and Spawned are about the queue and the workers only. *)
LEMMA PoolTasksSame ==
  ASSUME PoolTasks, UNCHANGED <<tasks_, task, submitted, finished, failed>>,
         \A x \in Workers : pc'[x] = pc[x],
         stop_ => stop_', pc'[Main] = "end" => \A x \in Workers : pc[x] = "exit"
  PROVE  PoolTasks'
  BY DEF PoolTasks, Held, Spawned

(* The notification of a submit: who is woken replaces who notified. *)
LEMMA PoolNotifies ==
  ASSUME PoolInv, Pool!MainNotifies
  PROVE  PoolInv'
  <1> USE DEF PoolInv
  <1>0. /\ pc[Main] = "notify" /\ pc' = [pc EXCEPT ![Main] = "submit"]
        /\ resting' \in NotifyOne(resting)
        /\ UNCHANGED <<tasks_, stop_, task, submitted, got, finished, failed>>
    BY DEF Pool!MainNotifies, Pool!Goto, Pool!NotifyOne, NotifyOne
  <1>1. resting' \subseteq resting /\ (resting' # {} => \E t \in resting : resting' = resting \ {t})
    BY <1>0, NotifyOneFact
  <1>2. pc'[Main] = "submit" /\ \A x \in Workers : pc'[x] = pc[x]
    BY <1>0, PoolAssumption DEF PoolTypes
  <1>3. PoolTypes'
    BY <1>0, <1>1, <1>2 DEF PoolTypes
  <1>4. ASSUME resting' # {}
        PROVE  Len(tasks_') <= Cardinality(PoolReady') /\ (stop_' => pc'[Main] = "stopped")
    <2>1. PICK t \in resting : resting' = resting \ {t}
      BY <1>1, <1>4
    <2>2. /\ t \notin PoolReady \ {Main} /\ IsFiniteSet(PoolReady \ {Main})
          /\ (PoolReady \ {Main}) \cup {t} \subseteq PoolReady'
      <3>1. t \in Workers /\ pc[t] = "lock" /\ pc'[t] = "lock" /\ t \notin resting'
        BY <1>2, <2>1 DEF PoolTypes
      <3>2. t \notin PoolReady /\ t \in PoolReady'
        BY <2>1, <3>1 DEF PoolReady, Pool!Awake, Pool!Notifying, Pool!Locked
      <3>3. PoolReady \ {Main} \subseteq PoolReady'
        BY <1>2, <2>1 DEF PoolReady, Pool!Awake, Pool!Notifying, Pool!Locked
      <3>4. IsFiniteSet(PoolReady \ {Main})
        BY PoolCount, FS_RemoveElement
      <3> QED BY <3>2, <3>3, <3>4
    <2>3. Cardinality(PoolReady') >= Cardinality(PoolReady \ {Main}) + 1
      BY <2>2, GainOne, PoolCount
    <2>4. /\ Cardinality(PoolReady \ {Main}) \in Nat
          /\ Cardinality(PoolReady \ {Main}) >= Cardinality(PoolReady) - 1
      BY <2>2, LoseOne, PoolCount
    <2>5. Len(tasks_) \in Nat
      BY LenProperties DEF PoolTypes
    <2>6. Len(tasks_') <= Cardinality(PoolReady')
      BY <1>0, <2>1, <2>3, <2>4, <2>5, PoolCount DEF PoolWakes
    <2>7. ~stop_
      BY <1>0 DEF PoolTypes
    <2> QED BY <1>0, <2>6, <2>7
  <1>5. PoolWakes'
    BY <1>4 DEF PoolWakes
  <1>6. PoolTasks'
    BY <1>0, <1>2, PoolTasksSame
  <1> QED BY <1>3, <1>5, <1>6

(* main gets a future, stops the pool, wakes all workers, joins them. *)
LEMMA PoolMain ==
  ASSUME PoolInv, Pool!MainGets \/ Pool!MainStops \/ Pool!MainNotifiesAll \/ Pool!MainJoins
  PROVE  PoolInv'
  <1> USE DEF PoolInv, Pool!Goto
  <1>1. CASE Pool!MainGets
    <2>1. UNCHANGED <<tasks_, stop_, resting, pc, task, submitted, finished, failed>>
      BY <1>1 DEF Pool!MainGets
    <2> QED BY <2>1 DEF PoolTypes, PoolWakes, PoolReady, Pool!Awake, Pool!Notifying, Pool!Locked,
                        PoolTasks, Held, Spawned
  <1>2. ASSUME NEW l \in {"stopped", "join", "end"},
               \/ pc[Main] = "submit" /\ submitted = Submitted /\ l = "stopped" /\ resting' = resting
               \/ pc[Main] = "stopped" /\ l = "join" /\ resting' = {}
               \/ pc[Main] = "join" /\ l = "end" /\ resting' = resting
                  /\ \A x \in Workers : pc[x] = "exit",
               stop_', pc' = [pc EXCEPT ![Main] = l],
               UNCHANGED <<tasks_, task, submitted, got, finished, failed>>
        PROVE  PoolInv'
    <2>1. pc'[Main] = l /\ \A x \in Workers : pc'[x] = pc[x]
      BY <1>2, PoolAssumption DEF PoolTypes
    <2>2. PoolTypes'
      BY <1>2, <2>1 DEF PoolTypes
    <2>3. PoolTasks'
      BY <1>2, <2>1, PoolTasksSame DEF PoolTasks
    <2>4. PoolReady' = PoolReady \/ resting' = {}
      BY <1>2, <2>1, PoolAssumption DEF PoolReady, Pool!Awake, Pool!Notifying, Pool!Locked
    <2>5. PoolWakes'
      BY <1>2, <2>1, <2>4 DEF PoolTypes, PoolWakes
    <2> QED BY <2>2, <2>3, <2>5
  <1>3. CASE Pool!MainStops
    BY <1>2, <1>3 DEF Pool!MainStops
  <1>4. CASE Pool!MainNotifiesAll
    BY <1>2, <1>4 DEF Pool!MainNotifiesAll, Pool!NotifyAll, PoolTypes
  <1>5. CASE Pool!MainJoins
    BY <1>2, <1>5 DEF Pool!MainJoins, PoolTypes
  <1> QED BY <1>1, <1>3, <1>4, <1>5

(* A worker waits for an empty queue, or exits with the queue empty. *)
LEMMA PoolWaits ==
  ASSUME PoolInv, NEW x \in Workers, Pool!WorkerWaits(x) \/ Pool!WorkerLeaves(x)
  PROVE  PoolInv'
  <1> USE DEF PoolInv, Pool!Locked
  <1>1. CASE Pool!WorkerWaits(x)
    <2>0. /\ tasks_ = <<>> /\ Len(tasks_) = 0 /\ ~stop_ /\ pc[x] = "lock" /\ resting' = resting \cup {x}
          /\ UNCHANGED <<tasks_, stop_, pc, task, submitted, got, finished, failed>>
      BY <1>1 DEF Pool!WorkerWaits
    <2>1. PoolTypes'
      BY <2>0 DEF PoolTypes
    <2>2. PoolWakes'
      BY <2>0, PoolCount DEF PoolWakes
    <2>3. PoolTasks'
      BY <2>0, PoolTasksSame DEF PoolTasks
    <2> QED BY <2>1, <2>2, <2>3
  <1>2. CASE Pool!WorkerLeaves(x)
    <2>0. /\ tasks_ = <<>> /\ Len(tasks_) = 0 /\ stop_ /\ pc[x] = "lock" /\ x \notin resting
          /\ pc' = [pc EXCEPT ![x] = "exit"]
          /\ UNCHANGED <<tasks_, stop_, resting, task, submitted, got, finished, failed>>
      BY <1>2 DEF Pool!WorkerLeaves, Pool!Goto
    <2>1. /\ pc'[x] = "exit" /\ pc'[Main] = pc[Main]
          /\ \A y \in Workers \ {x} : pc'[y] = pc[y]
      BY <2>0, PoolAssumption DEF PoolTypes
    <2>2. PoolTypes'
      BY <2>0, <2>1 DEF PoolTypes
    <2>3. PoolWakes'
      BY <2>0, <2>1, PoolCount DEF PoolWakes
    <2>4. \A t : (Held(t) => Held(t)') /\ (Spawned(t)' => Spawned(t))
      BY <2>0, <2>1 DEF Held, Spawned
    <2>5. PoolTasks'
      BY <2>0, <2>1, <2>4 DEF PoolTasks
    <2> QED BY <2>2, <2>3, <2>5
  <1> QED BY <1>1, <1>2

(* A worker takes a task: one task and one worker less to count. *)
LEMMA PoolTakes ==
  ASSUME PoolInv, NEW x \in Workers, Pool!WorkerTakes(x)
  PROVE  PoolInv'
  <1> USE DEF PoolInv
  <1>0. /\ tasks_ # <<>> /\ tasks_' = Tail(tasks_) /\ task' = [task EXCEPT ![x] = Head(tasks_)]
        /\ pc[x] = "lock" /\ x \notin resting /\ pc' = [pc EXCEPT ![x] = "run"]
        /\ UNCHANGED <<stop_, resting, submitted, got, finished, failed>>
    BY DEF Pool!WorkerTakes, Pool!Goto, Pool!Locked
  <1>1. /\ tasks_' \in Seq(Nat) /\ Len(tasks_) \in Nat /\ Len(tasks_) >= 1
        /\ Len(tasks_') = Len(tasks_) - 1 /\ Head(tasks_) \in Nat
        /\ Head(tasks_) = tasks_[1] /\ \A j \in 1..Len(tasks_') : tasks_'[j] = tasks_[j + 1]
    BY <1>0, Taken, HeadTailProperties DEF PoolTypes
  <1>2. /\ pc'[x] = "run" /\ pc'[Main] = pc[Main]
        /\ \A y \in Workers \ {x} : pc'[y] = pc[y] /\ task'[y] = task[y]
        /\ task'[x] = Head(tasks_)
    BY <1>0, PoolAssumption DEF PoolTypes
  <1>3. PoolTypes'
    BY <1>0, <1>1, <1>2 DEF PoolTypes
  <1>4. PoolWakes'
    <2>1. PoolReady \ {x} \subseteq PoolReady'
      BY <1>0, <1>2 DEF PoolReady, Pool!Awake, Pool!Notifying, Pool!Locked
    <2>2. Cardinality(PoolReady') >= Cardinality(PoolReady) - 1
      BY <2>1, LoseOne, PoolCount
    <2> QED BY <1>0, <1>1, <1>2, <2>2, PoolCount DEF PoolWakes
  <1>5. \A t : Held(t) => Held(t)'
    <2> SUFFICES ASSUME NEW t, Held(t) PROVE Held(t)'
      OBVIOUS
    <2>1. CASE \E y \in Workers : pc[y] \in {"run", "notify"} /\ task[y] = t
      BY <2>1, <1>0, <1>2 DEF Held
    <2>2. CASE \E j \in 1..Len(tasks_) : tasks_[j] = t
      <3>1. PICK j \in 1..Len(tasks_) : tasks_[j] = t
        BY <2>2
      <3>2. CASE j = 1
        BY <3>1, <3>2, <1>1, <1>2 DEF Held
      <3>3. CASE j # 1
        <4>1. j - 1 \in 1..Len(tasks_') /\ (j - 1) + 1 = j
          BY <3>1, <3>3, <1>1
        <4> QED BY <3>1, <4>1, <1>1 DEF Held
      <3> QED BY <3>2, <3>3
    <2> QED BY <2>1, <2>2 DEF Held
  <1>6. \A t : Spawned(t)' => Spawned(t)
    BY <1>0, <1>2 DEF Spawned
  <1>7. \A y \in Workers : pc[y] # "exit" /\ pc'[y] # "exit"
    BY <1>0, <1>2 DEF PoolTasks
  <1>8. PoolTasks'
    BY <1>0, <1>2, <1>5, <1>6, <1>7 DEF PoolTasks
  <1> QED BY <1>3, <1>4, <1>8

(* A worker that is done with its task is awake again. *)
LEMMA PoolBack ==
  ASSUME PoolInv, NEW x \in Workers,
         pc[x] \in {"run", "notify"}, pc' = [pc EXCEPT ![x] = "lock"],
         UNCHANGED <<tasks_, stop_, task, submitted>>,
         resting' \subseteq resting,
         resting' # {} => Cardinality(PoolReady') >= Cardinality(PoolReady),
         finished \subseteq finished', failed \subseteq failed',
         task[x] \in finished' \cup failed',
         task[x] \in Spawners \/ task[x] \in finished',
         \A t \in Spawners : Spawned(t)' => Spawned(t)
  PROVE  PoolInv'
  <1> USE DEF PoolInv
  <1>1. /\ pc'[x] = "lock" /\ pc'[Main] = pc[Main]
        /\ \A y \in Workers \ {x} : pc'[y] = pc[y]
    BY PoolAssumption DEF PoolTypes
  <1>2. PoolTypes'
    BY <1>1 DEF PoolTypes
  <1>3. PoolWakes'
    <2>1. Len(tasks_) \in Nat
      BY LenProperties DEF PoolTypes
    <2> QED BY <1>1, <2>1, PoolCount DEF PoolWakes
  <1>4. \A t : Held(t) => Held(t)' \/ t = task[x]
    BY <1>1 DEF Held
  <1>5. \A t \in Spawners : Submitted + t \notin Spawners
    <2>1. \A t \in 1..Submitted : Submitted + t \notin 1..Submitted
      BY PoolAssumption
    <2> QED BY <2>1, PoolAssumption
  <1>6. \A t \in Spawners : Spawned(t)' => Held(Submitted + t)' \/ Submitted + t \in finished'
    BY <1>4, <1>5 DEF PoolTasks
  <1>7. \A t \in 1..submitted' : Held(t)' \/ t \in finished' \cup failed'
    BY <1>4 DEF PoolTasks
  <1>8. (\E y \in Workers : pc'[y] = "exit") => stop_' /\ tasks_' = <<>>
    BY <1>1 DEF PoolTasks
  <1>9. pc'[Main] # "end"
    BY <1>1 DEF PoolTasks
  <1> QED BY <1>2, <1>3, <1>6, <1>7, <1>8, <1>9 DEF PoolTasks

(* A task without a child ends, or a spawner gets an exception. *)
LEMMA PoolEndsTask ==
  ASSUME PoolInv, NEW x \in Workers, Pool!WorkerRuns(x) \/ Pool!WorkerThrows(x)
  PROVE  PoolInv'
  <1>0. /\ pc[x] = "run" /\ pc' = [pc EXCEPT ![x] = "lock"]
        /\ UNCHANGED <<tasks_, stop_, resting, task, submitted, got>>
        /\ \/ task[x] \notin Spawners /\ finished' = finished \cup {task[x]} /\ failed' = failed
           \/ task[x] \in Spawners /\ failed' = failed \cup {task[x]} /\ finished' = finished
    BY DEF Pool!WorkerRuns, Pool!WorkerThrows, Pool!Goto
  <1>1. /\ pc'[x] = "lock" /\ pc'[Main] = pc[Main]
        /\ \A y \in Workers \ {x} : pc'[y] = pc[y]
    BY <1>0, PoolAssumption DEF PoolInv, PoolTypes
  <1>2. Cardinality(PoolReady') >= Cardinality(PoolReady)
    <2>1. PoolReady \subseteq PoolReady'
      BY <1>0, <1>1 DEF PoolReady, Pool!Awake, Pool!Notifying, Pool!Locked
    <2> QED BY <2>1, FS_Subset, PoolCount
  <1>3. \A t \in Spawners : Spawned(t)' => Spawned(t)
    BY <1>0, <1>1 DEF Spawned
  <1> QED BY <1>0, <1>2, <1>3, PoolBack

(* The notification of a spawner: the worker itself is awake again too. *)
LEMMA PoolWorkerNotifies ==
  ASSUME PoolInv, NEW x \in Workers, Pool!WorkerNotifies(x)
  PROVE  PoolInv'
  <1>0. /\ pc[x] = "notify" /\ pc' = [pc EXCEPT ![x] = "lock"]
        /\ resting' \in NotifyOne(resting) /\ finished' = finished \cup {task[x]}
        /\ UNCHANGED <<tasks_, stop_, task, submitted, got, failed>>
    BY DEF Pool!WorkerNotifies, Pool!Goto, Pool!NotifyOne, NotifyOne
  <1>1. /\ pc'[x] = "lock" /\ pc'[Main] = pc[Main]
        /\ \A y \in Workers \ {x} : pc'[y] = pc[y]
    BY <1>0, PoolAssumption DEF PoolInv, PoolTypes
  <1>2. resting' \subseteq resting
    BY <1>0, NotifyOneFact
  <1>3. Cardinality(PoolReady') >= Cardinality(PoolReady)
    <2>1. x \notin resting'
      BY <1>0, <1>2 DEF PoolInv, PoolTypes
    <2>2. PoolReady \subseteq PoolReady'
      BY <1>1, <1>2, <2>1 DEF PoolReady, Pool!Awake, Pool!Notifying, Pool!Locked
    <2> QED BY <2>2, FS_Subset, PoolCount
  <1>4. \A t \in Spawners : Spawned(t)' => Spawned(t)
    BY <1>0, <1>1 DEF Spawned
  <1> QED BY <1>0, <1>2, <1>3, <1>4, PoolBack

(* A spawner submits its child: a task, and a notification on its way. *)
LEMMA PoolSpawns ==
  ASSUME PoolInv, NEW x \in Workers, Pool!WorkerSpawns(x)
  PROVE  PoolInv'
  <1> USE DEF PoolInv
  <1>0. /\ pc[x] = "run" /\ task[x] \in Spawners /\ ~stop_
        /\ tasks_' = Append(tasks_, Submitted + task[x]) /\ pc' = [pc EXCEPT ![x] = "notify"]
        /\ UNCHANGED <<stop_, resting, task, submitted, got, finished, failed>>
    BY DEF Pool!WorkerSpawns, Pool!Enqueue, Pool!Goto, Pool!child
  <1>1. /\ pc'[x] = "notify" /\ pc'[Main] = pc[Main]
        /\ \A y \in Workers \ {x} : pc'[y] = pc[y]
    BY <1>0, PoolAssumption DEF PoolTypes
  <1>2. Submitted + task[x] \in Nat
    BY PoolAssumption DEF PoolTypes
  <1>3. tasks_' \in Seq(Nat) /\ Len(tasks_) \in Nat /\ Len(tasks_') = Len(tasks_) + 1
    BY <1>0, <1>2, Appended DEF PoolTypes
  <1>4. PoolTypes'
    BY <1>0, <1>1, <1>3 DEF PoolTypes
  <1>5. PoolWakes'
    <2>1. x \notin PoolReady /\ PoolReady \cup {x} \subseteq PoolReady'
      BY <1>0, <1>1 DEF PoolReady, Pool!Awake, Pool!Notifying, Pool!Locked
    <2>2. Cardinality(PoolReady') >= Cardinality(PoolReady) + 1
      BY <2>1, GainOne, PoolCount
    <2> QED BY <1>0, <1>1, <1>3, <2>2, PoolCount DEF PoolWakes
  <1>6. ASSUME NEW t \in Nat, t = Submitted + task[x]
        PROVE  Held(t)' /\ \A u : Held(u) => Held(u)'
    BY <1>0, <1>1, <1>6, HeldEnqueued
  <1>7. \A u : Held(u) => Held(u)'
    BY <1>2, <1>6
  <1>8. \A t : Spawned(t)' => Spawned(t) \/ t = task[x]
    BY <1>0, <1>1 DEF Spawned
  <1>9. \A t \in Spawners : Spawned(t)' => Held(Submitted + t)' \/ Submitted + t \in finished'
    BY <1>0, <1>2, <1>6, <1>7, <1>8 DEF PoolTasks
  <1>10. \A y \in Workers : pc'[y] # "exit"
    BY <1>0, <1>1 DEF PoolTasks
  <1>11. PoolTasks'
    BY <1>0, <1>1, <1>7, <1>9, <1>10 DEF PoolTasks
  <1> QED BY <1>4, <1>5, <1>11

(* A spurious wake-up adds a worker to those awake. *)
LEMMA PoolSpurious ==
  ASSUME PoolInv, Pool!Spurious
  PROVE  PoolInv'
  <1> USE DEF PoolInv
  <1>0. /\ resting' \subseteq resting
        /\ UNCHANGED <<tasks_, stop_, pc, task, submitted, got, finished, failed>>
    BY SpuriousFact DEF Pool!Spurious, Pool!SpuriousWakeup, SpuriousWakeup
  <1>1. PoolTypes'
    BY <1>0 DEF PoolTypes
  <1>2. Cardinality(PoolReady') >= Cardinality(PoolReady)
    <2>1. PoolReady \subseteq PoolReady'
      BY <1>0 DEF PoolReady, Pool!Awake, Pool!Notifying, Pool!Locked
    <2> QED BY <2>1, FS_Subset, PoolCount
  <1>3. PoolWakes'
    <2>1. Len(tasks_) \in Nat
      BY LenProperties DEF PoolTypes
    <2> QED BY <1>0, <1>2, <2>1, PoolCount DEF PoolWakes
  <1>4. PoolTasks'
    BY <1>0, PoolTasksSame DEF PoolTasks
  <1> QED BY <1>1, <1>3, <1>4

(* The invariant of the pool holds whatever program runs. *)
LEMMA PoolInvariance == Programs => []PoolInv
  <1>1. PoolInv /\ [ProgramStep]_allVars => PoolInv'
    <2> SUFFICES ASSUME PoolInv, [Pool!Next]_poolVars PROVE PoolInv'
      BY PoolAlone
    <2>1. CASE Pool!MainStep
      BY <2>1, PoolSubmits, PoolNotifies, PoolMain DEF Pool!MainStep
    <2>2. CASE \E x \in Workers : Pool!WorkerStep(x)
      BY <2>2, PoolWaits, PoolTakes, PoolEndsTask, PoolSpawns, PoolWorkerNotifies DEF Pool!WorkerStep
    <2>3. CASE Pool!Spurious
      BY <2>3, PoolSpurious
    <2>4. CASE UNCHANGED poolVars
      BY <2>4 DEF poolVars, PoolInv, PoolTypes, PoolWakes, PoolReady, Pool!Awake, Pool!Notifying,
                  Pool!Locked, PoolTasks, Held, Spawned
    <2> QED BY <2>1, <2>2, <2>3, <2>4 DEF Pool!Next, Pool!Ended, Pool!vars, poolVars
  <1> QED BY PoolInit, <1>1, PTL DEF Programs

----------------------------------------------------------------------------
(* The properties.                                                         *)

(* An instance counts with a Cardinality of its own. *)
LEMMA QueueCardinality == \A S : Queue!Cardinality(S) = Cardinality(S)
  BY DEF Queue!Cardinality, Cardinality
LEMMA PoolCardinality == \A S : Pool!Cardinality(S) = Cardinality(S)
  BY DEF Pool!Cardinality, Cardinality

(* Who is awake and who is notifying are different threads. *)
LEMMA PoolReadyCount ==
  ASSUME PoolTypes
  PROVE  Cardinality(PoolReady) = Cardinality(Pool!Awake) + Cardinality(Pool!Notifying)
  <1>1. Pool!Awake \cap Pool!Notifying = {}
    BY DEF Pool!Awake, Pool!Notifying, Pool!Locked
  <1>2. IsFiniteSet(Pool!Awake) /\ IsFiniteSet(Pool!Notifying)
    BY PoolCount, FS_Subset DEF PoolReady
  <1>3. Cardinality(PoolReady) = Cardinality(Pool!Awake) + Cardinality(Pool!Notifying)
                                 - Cardinality(Pool!Awake \cap Pool!Notifying)
    BY <1>2, FS_Union DEF PoolReady
  <1>4. Cardinality(Pool!Awake \cap Pool!Notifying) = 0
    BY <1>1, FS_EmptySet
  <1>5. Cardinality(Pool!Awake) \in Nat /\ Cardinality(Pool!Notifying) \in Nat
    BY <1>2, FS_CardinalityType
  <1> QED BY <1>3, <1>4, <1>5

(* No thread of any program sleeps on work, for any number of threads,     *)
(* items, tasks and rounds: one notify_one per push, log or submit is      *)
(* enough, although the pool notifies after it has unlocked, a poller may  *)
(* take the item a consumer was woken for, and wake-ups may be spurious.   *)
THEOREM WakeupsArrive == Programs => []NoLostWakeup
  <1>1. QueueInv => Queue!NoLostWakeup
    BY QueueCardinality DEF QueueInv, QueueWakes, Queue!NoLostWakeup
  <1>2. LoggerInv => Logger!NoLostWakeup
    BY DEF LoggerInv
  <1>3. PoolInv => Pool!NoLostWakeup
    BY PoolCardinality, PoolReadyCount DEF PoolInv, PoolWakes, Pool!NoLostWakeup
  <1>4. ForkInv => Fork!NoLostWakeup
    BY DEF ForkInv, ForkPage, Fork!NoLostWakeup
  <1>5. PingInv => Ping!NoLostWakeup
    BY DEF PingInv, PingTypes, PingThreads, PingProcesses, Ping!NoLostWakeup, Ping!A, Ping!B
  <1>6. QueueInv /\ LoggerInv /\ PoolInv /\ ForkInv /\ PingInv => NoLostWakeup
    BY <1>1, <1>2, <1>3, <1>4, <1>5 DEF NoLostWakeup
  <1> QED BY <1>6, QueueInvariance, LoggerInvariance, PoolInvariance, ForkInvariance,
             PingInvariance, PTL

(* The child reads what the parent wrote, the shared objects are destroyed *)
(* when both are done with them, and ping-pong players alternate, with any *)
(* failure of a read or write.                                             *)
THEOREM TurnsAndHandOver == Programs => []HandedOver
  <1>1. ForkInv => Fork!HandedOver
    BY DEF ForkInv, ForkTypes, ForkOrder, ForkPage, Fork!HandedOver
  <1>2. PingInv => Ping!Alternates
    BY DEF PingInv, PingTypes, PingThreads, PingProcesses, Ping!Alternates, Ping!A, Ping!B
  <1>3. ForkInv /\ PingInv => HandedOver
    BY <1>1, <1>2 DEF HandedOver
  <1> QED BY <1>3, ForkInvariance, PingInvariance, PTL

----------------------------------------------------------------------------
(* Arithmetic of laps.                                                     *)

(* A number is some full laps of c, and its remainder. *)
LEMMA Lap ==
  ASSUME NEW c \in Nat, c >= 1, NEW x \in Nat
  PROVE  \E a \in Nat, b \in 0..c - 1 : x = c * a + b /\ x % c = b
  <1> DEFINE a == x \div c
             b == x % c
  <1>1. a \in Nat /\ b \in 0..c - 1
    BY Z3
  <1>2. x = c * a + b
    <2>1. a \in Int /\ b \in Int /\ a = x \div c /\ b = x % c
      BY <1>1
    <2> HIDE DEF a, b
    <2> QED BY <2>1, Z3
  <1> QED BY <1>1, <1>2

(* There is only one such remainder. *)
LEMMA LapUnique ==
  ASSUME NEW c \in Nat, c >= 1, NEW a \in Nat, NEW b \in 0..c - 1
  PROVE  (c * a + b) % c = b
  BY Z3T(60)

(* The slot after, and the same slot a lap later. *)
LEMMA LapAdd ==
  ASSUME NEW c \in Nat, c >= 1, NEW x \in Nat
  PROVE  /\ (x + 1) % c = ((x % c) + 1) % c
         /\ (x + c) % c = x % c
         /\ x % c \in 0..c - 1
  <1>1. PICK a \in Nat, b \in 0..c - 1 : x = c * a + b /\ x % c = b
    BY Lap
  <1>2. c * (a + 1) = c * a + c /\ c * a \in Nat
    BY Z3
  <1>3. (x + c) % c = b
    <2>1. x + c = c * (a + 1) + b
      BY <1>1, Z3
    <2>2. a + 1 \in Nat
      BY <1>1
    <2>3. (c * (a + 1) + b) % c = b
      BY <2>2, LapUnique
    <2> QED BY <2>1, <2>3
  <1>4. CASE b + 1 < c
    <2>1. x + 1 = c * a + (b + 1) /\ b + 1 \in 0..c - 1
      BY <1>1, <1>2, <1>4
    <2>2. (x + 1) % c = b + 1
      <3>1. (c * a + (b + 1)) % c = b + 1
        BY <2>1, LapUnique
      <3> QED BY <2>1, <3>1
    <2>3. b + 1 = c * 0 + (b + 1)
      BY <1>1, Z3
    <2>4. (b + 1) % c = b + 1
      BY <2>1, <2>3, LapUnique
    <2> QED BY <1>1, <1>3, <2>2, <2>4
  <1>5. CASE b + 1 = c
    <2>1. x + 1 = c * (a + 1) + 0 /\ 0 \in 0..c - 1
      BY <1>1, <1>5, Z3
    <2>2. (x + 1) % c = 0
      <3>1. a + 1 \in Nat
        BY <1>1
      <3>2. (c * (a + 1) + 0) % c = 0
        BY <2>1, <3>1, LapUnique
      <3> QED BY <2>1, <3>2
    <2>3. (b + 1) % c = 0
      <3>1. c = c * 1 + 0
        BY Z3
      <3> QED BY <1>5, <2>1, <3>1, LapUnique
    <2> QED BY <1>1, <1>3, <2>2, <2>3
  <1> QED BY <1>1, <1>4, <1>5

(* Positions less than a lap apart are on different slots. *)
LEMMA LapDistinct ==
  ASSUME NEW c \in Nat, c >= 1, NEW x \in Nat, NEW y \in Nat, x <= y, y < x + c, x % c = y % c
  PROVE  x = y
  <1>1. PICK a \in Nat, b \in 0..c - 1 : x = c * a + b /\ x % c = b
    BY Lap
  <1>2. PICK d \in Nat, e \in 0..c - 1 : y = c * d + e /\ y % c = e
    BY Lap
  <1>3. e = b
    BY <1>1, <1>2
  <1>4. CASE d >= a + 1
    <2>1. c * d >= c * (a + 1) /\ c * (a + 1) = c * a + c
      BY <1>4, Z3
    <2> QED BY <1>1, <1>2, <1>3, <2>1, Z3
  <1>5. CASE a >= d + 1
    <2>1. c * a >= c * (d + 1) /\ c * (d + 1) = c * d + c
      BY <1>5, Z3
    <2> QED BY <1>1, <1>2, <1>3, <2>1, Z3
  <1>6. CASE a = d
    BY <1>1, <1>2, <1>3, <1>6
  <1> QED BY <1>4, <1>5, <1>6

----------------------------------------------------------------------------
(* hft_capstone_pipeline.                                                  *)

(* The ring holds what follows the last item that was popped. *)
CapstoneRing ==
  /\ q \in Seq(Nat) /\ drawn \in Seq(Nat) /\ processed \in Seq(Nat)
  /\ fed \in 0..total /\ fed = Len(drawn) + Len(q) /\ Len(q) < qcap
  /\ \A j \in 1..Len(drawn) : drawn[j] = j - 1
  /\ \A j \in 1..Len(q) : q[j] = Len(drawn) + j - 1
(* The flag is set after the last push, and the consumer leaves an empty   *)
(* ring after it has read it.                                              *)
CapstoneFlag ==
  /\ feeder \in {"push", "exit"} /\ booker \in {"loop", "cond", "body", "exit"}
  /\ feeder = "exit" => fed = total
  /\ done => feeder = "exit"
  /\ seenDone => done
  /\ booker \in {"cond", "exit"} => seenDone
  /\ booker = "exit" => q = <<>>
(* From then on two pops lose at most one update, or the ring is empty.    *)
CapstoneLoss ==
  /\ Len(processed) <= Len(drawn)
  /\ ~seenDone => processed = drawn
  /\ 2 * (Len(drawn) - Len(processed)) <= qcap
  /\ seenDone /\ booker = "body" => 2 * (Len(drawn) - Len(processed)) + Len(q) <= qcap
  /\ seenDone /\ booker # "body" /\ q # <<>> =>
       2 * (Len(drawn) - Len(processed)) + Len(q) < qcap
(* The book holds updates that were popped, in the order of the pops.      *)
CapstoneBook ==
  /\ \A j \in 1..Len(processed) : processed[j] < Len(drawn)
  /\ \A j \in 1..Len(processed) - 1 : processed[j] < processed[j + 1]
CapstoneInv == CapstoneRing /\ CapstoneFlag /\ CapstoneLoss /\ CapstoneBook

(* The other programs leave the pipeline alone. *)
LEMMA CapstoneAlone ==
  ASSUME [ProgramStep]_allVars
  PROVE  [Capstone!Next]_capstoneVars
  BY DEF ProgramStep, allVars, rings, LockRuns, QueueRuns, LoggerRuns, PoolRuns, WaitFreeRuns,
         CapstoneRuns, RingDemoRuns, DoubleRuns, StackRuns, ServerRuns, ClientsRun, ForkRuns, PingRuns

(* The pipeline starts empty. *)
LEMMA CapstoneInit == Start => CapstoneInv
  <1> SUFFICES ASSUME Capstone!Init PROVE CapstoneInv
    BY DEF Start
  <1>1. /\ q = <<>> /\ drawn = <<>> /\ processed = <<>> /\ fed = 0
        /\ Len(q) = 0 /\ Len(drawn) = 0 /\ Len(processed) = 0
        /\ q \in Seq(Nat) /\ drawn \in Seq(Nat) /\ processed \in Seq(Nat)
    BY DEF Capstone!Init, Capstone!Ring!Init
  <1>2. feeder = "push" /\ booker = "loop" /\ ~done /\ ~seenDone
    BY DEF Capstone!Init
  <1>3. qcap \in Nat /\ total \in Nat /\ qcap >= 2
    BY PipelineAssumption
  <1>4. CapstoneRing /\ CapstoneFlag
    BY <1>1, <1>2, <1>3 DEF CapstoneRing, CapstoneFlag
  <1>5. CapstoneLoss /\ CapstoneBook
    BY <1>1, <1>2, <1>3 DEF CapstoneLoss, CapstoneBook
  <1> QED BY <1>4, <1>5 DEF CapstoneInv

(* The producer's push. *)
LEMMA CapstonePush ==
  ASSUME CapstoneInv, Capstone!PushOk
  PROVE  CapstoneInv'
  <1> USE DEF CapstoneInv
  <1>0. /\ fed < total /\ Len(q) < qcap - 1 /\ q' = Append(q, fed) /\ fed' = fed + 1
        /\ feeder = "push" /\ UNCHANGED <<drawn, feeder, dropped, done, seenDone, booker, processed>>
    BY DEF Capstone!PushOk, Capstone!Ring!Push
  <1>1. /\ Len(q) \in Nat /\ Len(drawn) \in Nat /\ Len(processed) \in Nat
        /\ qcap \in Nat /\ total \in Nat /\ fed \in Nat /\ q \in Seq(Nat)
    BY LenProperties, PipelineAssumption DEF CapstoneRing
  <1>2. q' \in Seq(Nat) /\ Len(q') = Len(q) + 1 /\ q' # <<>>
    BY <1>0, <1>1, Appended
  <1>3. \A j \in 1..Len(q') :
          /\ j = Len(q) + 1 => q'[j] = fed
          /\ j # Len(q) + 1 => q'[j] = q[j]
    BY <1>0, <1>1, AppendProperties
  <1>4. ~done /\ ~seenDone
    BY <1>0 DEF CapstoneFlag
  <1>5. CapstoneRing'
    <2>1. ASSUME NEW j \in 1..Len(q')
          PROVE  q'[j] = Len(drawn) + j - 1
      <3>1. CASE j = Len(q) + 1
        <4>1. q'[j] = fed /\ fed = Len(drawn) + Len(q)
          BY <1>3, <3>1 DEF CapstoneRing
        <4> QED BY <1>1, <3>1, <4>1
      <3>2. CASE j \in 1..Len(q)
        <4>1. j # Len(q) + 1 /\ q'[j] = q[j]
          BY <1>1, <1>3, <3>2
        <4>2. q[j] = Len(drawn) + j - 1
          BY <3>2 DEF CapstoneRing
        <4> QED BY <4>1, <4>2
      <3> QED BY <1>1, <1>2, <3>1, <3>2
    <2>2. fed' \in 0..total /\ fed' = Len(drawn) + Len(q') /\ Len(q') < qcap
      BY <1>0, <1>1, <1>2, SMTT(30) DEF CapstoneRing
    <2> QED BY <1>0, <1>2, <2>1, <2>2 DEF CapstoneRing
  <1>6. CapstoneFlag'
    BY <1>0, <1>4 DEF CapstoneFlag
  <1>7. CapstoneLoss' /\ CapstoneBook'
    BY <1>0, <1>4 DEF CapstoneLoss, CapstoneBook
  <1> QED BY <1>5, <1>6, <1>7

(* The producer's other steps. *)
LEMMA CapstoneProducer ==
  ASSUME CapstoneInv, Capstone!PushFull \/ Capstone!SetDone
  PROVE  CapstoneInv'
  <1> USE DEF CapstoneInv
  <1>1. /\ UNCHANGED <<q, fed, drawn, seenDone, booker, processed>>
        /\ \/ UNCHANGED <<feeder, done>>
           \/ fed = total /\ feeder' = "exit"
    BY DEF Capstone!PushFull, Capstone!SetDone
  <1>2. CapstoneRing' /\ CapstoneLoss' /\ CapstoneBook'
    BY <1>1 DEF CapstoneRing, CapstoneLoss, CapstoneBook
  <1>3. CapstoneFlag'
    BY DEF CapstoneFlag, Capstone!PushFull, Capstone!SetDone
  <1> QED BY <1>2, <1>3

(* A pop takes the next item, and leaves the rest in order. *)
LEMMA CapstonePops ==
  ASSUME CapstoneRing, Capstone!Ring!Pop
  PROVE  /\ q # <<>> /\ Head(q) = Len(drawn) /\ Len(q) \in Nat /\ Len(q) >= 1
         /\ Len(q') = Len(q) - 1 /\ q' \in Seq(Nat) /\ fed' = fed
         /\ Len(drawn) \in Nat /\ drawn' = Append(drawn, Len(drawn)) /\ Len(drawn') = Len(drawn) + 1
         /\ processed' \in Seq(Nat) => CapstoneRing'
  <1>0. q # <<>> /\ drawn' = Append(drawn, Head(q)) /\ q' = Tail(q) /\ fed' = fed
    BY DEF Capstone!Ring!Pop
  <1>1. /\ q \in Seq(Nat) /\ drawn \in Seq(Nat)
        /\ Len(drawn) \in Nat /\ qcap \in Nat /\ total \in Nat /\ fed \in Nat
    BY LenProperties, PipelineAssumption DEF CapstoneRing
  <1>2. q' \in Seq(Nat) /\ Len(q) \in Nat /\ Len(q) >= 1 /\ Len(q') = Len(q) - 1 /\ Head(q) \in Nat
    BY <1>0, <1>1, Taken
  <1>3. Head(q) = q[1] /\ \A j \in 1..Len(q') : q'[j] = q[j + 1]
    BY <1>0, <1>1, HeadTailProperties
  <1>4. Head(q) = Len(drawn)
    BY <1>1, <1>2, <1>3 DEF CapstoneRing
  <1>5. drawn' \in Seq(Nat) /\ Len(drawn') = Len(drawn) + 1
    BY <1>0, <1>1, <1>2, Appended
  <1>6. \A j \in 1..Len(drawn') :
          /\ j = Len(drawn) + 1 => drawn'[j] = Head(q)
          /\ j # Len(drawn) + 1 => drawn'[j] = drawn[j]
    BY <1>0, <1>1, <1>2, AppendProperties
  <1>7. ASSUME NEW j \in 1..Len(drawn')
        PROVE  drawn'[j] = j - 1
    <2>1. CASE j = Len(drawn) + 1
      <3>1. drawn'[j] = Head(q)
        BY <1>6, <2>1
      <3> QED BY <1>1, <1>4, <2>1, <3>1
    <2>2. CASE j \in 1..Len(drawn)
      <3>1. j # Len(drawn) + 1 /\ drawn'[j] = drawn[j]
        BY <1>1, <1>6, <2>2
      <3>2. drawn[j] = j - 1
        BY <2>2 DEF CapstoneRing
      <3> QED BY <3>1, <3>2
    <2> QED BY <1>1, <1>5, <2>1, <2>2
  <1>8. ASSUME NEW j \in 1..Len(q')
        PROVE  q'[j] = Len(drawn') + j - 1
    <2>1. j + 1 \in 1..Len(q) /\ q'[j] = q[j + 1]
      BY <1>2, <1>3, SMTT(30)
    <2>2. q[j + 1] = Len(drawn) + (j + 1) - 1
      BY <2>1 DEF CapstoneRing
    <2> QED BY <1>1, <1>5, <2>1, <2>2
  <1>9. fed' \in 0..total /\ fed' = Len(drawn') + Len(q') /\ Len(q') < qcap
    BY <1>0, <1>1, <1>2, <1>5 DEF CapstoneRing
  <1>10. processed' \in Seq(Nat) => CapstoneRing'
    BY <1>2, <1>5, <1>7, <1>8, <1>9 DEF CapstoneRing
  <1> QED BY <1>0, <1>1, <1>2, <1>4, <1>5, <1>10 DEF CapstoneRing

(* The pop of the condition, after the flag: the item is lost. *)
LEMMA CapstoneCondPop ==
  ASSUME CapstoneInv, Capstone!CondPop
  PROVE  CapstoneInv'
  <1> USE DEF CapstoneInv
  <1>0. /\ booker = "cond" /\ booker' = "body"
        /\ UNCHANGED <<feeder, dropped, done, seenDone, processed>>
        /\ Capstone!Ring!Pop
    BY DEF Capstone!CondPop
  <1>1. seenDone /\ qcap \in Nat /\ Len(processed) \in Nat /\ processed \in Seq(Nat)
    BY <1>0, PipelineAssumption, LenProperties DEF CapstoneFlag, CapstoneRing
  <1>2. /\ CapstoneRing' /\ q # <<>> /\ Len(q) \in Nat /\ Len(drawn) \in Nat
        /\ Len(q') = Len(q) - 1 /\ Len(drawn') = Len(drawn) + 1 /\ fed' = fed
    BY <1>0, <1>1, CapstonePops
  <1>3. CapstoneFlag'
    BY <1>0, <1>1, <1>2 DEF CapstoneFlag
  <1>4. CapstoneLoss'
    BY <1>0, <1>1, <1>2 DEF CapstoneLoss
  <1>5. CapstoneBook'
    <2>1. \A j \in 1..Len(processed) : processed[j] \in Nat
      BY <1>1
    <2> QED BY <1>0, <1>1, <1>2, <2>1 DEF CapstoneBook
  <1> QED BY <1>2, <1>3, <1>4, <1>5

(* The pop of the body: the item reaches the book, behind the last one. *)
LEMMA CapstoneBodyPop ==
  ASSUME CapstoneInv, Capstone!BodyPop
  PROVE  CapstoneInv'
  <1> USE DEF CapstoneInv
  <1>0. /\ booker = "body" /\ booker' = "loop" /\ processed' = Append(processed, Head(q))
        /\ UNCHANGED <<feeder, dropped, done, seenDone>>
        /\ Capstone!Ring!Pop
    BY DEF Capstone!BodyPop
  <1>1. qcap \in Nat /\ Len(processed) \in Nat /\ processed \in Seq(Nat)
    BY PipelineAssumption, LenProperties DEF CapstoneRing
  <1>2. /\ q # <<>> /\ Len(q) \in Nat /\ Len(drawn) \in Nat /\ Head(q) = Len(drawn) /\ Len(q) >= 1
        /\ Len(q') = Len(q) - 1 /\ Len(drawn') = Len(drawn) + 1 /\ fed' = fed
        /\ drawn' = Append(drawn, Len(drawn))
        /\ processed' \in Seq(Nat) => CapstoneRing'
    BY <1>0, CapstonePops
  <1>3. processed' \in Seq(Nat) /\ Len(processed') = Len(processed) + 1
    BY <1>0, <1>1, <1>2, Appended
  <1>4. CapstoneFlag'
    BY <1>0, <1>2 DEF CapstoneFlag
  <1>5. CapstoneLoss'
    <2>1. ~seenDone => processed' = drawn'
      BY <1>0, <1>2 DEF CapstoneLoss
    <2> QED BY <1>0, <1>1, <1>2, <1>3, <2>1 DEF CapstoneLoss
  <1>6. processed'[Len(processed) + 1] = Len(drawn)
        /\ \A j \in 1..Len(processed) : processed'[j] = processed[j]
    BY <1>0, <1>1, <1>2, AppendProperties
  <1>7. ASSUME NEW j \in 1..Len(processed')
        PROVE  processed'[j] < Len(drawn')
    <2>1. CASE j = Len(processed) + 1
      BY <1>2, <1>6, <2>1
    <2>2. CASE j \in 1..Len(processed)
      <3>1. processed'[j] = processed[j] /\ processed[j] < Len(drawn) /\ processed[j] \in Nat
        BY <1>1, <1>6, <2>2 DEF CapstoneBook
      <3> QED BY <1>2, <3>1
    <2> QED BY <1>1, <1>3, <2>1, <2>2
  <1>8. ASSUME NEW j \in 1..Len(processed') - 1
        PROVE  processed'[j] < processed'[j + 1]
    <2>1. j \in 1..Len(processed) /\ processed'[j] = processed[j] /\ processed[j] < Len(drawn)
      BY <1>1, <1>3, <1>6 DEF CapstoneBook
    <2>2. CASE j = Len(processed)
      BY <1>6, <2>1, <2>2
    <2>3. CASE j \in 1..Len(processed) - 1
      <3>1. j + 1 \in 1..Len(processed)
        BY <1>1, <2>3
      <3>2. processed'[j + 1] = processed[j + 1]
        BY <1>6, <3>1
      <3> QED BY <2>1, <2>3, <3>2 DEF CapstoneBook
    <2> QED BY <1>1, <2>1, <2>2, <2>3
  <1> QED BY <1>2, <1>3, <1>4, <1>5, <1>7, <1>8 DEF CapstoneBook

(* The steps of the consumer that leave the ring and the book alone. *)
LEMMA CapstoneTests ==
  ASSUME CapstoneInv,
         Capstone!LoopNotDone \/ Capstone!LoopDone \/ Capstone!CondEmpty \/ Capstone!BodyYield
  PROVE  CapstoneInv'
  <1> USE DEF CapstoneInv
  <1>1. UNCHANGED <<q, fed, drawn, feeder, done, processed>>
    BY DEF Capstone!LoopNotDone, Capstone!LoopDone, Capstone!CondEmpty, Capstone!BodyYield
  <1>2. qcap \in Nat /\ Len(processed) \in Nat /\ Len(q) \in Nat /\ Len(drawn) \in Nat /\ Len(q) < qcap
    BY PipelineAssumption, LenProperties DEF CapstoneRing
  <1>3. CapstoneRing' /\ CapstoneBook'
    BY <1>1 DEF CapstoneRing, CapstoneBook
  <1>4. CapstoneFlag'
    BY <1>1 DEF CapstoneFlag, Capstone!LoopNotDone, Capstone!LoopDone, Capstone!CondEmpty,
                Capstone!BodyYield
  <1>5. CASE Capstone!LoopNotDone
    BY <1>1, <1>2, <1>3, <1>4, <1>5 DEF CapstoneLoss, Capstone!LoopNotDone
  <1>6. CASE Capstone!LoopDone
    BY <1>1, <1>2, <1>3, <1>4, <1>6 DEF CapstoneLoss, Capstone!LoopDone
  <1>7. CASE Capstone!CondEmpty \/ Capstone!BodyYield
    <2>1. q = <<>> /\ seenDone' = seenDone /\ booker' # "body"
      BY <1>7 DEF Capstone!CondEmpty, Capstone!BodyYield
    <2> QED BY <1>1, <1>2, <1>3, <1>4, <2>1 DEF CapstoneLoss
  <1> QED BY <1>5, <1>6, <1>7

(* The invariant of the pipeline holds whatever program runs. *)
LEMMA CapstoneInvariance == Programs => []CapstoneInv
  <1>1. CapstoneInv /\ [ProgramStep]_allVars => CapstoneInv'
    <2> SUFFICES ASSUME CapstoneInv, [Capstone!Next]_capstoneVars PROVE CapstoneInv'
      BY CapstoneAlone
    <2>1. CASE Capstone!Producer
      BY <2>1, CapstonePush, CapstoneProducer DEF Capstone!Producer
    <2>2. CASE Capstone!Consumer
      BY <2>2, CapstoneCondPop, CapstoneBodyPop, CapstoneTests DEF Capstone!Consumer
    <2>3. CASE UNCHANGED capstoneVars
      BY <2>3 DEF capstoneVars, CapstoneInv, CapstoneRing, CapstoneFlag, CapstoneLoss, CapstoneBook
    <2> QED BY <2>1, <2>2, <2>3 DEF Capstone!Next, Capstone!Joined, Capstone!vars, capstoneVars
  <1> QED BY CapstoneInit, <1>1, PTL DEF Programs

(* Up to the flag nothing is lost, and the drain loop loses at most half   *)
(* of a full ring, rounded up: for every ring size and number of updates.  *)
THEOREM OnlyTheDrainLoses == Programs => []LossOnlyInDrain
  <1>1. CapstoneInv => LossOnlyInDrain
    BY DEF CapstoneInv, CapstoneLoss, LossOnlyInDrain, Capstone!LossOnlyInDrain
  <1> QED BY <1>1, CapstoneInvariance, PTL

----------------------------------------------------------------------------
(* waitfree_spsc_queue: who may use the value of a slot.                   *)

Stamped == [val : BOOLEAN, clk : Nat]
WaitFreeTypes ==
  /\ ready \in [WaitFree!Slots -> Stamped]
  /\ wrAt \in [WaitFree!Slots -> Nat] /\ rdAt \in [WaitFree!Slots -> Nat]
  /\ write_idx \in WaitFree!Slots /\ read_idx \in WaitFree!Slots
  /\ pclk \in Nat /\ cclk \in Nat /\ hbR \in Nat /\ hbW \in Nat
  /\ pp \in {"check", "write", "ready", "advance"}
  /\ cp \in {"check", "read", "clear", "advance"}
(* The flag tells the two threads apart: the producer is between its test  *)
(* and its store only at a slot that is not ready, the consumer only at    *)
(* one that is.                                                            *)
FlagGuards ==
  /\ pp \in {"write", "ready"} => ~ready[write_idx].val
  /\ cp \in {"read", "clear"} => ready[read_idx].val
(* The clock of a flag covers the last use of the thread that stored it,   *)
(* and the view of a thread that uses the value covers the other's.        *)
FlagClocks ==
  /\ \A s \in WaitFree!Slots : ready[s].val => wrAt[s] <= ready[s].clk
  /\ \A s \in WaitFree!Slots : ~ready[s].val => rdAt[s] <= ready[s].clk
  /\ pp = "ready" => wrAt[write_idx] <= pclk
  /\ cp = "clear" => rdAt[read_idx] <= cclk
  /\ pp = "write" => rdAt[write_idx] <= hbR
  /\ cp = "read" => wrAt[read_idx] <= hbW
FlagInv == WaitFreeTypes /\ FlagGuards /\ FlagClocks

(* The other programs leave the wait-free queue alone. *)
LEMMA WaitFreeAlone ==
  ASSUME [ProgramStep]_allVars
  PROVE  [WaitFree!Next]_waitFreeVars
  BY DEF ProgramStep, allVars, rings, LockRuns, QueueRuns, LoggerRuns, PoolRuns, WaitFreeRuns,
         CapstoneRuns, RingDemoRuns, DoubleRuns, StackRuns, ServerRuns, ClientsRun, ForkRuns, PingRuns

(* An index stays on a slot. *)
LEMMA SuccSlot ==
  ASSUME NEW s \in WaitFree!Slots
  PROVE  WaitFree!Succ(s) \in WaitFree!Slots
  BY WaitFreeAssumption DEF WaitFree!Slots, WaitFree!Succ

(* The later of two clocks. *)
LEMMA JoinValue ==
  ASSUME NEW a \in Nat, NEW b \in Nat
  PROVE  WaitFree!Join(a, b) \in Nat /\ WaitFree!Join(a, b) >= a /\ WaitFree!Join(a, b) >= b
  BY DEF WaitFree!Join

(* No slot is ready and no value was used. *)
LEMMA FlagInit == Start => FlagInv
  <1> SUFFICES ASSUME WaitFree!Init PROVE FlagInv
    BY DEF Start
  <1>1. 0 \in WaitFree!Slots
    BY WaitFreeAssumption DEF WaitFree!Slots
  <1> QED BY <1>1 DEF FlagInv, WaitFreeTypes, Stamped, FlagGuards, FlagClocks, WaitFree!Init

(* enqueue: the producer's test, its write, its store and its index. *)
LEMMA FlagPCheck ==
  ASSUME FlagInv, WaitFree!PCheck
  PROVE  FlagInv'
  <1> USE DEF FlagInv
  <1>0. /\ ~ready[write_idx].val /\ hbR' = WaitFree!Join(hbR, ready[write_idx].clk) /\ pp' = "write"
        /\ UNCHANGED <<ready, value, write_idx, i, pclk, read_idx, cp, v, hbW, cclk, out, wrAt, rdAt>>
    BY DEF WaitFree!PCheck, WaitFree!consumer
  <1>1. hbR' \in Nat /\ ready[write_idx].clk <= hbR' /\ ready[write_idx].clk \in Nat
    BY <1>0, JoinValue DEF WaitFreeTypes, Stamped
  <1>2. rdAt[write_idx] <= hbR'
    BY <1>0, <1>1 DEF WaitFreeTypes, FlagClocks
  <1> QED BY <1>0, <1>1, <1>2 DEF WaitFreeTypes, FlagGuards, FlagClocks
LEMMA FlagPWrite ==
  ASSUME FlagInv, WaitFree!PWrite
  PROVE  FlagInv'
  <1> USE DEF FlagInv
  <1>0. /\ pp = "write" /\ pclk' = pclk + 1 /\ wrAt' = [wrAt EXCEPT ![write_idx] = pclk + 1]
        /\ pp' = "ready"
        /\ UNCHANGED <<ready, write_idx, i, hbR, read_idx, cp, v, hbW, cclk, out, rdAt>>
    BY DEF WaitFree!PWrite, WaitFree!consumer
  <1>1. WaitFreeTypes' /\ FlagGuards'
    BY <1>0 DEF WaitFreeTypes, FlagGuards
  <1>2. wrAt'[write_idx] = pclk' /\ \A s \in WaitFree!Slots : ready[s].val => wrAt'[s] = wrAt[s]
    BY <1>0 DEF WaitFreeTypes, FlagGuards
  <1>3. FlagClocks'
    BY <1>0, <1>1, <1>2 DEF WaitFreeTypes, FlagGuards, FlagClocks
  <1> QED BY <1>1, <1>3
LEMMA FlagPReady ==
  ASSUME FlagInv, WaitFree!PReady
  PROVE  FlagInv'
  <1> USE DEF FlagInv
  <1>0. /\ pp = "ready" /\ pp' = "advance"
        /\ ready' = [ready EXCEPT ![write_idx] = [val |-> TRUE, clk |-> pclk]]
        /\ UNCHANGED <<write_idx, i, hbR, pclk, read_idx, cp, v, hbW, cclk, out, wrAt, rdAt>>
    BY DEF WaitFree!PReady, WaitFree!consumer
  <1>1. WaitFreeTypes' /\ FlagGuards'
    BY <1>0 DEF WaitFreeTypes, Stamped, FlagGuards
  <1>2. /\ ready'[write_idx].val /\ ready'[write_idx].clk = pclk
        /\ \A s \in WaitFree!Slots : s # write_idx => ready'[s] = ready[s]
    BY <1>0 DEF WaitFreeTypes
  <1>3. FlagClocks'
    BY <1>0, <1>1, <1>2 DEF WaitFreeTypes, FlagClocks
  <1> QED BY <1>1, <1>3
LEMMA FlagAdvance ==
  ASSUME FlagInv, WaitFree!PAdvance \/ WaitFree!CAdvance
  PROVE  FlagInv'
  <1> USE DEF FlagInv
  <1>1. CASE WaitFree!PAdvance
    BY <1>1, SuccSlot DEF WaitFree!PAdvance, WaitFree!consumer, WaitFreeTypes, FlagGuards, FlagClocks
  <1>2. CASE WaitFree!CAdvance
    BY <1>2, SuccSlot DEF WaitFree!CAdvance, WaitFree!producer, WaitFreeTypes, FlagGuards, FlagClocks
  <1> QED BY <1>1, <1>2

(* dequeue: the consumer's test, its read and its store. *)
LEMMA FlagCCheck ==
  ASSUME FlagInv, WaitFree!CCheck
  PROVE  FlagInv'
  <1> USE DEF FlagInv
  <1>0. /\ ready[read_idx].val /\ hbW' = WaitFree!Join(hbW, ready[read_idx].clk) /\ cp' = "read"
        /\ UNCHANGED <<ready, value, read_idx, v, cclk, out, write_idx, pp, i, hbR, pclk, wrAt, rdAt>>
    BY DEF WaitFree!CCheck, WaitFree!producer
  <1>1. hbW' \in Nat /\ ready[read_idx].clk <= hbW' /\ ready[read_idx].clk \in Nat
    BY <1>0, JoinValue DEF WaitFreeTypes, Stamped
  <1>2. wrAt[read_idx] <= hbW'
    BY <1>0, <1>1 DEF WaitFreeTypes, FlagClocks
  <1> QED BY <1>0, <1>1, <1>2 DEF WaitFreeTypes, FlagGuards, FlagClocks
LEMMA FlagCRead ==
  ASSUME FlagInv, WaitFree!CRead
  PROVE  FlagInv'
  <1> USE DEF FlagInv
  <1>0. /\ cp = "read" /\ cclk' = cclk + 1 /\ rdAt' = [rdAt EXCEPT ![read_idx] = cclk + 1]
        /\ cp' = "clear"
        /\ UNCHANGED <<ready, read_idx, hbW, out, write_idx, pp, i, hbR, pclk, wrAt>>
    BY DEF WaitFree!CRead, WaitFree!producer
  <1>1. WaitFreeTypes' /\ FlagGuards'
    BY <1>0 DEF WaitFreeTypes, FlagGuards
  <1>2. rdAt'[read_idx] = cclk' /\ \A s \in WaitFree!Slots : ~ready[s].val => rdAt'[s] = rdAt[s]
    BY <1>0 DEF WaitFreeTypes, FlagGuards
  <1>3. FlagClocks'
    BY <1>0, <1>1, <1>2 DEF WaitFreeTypes, FlagGuards, FlagClocks
  <1> QED BY <1>1, <1>3
LEMMA FlagCClear ==
  ASSUME FlagInv, WaitFree!CClear
  PROVE  FlagInv'
  <1> USE DEF FlagInv
  <1>0. /\ cp = "clear" /\ cp' = "advance"
        /\ ready' = [ready EXCEPT ![read_idx] = [val |-> FALSE, clk |-> cclk]]
        /\ UNCHANGED <<read_idx, hbW, cclk, write_idx, pp, i, hbR, pclk, wrAt, rdAt>>
    BY DEF WaitFree!CClear, WaitFree!producer
  <1>1. WaitFreeTypes' /\ FlagGuards'
    BY <1>0 DEF WaitFreeTypes, Stamped, FlagGuards
  <1>2. /\ ~ready'[read_idx].val /\ ready'[read_idx].clk = cclk
        /\ \A s \in WaitFree!Slots : s # read_idx => ready'[s] = ready[s]
    BY <1>0 DEF WaitFreeTypes
  <1>3. FlagClocks'
    BY <1>0, <1>1, <1>2 DEF WaitFreeTypes, FlagClocks
  <1> QED BY <1>1, <1>3

(* What the flags guard, whatever program runs. *)
LEMMA FlagInvariance == Programs => []FlagInv
  <1>1. FlagInv /\ [ProgramStep]_allVars => FlagInv'
    <2> SUFFICES ASSUME FlagInv, [WaitFree!Next]_waitFreeVars PROVE FlagInv'
      BY WaitFreeAlone
    <2>1. CASE WaitFree!Enqueue
      BY <2>1, FlagPCheck, FlagPWrite, FlagPReady, FlagAdvance DEF WaitFree!Enqueue
    <2>2. CASE WaitFree!Dequeue
      BY <2>2, FlagCCheck, FlagCRead, FlagCClear, FlagAdvance DEF WaitFree!Dequeue
    <2>3. CASE UNCHANGED waitFreeVars
      BY <2>3 DEF waitFreeVars, FlagInv, WaitFreeTypes, FlagGuards, FlagClocks
    <2> QED BY <2>1, <2>2, <2>3 DEF WaitFree!Next, WaitFree!Joined, WaitFree!vars, WaitFree!producer,
                                    WaitFree!consumer, waitFreeVars
  <1> QED BY FlagInit, <1>1, PTL DEF Programs

(* The release stores and acquire loads of a slot's flag order every use   *)
(* of its value by the two threads, for every capacity and number of items.*)
THEOREM TheFlagSuffices == Programs => []SlotRaceFree
  <1>1. FlagInv => SlotRaceFree
    BY DEF FlagInv, FlagClocks, SlotRaceFree, WaitFree!DataRaceFree
  <1> QED BY <1>1, FlagInvariance, PTL

----------------------------------------------------------------------------
(* waitfree_spsc_queue: a FIFO that uses all its slots.                    *)

(* Neither thread is more than a lap ahead, and what is on its way is the  *)
(* item whose turn it is.                                                  *)
WaitFreeOrder ==
  /\ i \in 0..Offered /\ out \in Seq(Nat) /\ v \in Nat /\ value \in [WaitFree!Slots -> Nat]
  /\ pp # "check" => i < Offered
  /\ pp \in {"write", "ready"} => i < Len(out) + Capacity
  /\ Len(out) <= WaitFree!enqueued /\ WaitFree!enqueued <= Len(out) + Capacity
  /\ cp \in {"read", "clear"} => Len(out) < WaitFree!enqueued
  /\ pp = "ready" => value[write_idx] = i
  /\ cp = "clear" => v = Len(out)
  /\ cp = "advance" => Len(out) >= 1
(* Both indices are positions in laps: the producer's of the next item to  *)
(* write, the consumer's of the next to read.                              *)
WaitFreeIndices ==
  /\ write_idx = i % Capacity
  /\ cp = "advance" => read_idx = (Len(out) - 1) % Capacity
  /\ cp # "advance" => read_idx = Len(out) % Capacity
(* The slots that are ready are those of the items not yet taken.          *)
WaitFreeSlots ==
  /\ \A j \in Len(out)..WaitFree!enqueued - 1 :
       ready[j % Capacity].val /\ value[j % Capacity] = j
  /\ \A s \in WaitFree!Slots :
       ready[s].val => \E j \in Len(out)..WaitFree!enqueued - 1 : s = j % Capacity
WaitFreeInv == FlagInv /\ WaitFreeOrder /\ WaitFreeIndices /\ WaitFreeSlots

(* The numbers of the invariant. *)
LEMMA WaitFreeNumbers ==
  ASSUME WaitFreeInv
  PROVE  /\ Len(out) \in Nat /\ Capacity \in Nat /\ Capacity >= 1 /\ i \in Nat /\ Offered \in Nat
         /\ WaitFree!enqueued \in Nat
         /\ pp = "advance" => WaitFree!enqueued = i + 1
         /\ pp # "advance" => WaitFree!enqueued = i
         /\ \A j \in Nat : j % Capacity \in WaitFree!Slots
  <1>1. Len(out) \in Nat /\ Capacity \in Nat /\ Capacity >= 1 /\ i \in Nat /\ Offered \in Nat
    BY LenProperties, WaitFreeAssumption DEF WaitFreeInv, WaitFreeOrder
  <1>2. \A j \in Nat : j % Capacity \in WaitFree!Slots
    BY <1>1, LapAdd DEF WaitFree!Slots
  <1> QED BY <1>1, <1>2 DEF WaitFree!enqueued

(* The queue starts empty. *)
LEMMA WaitFreeInit == Start => WaitFreeInv
  <1> SUFFICES ASSUME Start PROVE WaitFreeInv
    OBVIOUS
  <1>1. WaitFree!Init /\ FlagInv
    BY FlagInit DEF Start
  <1>2. 0 % Capacity = 0
    <2>1. Capacity * 0 + 0 = 0
      BY WaitFreeAssumption
    <2>2. (Capacity * 0 + 0) % Capacity = 0
      BY WaitFreeAssumption, LapUnique
    <2> QED BY <2>1, <2>2
  <1>3. Len(out) = 0 /\ out \in Seq(Nat) /\ i = 0 /\ pp = "check" /\ cp = "check" /\ v = 0
        /\ WaitFree!enqueued = 0 /\ write_idx = 0 /\ read_idx = 0
    BY <1>1 DEF WaitFree!Init, WaitFree!enqueued
  <1>4. WaitFreeOrder /\ WaitFreeIndices
    BY <1>1, <1>2, <1>3, WaitFreeAssumption DEF WaitFreeOrder, WaitFreeIndices, WaitFree!Init
  <1>5. WaitFreeSlots
    BY <1>1, <1>3 DEF WaitFreeSlots, WaitFree!Init
  <1> QED BY <1>1, <1>4, <1>5 DEF WaitFreeInv

(* enqueue finds a slot that is not ready: there is room for one more. *)
LEMMA WaitFreePCheck ==
  ASSUME WaitFreeInv, WaitFree!PCheck
  PROVE  WaitFreeOrder' /\ WaitFreeIndices' /\ WaitFreeSlots'
  <1>n. /\ Len(out) \in Nat /\ Capacity \in Nat /\ Capacity >= 1 /\ i \in Nat /\ Offered \in Nat
    BY WaitFreeNumbers
  <1>v. FlagInv /\ WaitFreeOrder /\ WaitFreeIndices /\ WaitFreeSlots
    BY DEF WaitFreeInv
  <1>0. /\ pp = "check" /\ i < Offered /\ ~ready[write_idx].val /\ pp' = "write"
        /\ UNCHANGED <<ready, value, write_idx, i, read_idx, cp, v, out>>
    BY DEF WaitFree!PCheck, WaitFree!consumer
  <1>1. WaitFree!enqueued = i /\ WaitFree!enqueued' = i
    BY <1>n, <1>v, <1>0 DEF WaitFree!enqueued
  <1>2. i < Len(out) + Capacity
    <2>0. i <= Len(out) + Capacity
      BY <1>v, <1>1 DEF WaitFreeOrder
    <2> SUFFICES ASSUME i = Len(out) + Capacity PROVE FALSE
      BY <1>n, <2>0
    <2>1. Len(out) \in Len(out)..WaitFree!enqueued - 1
      BY <1>1, <1>n
    <2>2. i % Capacity = Len(out) % Capacity
      BY <1>n, LapAdd
    <2>3. ready[Len(out) % Capacity].val
      BY <1>v, <2>1 DEF WaitFreeSlots
    <2> QED BY <1>n, <1>v, <1>0, <2>2, <2>3 DEF WaitFreeIndices
  <1>3. WaitFreeOrder'
    BY <1>n, <1>v, <1>0, <1>1, <1>2 DEF WaitFreeOrder
  <1>i. WaitFreeIndices'
    BY <1>n, <1>v, <1>0 DEF WaitFreeIndices
  <1>4. WaitFreeSlots'
    BY <1>n, <1>v, <1>0, <1>1 DEF WaitFreeSlots
  <1> QED BY <1>3, <1>4, <1>i

(* The write of a value disturbs no item of the queue. *)
LEMMA WaitFreePWrite ==
  ASSUME WaitFreeInv, WaitFree!PWrite
  PROVE  WaitFreeOrder' /\ WaitFreeIndices' /\ WaitFreeSlots'
  <1>n. /\ Len(out) \in Nat /\ Capacity \in Nat /\ Capacity >= 1 /\ i \in Nat /\ Offered \in Nat
    BY WaitFreeNumbers
  <1>v. FlagInv /\ WaitFreeOrder /\ WaitFreeIndices /\ WaitFreeSlots
    BY DEF WaitFreeInv
  <1>0. /\ pp = "write" /\ value' = [value EXCEPT ![write_idx] = i] /\ pp' = "ready"
        /\ UNCHANGED <<ready, write_idx, i, read_idx, cp, v, out>>
    BY DEF WaitFree!PWrite, WaitFree!consumer
  <1>1. WaitFree!enqueued = i /\ WaitFree!enqueued' = i /\ i \in Nat
    BY <1>0, <1>n DEF WaitFree!enqueued
  <1>2. value' \in [WaitFree!Slots -> Nat] /\ value'[write_idx] = i
    BY <1>n, <1>v, <1>0, <1>1 DEF WaitFreeOrder, FlagInv, WaitFreeTypes
  <1>3. ASSUME NEW j \in Len(out)..i - 1
        PROVE  value'[j % Capacity] = value[j % Capacity]
    <2>1. j \in Nat /\ j <= i /\ i < j + Capacity /\ j # i
      BY <1>n, <1>v, <1>0 DEF WaitFreeOrder
    <2>2. j % Capacity # write_idx
      BY <1>n, <1>v, <2>1, LapDistinct DEF WaitFreeIndices
    <2>3. j % Capacity \in WaitFree!Slots
      BY <2>1, WaitFreeNumbers
    <2> QED BY <1>n, <1>v, <1>0, <2>2, <2>3 DEF WaitFreeIndices
  <1>4. WaitFreeOrder'
    BY <1>n, <1>v, <1>0, <1>1, <1>2 DEF WaitFreeOrder
  <1>i. WaitFreeIndices'
    BY <1>n, <1>v, <1>0 DEF WaitFreeIndices
  <1>5. WaitFreeSlots'
    BY <1>n, <1>v, <1>0, <1>1, <1>3 DEF WaitFreeSlots
  <1> QED BY <1>4, <1>5, <1>i

(* The store of ready adds the item. *)
LEMMA WaitFreePReady ==
  ASSUME WaitFreeInv, WaitFree!PReady
  PROVE  WaitFreeOrder' /\ WaitFreeIndices' /\ WaitFreeSlots'
  <1>n. /\ Len(out) \in Nat /\ Capacity \in Nat /\ Capacity >= 1 /\ i \in Nat /\ Offered \in Nat
    BY WaitFreeNumbers
  <1>v. FlagInv /\ WaitFreeOrder /\ WaitFreeIndices /\ WaitFreeSlots
    BY DEF WaitFreeInv
  <1>0. /\ pp = "ready" /\ pp' = "advance"
        /\ ready' = [ready EXCEPT ![write_idx] = [val |-> TRUE, clk |-> pclk]]
        /\ UNCHANGED <<value, write_idx, i, read_idx, cp, v, out>>
    BY DEF WaitFree!PReady, WaitFree!consumer
  <1>1. WaitFree!enqueued = i /\ WaitFree!enqueued' = i + 1
    BY <1>n, <1>v, <1>0 DEF WaitFree!enqueued
  <1>2. /\ ready'[write_idx].val
        /\ \A s \in WaitFree!Slots : s # write_idx => ready'[s] = ready[s]
    BY <1>n, <1>v, <1>0 DEF FlagInv, WaitFreeTypes
  <1>3. WaitFreeOrder'
    BY <1>n, <1>v, <1>0, <1>1 DEF WaitFreeOrder
  <1>i. WaitFreeIndices'
    BY <1>n, <1>v, <1>0 DEF WaitFreeIndices
  <1>4. ASSUME NEW j \in Len(out)..i
        PROVE  ready'[j % Capacity].val /\ value[j % Capacity] = j
    <2>1. CASE j = i
      BY <1>n, <1>v, <1>0, <1>2, <2>1 DEF WaitFreeOrder, WaitFreeIndices
    <2>2. CASE j \in Len(out)..i - 1
      <3>1. ready[j % Capacity].val /\ value[j % Capacity] = j
        BY <1>n, <1>v, <1>1, <2>2 DEF WaitFreeSlots
      <3>2. j % Capacity \in WaitFree!Slots
        BY <1>n, <2>2, WaitFreeNumbers
      <3> QED BY <1>2, <3>1, <3>2
    <2> QED BY <2>1, <2>2, <1>n
  <1>5. ASSUME NEW s \in WaitFree!Slots, ready'[s].val
        PROVE  \E j \in Len(out)..i : s = j % Capacity
    <2>1. CASE s = write_idx
      <3>1. i \in Len(out)..i
        BY <1>n, <1>v, <1>1 DEF WaitFreeOrder
      <3>2. s = i % Capacity
        BY <1>v, <2>1 DEF WaitFreeIndices
      <3> QED BY <3>1, <3>2
    <2>2. CASE s # write_idx
      <3>1. PICK j \in Len(out)..i - 1 : s = j % Capacity
        BY <1>n, <1>v, <1>1, <1>2, <1>5, <2>2 DEF WaitFreeSlots
      <3> QED BY <3>1, <1>n
    <2> QED BY <2>1, <2>2
  <1>6. WaitFreeSlots'
    <2>1. WaitFree!enqueued' - 1 = i
      BY <1>1, <1>n
    <2> QED BY <1>n, <1>v, <1>0, <1>4, <1>5, <2>1 DEF WaitFreeSlots
  <1> QED BY <1>3, <1>6, <1>i

(* The indices move on by one slot. *)
LEMMA WaitFreeAdvance ==
  ASSUME WaitFreeInv, WaitFree!PAdvance \/ WaitFree!CAdvance
  PROVE  WaitFreeOrder' /\ WaitFreeIndices' /\ WaitFreeSlots'
  <1>n. /\ Len(out) \in Nat /\ Capacity \in Nat /\ Capacity >= 1 /\ i \in Nat /\ Offered \in Nat
    BY WaitFreeNumbers
  <1>v. FlagInv /\ WaitFreeOrder /\ WaitFreeIndices /\ WaitFreeSlots
    BY DEF WaitFreeInv
  <1>1. UNCHANGED <<ready, value, v, out>> /\ WaitFree!enqueued' = WaitFree!enqueued
    BY DEF WaitFree!PAdvance, WaitFree!CAdvance, WaitFree!enqueued, WaitFree!consumer, WaitFree!producer
  <1>2. WaitFreeSlots'
    BY <1>v, <1>1 DEF WaitFreeSlots
  <1>3. CASE WaitFree!PAdvance
    <2>0. /\ pp = "advance" /\ pp' = "check" /\ i' = i + 1 /\ write_idx' = WaitFree!Succ(write_idx)
          /\ UNCHANGED <<read_idx, cp>>
      BY <1>3 DEF WaitFree!PAdvance, WaitFree!consumer
    <2>1. WaitFreeOrder'
      BY <1>n, <1>v, <1>1, <2>0 DEF WaitFreeOrder
    <2>2. write_idx' = (i + 1) % Capacity
      <3>1. (i + 1) % Capacity = ((i % Capacity) + 1) % Capacity
        BY <1>n, LapAdd
      <3> QED BY <1>v, <2>0, <3>1 DEF WaitFreeIndices, WaitFree!Succ
    <2>3. WaitFreeIndices'
      BY <1>v, <1>1, <2>0, <2>2 DEF WaitFreeIndices
    <2> QED BY <1>2, <2>1, <2>3
  <1>4. CASE WaitFree!CAdvance
    <2>0. /\ cp = "advance" /\ cp' = "check" /\ read_idx' = WaitFree!Succ(read_idx)
          /\ UNCHANGED <<write_idx, pp, i>>
      BY <1>4 DEF WaitFree!CAdvance, WaitFree!producer
    <2>1. WaitFreeOrder'
      BY <1>n, <1>v, <1>1, <2>0 DEF WaitFreeOrder
    <2>2. read_idx' = Len(out) % Capacity
      <3>1. Len(out) - 1 \in Nat /\ Len(out) = (Len(out) - 1) + 1
        BY <1>n, <1>v, <2>0 DEF WaitFreeOrder
      <3>2. \A x \in Nat : (x + 1) % Capacity = ((x % Capacity) + 1) % Capacity
        BY <1>n, LapAdd
      <3>3. Len(out) % Capacity = (((Len(out) - 1) % Capacity) + 1) % Capacity
        BY <3>1, <3>2
      <3> QED BY <1>v, <2>0, <3>3 DEF WaitFreeIndices, WaitFree!Succ
    <2>3. WaitFreeIndices'
      BY <1>v, <1>1, <2>0, <2>2 DEF WaitFreeIndices
    <2> QED BY <1>2, <2>1, <2>3
  <1> QED BY <1>3, <1>4

(* dequeue finds a ready slot: there is an item, and it is read. *)
LEMMA WaitFreeCCheck ==
  ASSUME WaitFreeInv, WaitFree!CCheck
  PROVE  WaitFreeOrder' /\ WaitFreeIndices' /\ WaitFreeSlots'
  <1>n. Len(out) \in Nat /\ WaitFree!enqueued \in Nat
    BY WaitFreeNumbers
  <1>v. FlagInv /\ WaitFreeOrder /\ WaitFreeIndices /\ WaitFreeSlots
    BY DEF WaitFreeInv
  <1>0. /\ cp = "check" /\ ready[read_idx].val /\ cp' = "read"
        /\ UNCHANGED <<ready, value, read_idx, v, out, write_idx, pp, i>>
    BY DEF WaitFree!CCheck, WaitFree!producer
  <1>1. WaitFree!enqueued' = WaitFree!enqueued
    BY <1>0 DEF WaitFree!enqueued
  <1>2. Len(out) < WaitFree!enqueued
    <2>1. read_idx \in WaitFree!Slots
      BY <1>v DEF FlagInv, WaitFreeTypes
    <2>2. \E j \in Len(out)..WaitFree!enqueued - 1 : read_idx = j % Capacity
      BY <1>v, <1>0, <2>1 DEF WaitFreeSlots
    <2> QED BY <1>n, <2>2
  <1>3. WaitFreeOrder'
    BY <1>v, <1>0, <1>1, <1>2 DEF WaitFreeOrder
  <1>4. WaitFreeIndices' /\ WaitFreeSlots'
    BY <1>v, <1>0, <1>1 DEF WaitFreeIndices, WaitFreeSlots
  <1> QED BY <1>3, <1>4
LEMMA WaitFreeCRead ==
  ASSUME WaitFreeInv, WaitFree!CRead
  PROVE  WaitFreeOrder' /\ WaitFreeIndices' /\ WaitFreeSlots'
  <1>n. Len(out) \in Nat /\ WaitFree!enqueued \in Nat
    BY WaitFreeNumbers
  <1>v. FlagInv /\ WaitFreeOrder /\ WaitFreeIndices /\ WaitFreeSlots
    BY DEF WaitFreeInv
  <1>0. /\ cp = "read" /\ v' = value[read_idx] /\ cp' = "clear"
        /\ UNCHANGED <<ready, value, read_idx, out, write_idx, pp, i>>
    BY DEF WaitFree!CRead, WaitFree!producer
  <1>1. WaitFree!enqueued' = WaitFree!enqueued
    BY <1>0 DEF WaitFree!enqueued
  <1>2. v' = Len(out)
    <2>1. Len(out) \in Len(out)..WaitFree!enqueued - 1
      BY <1>n, <1>v, <1>0 DEF WaitFreeOrder
    <2>2. value[Len(out) % Capacity] = Len(out)
      BY <1>v, <2>1 DEF WaitFreeSlots
    <2> QED BY <1>v, <1>0, <2>2 DEF WaitFreeIndices
  <1>3. WaitFreeOrder'
    BY <1>n, <1>v, <1>0, <1>1, <1>2 DEF WaitFreeOrder
  <1>4. WaitFreeIndices' /\ WaitFreeSlots'
    BY <1>v, <1>0, <1>1 DEF WaitFreeIndices, WaitFreeSlots
  <1> QED BY <1>3, <1>4

(* The store that clears ready removes the first item. *)
LEMMA WaitFreeCClear ==
  ASSUME WaitFreeInv, WaitFree!CClear
  PROVE  /\ WaitFreeOrder' /\ WaitFreeIndices' /\ WaitFreeSlots'
         /\ Len(out') = Len(out) + 1
  <1>n. /\ Len(out) \in Nat /\ Capacity \in Nat /\ Capacity >= 1 /\ i \in Nat /\ Offered \in Nat
        /\ WaitFree!enqueued \in Nat
    BY WaitFreeNumbers
  <1>v. FlagInv /\ WaitFreeOrder /\ WaitFreeIndices /\ WaitFreeSlots
    BY DEF WaitFreeInv
  <1>0. /\ cp = "clear" /\ out' = Append(out, v) /\ cp' = "advance"
        /\ ready' = [ready EXCEPT ![read_idx] = [val |-> FALSE, clk |-> cclk]]
        /\ UNCHANGED <<value, read_idx, v, write_idx, pp, i>>
    BY DEF WaitFree!CClear, WaitFree!producer
  <1>1. WaitFree!enqueued' = WaitFree!enqueued
    BY <1>0 DEF WaitFree!enqueued
  <1>2. out' \in Seq(Nat) /\ Len(out') = Len(out) + 1
    BY <1>v, <1>0, Appended DEF WaitFreeOrder
  <1>3. Len(out) < WaitFree!enqueued /\ WaitFree!enqueued <= Len(out) + Capacity
    BY <1>v, <1>0 DEF WaitFreeOrder
  <1>4. read_idx = Len(out) % Capacity
    BY <1>v, <1>0 DEF WaitFreeIndices
  <1>5. /\ ~ready'[read_idx].val
        /\ \A s \in WaitFree!Slots : s # read_idx => ready'[s] = ready[s]
    BY <1>v, <1>0 DEF FlagInv, WaitFreeTypes
  <1>6. WaitFreeOrder'
    BY <1>n, <1>v, <1>0, <1>1, <1>2, <1>3 DEF WaitFreeOrder
  <1>7. WaitFreeIndices'
    <2>1. Len(out') - 1 = Len(out)
      BY <1>n, <1>2
    <2> QED BY <1>v, <1>0, <1>4, <2>1 DEF WaitFreeIndices
  <1>8. ASSUME NEW j \in Len(out) + 1..WaitFree!enqueued - 1
        PROVE  ready'[j % Capacity].val /\ value[j % Capacity] = j
    <2>1. j \in Nat /\ Len(out) <= j /\ j < Len(out) + Capacity /\ j # Len(out)
          /\ j \in Len(out)..WaitFree!enqueued - 1
      BY <1>n, <1>3
    <2>2. j % Capacity # read_idx
      BY <1>n, <1>4, <2>1, LapDistinct
    <2>3. j % Capacity \in WaitFree!Slots
      BY <2>1, WaitFreeNumbers
    <2>4. ready[j % Capacity].val /\ value[j % Capacity] = j
      BY <1>v, <2>1 DEF WaitFreeSlots
    <2> QED BY <1>5, <2>2, <2>3, <2>4
  <1>9. ASSUME NEW s \in WaitFree!Slots, ready'[s].val
        PROVE  \E j \in Len(out) + 1..WaitFree!enqueued - 1 : s = j % Capacity
    <2>1. s # read_idx /\ ready[s].val
      BY <1>5, <1>9
    <2>2. PICK j \in Len(out)..WaitFree!enqueued - 1 : s = j % Capacity
      BY <1>v, <2>1 DEF WaitFreeSlots
    <2>3. j # Len(out)
      BY <1>4, <2>1, <2>2
    <2>4. j \in Len(out) + 1..WaitFree!enqueued - 1
      BY <1>n, <2>3
    <2> QED BY <2>2, <2>4
  <1>10. WaitFreeSlots'
    BY <1>0, <1>1, <1>2, <1>8, <1>9 DEF WaitFreeSlots
  <1> QED BY <1>2, <1>6, <1>7, <1>10

(* The two threads keep the invariant, whatever program runs. *)
LEMMA WaitFreeInvariance == Programs => []WaitFreeInv
  <1>1. FlagInv' /\ WaitFreeInv /\ [ProgramStep]_allVars => WaitFreeInv'
    <2> SUFFICES ASSUME FlagInv', WaitFreeInv, [WaitFree!Next]_waitFreeVars PROVE WaitFreeInv'
      BY WaitFreeAlone
    <2>1. CASE WaitFree!Enqueue
      BY <2>1, WaitFreePCheck, WaitFreePWrite, WaitFreePReady, WaitFreeAdvance
      DEF WaitFree!Enqueue, WaitFreeInv
    <2>2. CASE WaitFree!Dequeue
      BY <2>2, WaitFreeCCheck, WaitFreeCRead, WaitFreeCClear, WaitFreeAdvance
      DEF WaitFree!Dequeue, WaitFreeInv
    <2>3. CASE UNCHANGED waitFreeVars
      BY <2>3 DEF waitFreeVars, WaitFreeInv, WaitFreeOrder, WaitFreeIndices, WaitFreeSlots,
                  WaitFree!enqueued
    <2> QED BY <2>1, <2>2, <2>3 DEF WaitFree!Next, WaitFree!Joined, WaitFree!vars, WaitFree!producer,
                                    WaitFree!consumer, waitFreeVars
  <1> QED BY WaitFreeInit, FlagInvariance, <1>1, PTL DEF Programs

----------------------------------------------------------------------------
(* Both queues implement BoundedFifo.                                      *)

(* What the ready slots hold, by position. *)
InTransit == [k3 \in 1..WaitFree!enqueued - Len(out) |-> Len(out) + k3 - 1]

LEMMA InTransitSeq ==
  ASSUME WaitFreeInv
  PROVE  InTransit \in Seq(Nat) /\ Len(InTransit) = WaitFree!enqueued - Len(out)
  <1>1. Len(out) \in Nat /\ WaitFree!enqueued \in Nat /\ Len(out) <= WaitFree!enqueued
    BY WaitFreeNumbers DEF WaitFreeInv, WaitFreeOrder
  <1>2. InTransit \in [1..WaitFree!enqueued - Len(out) -> Nat] /\ WaitFree!enqueued - Len(out) \in Nat
    BY <1>1 DEF InTransit
  <1> QED BY <1>2, SeqDef, LenProperties

(* The content of the abstract queue. *)
LEMMA ContentInTransit == WaitFreeInv => WaitFree!Content = InTransit
  <1> SUFFICES ASSUME WaitFreeInv PROVE WaitFree!Content = InTransit
    OBVIOUS
  <1>1. Len(out) \in Nat /\ WaitFree!enqueued \in Nat
    BY WaitFreeNumbers
  <1>2. ASSUME NEW k3 \in 1..WaitFree!enqueued - Len(out)
        PROVE  value[(Len(out) + k3 - 1) % Capacity] = Len(out) + k3 - 1
    <2>1. Len(out) + k3 - 1 \in Len(out)..WaitFree!enqueued - 1
      BY <1>1
    <2> QED BY <2>1 DEF WaitFreeInv, WaitFreeSlots
  <1> QED BY <1>2 DEF WaitFree!Content, InTransit

(* The same of the next state. *)
LEMMA ContentInTransitNext == WaitFreeInv' => WaitFree!Content' = InTransit'
  <1>1. WaitFreeInv' => (WaitFree!Content = InTransit)'
    BY ContentInTransit, PTL
  <1> QED BY <1>1

(* The store that sets ready is the abstract push. *)
LEMMA ReadyIsPush ==
  ASSUME WaitFreeInv, WaitFreeInv', WaitFree!PReady
  PROVE  WaitFree!Fifo!Push
  <1>1. /\ Len(out) \in Nat /\ Capacity \in Nat /\ i \in Nat /\ Offered \in Nat
        /\ WaitFree!enqueued = i /\ i < Offered /\ i < Len(out) + Capacity /\ Len(out) <= i
        /\ WaitFree!enqueued' = i + 1 /\ out' = out
    BY WaitFreeNumbers
    DEF WaitFree!PReady, WaitFree!consumer, WaitFreeInv, WaitFreeOrder, WaitFree!enqueued
  <1>2. /\ WaitFree!Content = InTransit /\ WaitFree!Content' = InTransit'
        /\ InTransit \in Seq(Nat) /\ Len(InTransit) = i - Len(out)
    BY <1>1, ContentInTransit, ContentInTransitNext, InTransitSeq
  <1>3. InTransit' = Append(InTransit, i)
    BY <1>1, <1>2 DEF InTransit
  <1> QED BY <1>1, <1>2, <1>3 DEF WaitFree!Fifo!Push

(* The store that clears it is the abstract pop. *)
LEMMA ClearIsPop ==
  ASSUME WaitFreeInv, WaitFreeInv', WaitFree!CClear
  PROVE  WaitFree!Fifo!Pop
  <1>1. /\ Len(out) \in Nat /\ WaitFree!enqueued \in Nat /\ Len(out) < WaitFree!enqueued
        /\ v = Len(out) /\ WaitFree!enqueued' = WaitFree!enqueued /\ out' = Append(out, v)
        /\ Len(out') = Len(out) + 1
    BY WaitFreeNumbers, WaitFreeCClear
    DEF WaitFree!CClear, WaitFree!producer, WaitFreeInv, WaitFreeOrder, WaitFree!enqueued
  <1>2. /\ WaitFree!Content = InTransit /\ WaitFree!Content' = InTransit'
        /\ InTransit \in Seq(Nat) /\ Len(InTransit) = WaitFree!enqueued - Len(out)
    BY ContentInTransit, ContentInTransitNext, InTransitSeq
  <1>3. InTransit # <<>> /\ Head(InTransit) = v
    BY <1>1, <1>2 DEF InTransit
  <1>4. InTransit' = Tail(InTransit)
    <2> DEFINE t == Tail(InTransit)
               d == WaitFree!enqueued - Len(out) - 1
    <2>1. /\ t \in Seq(Nat) /\ Len(t) = d
          /\ \A j \in 1..d : t[j] = InTransit[j + 1]
      BY <1>1, <1>2, <1>3, HeadTailProperties
    <2>2. \A j \in 1..d : InTransit[j + 1] = Len(out) + j
      BY <1>1 DEF InTransit
    <2>3. InTransit' = [j \in 1..d |-> Len(out) + j]
      BY <1>1 DEF InTransit
    <2>4. t = [j \in 1..d |-> t[j]]
      BY <2>1, LenProperties
    <2> HIDE DEF t, d
    <2> QED BY <2>1, <2>2, <2>3, <2>4 DEF t
  <1> QED BY <1>1, <1>2, <1>3, <1>4 DEF WaitFree!Fifo!Pop

(* All other steps leave the abstract queue as it is. *)
LEMMA WaitFreeStep ==
  ASSUME WaitFreeInv, WaitFreeInv', [WaitFree!Next]_waitFreeVars
  PROVE  [WaitFree!Fifo!Next]_(WaitFree!Fifo!vars)
  <1>1. CASE WaitFree!PReady
    BY <1>1, ReadyIsPush DEF WaitFree!Fifo!Next
  <1>2. CASE WaitFree!CClear
    BY <1>2, ClearIsPop DEF WaitFree!Fifo!Next
  <1>3. CASE WaitFree!enqueued' = WaitFree!enqueued /\ out' = out
    <2>1. InTransit' = InTransit
      BY <1>3 DEF InTransit
    <2>2. WaitFree!Content' = WaitFree!Content
      BY <2>1, ContentInTransit, ContentInTransitNext
    <2> QED BY <1>3, <2>2 DEF WaitFree!Fifo!vars
  <1> QED BY <1>1, <1>2, <1>3
      DEF WaitFree!Next, WaitFree!Enqueue, WaitFree!Dequeue, WaitFree!PCheck, WaitFree!PWrite,
          WaitFree!PAdvance, WaitFree!CCheck, WaitFree!CRead, WaitFree!CAdvance, WaitFree!Joined,
          WaitFree!vars, WaitFree!producer, WaitFree!consumer, waitFreeVars, WaitFree!enqueued

(* The monitor's push and pop are those of the abstract queue, which is    *)
(* never full.                                                             *)
LEMMA QueueStep ==
  ASSUME QueueInv, [Queue!Next]_queueVars
  PROVE  [Queue!Fifo!Next]_(Queue!Fifo!vars)
  <1>1. CASE Queue!push
    <2>1. Len(items) < Items
      BY <1>1, ConsumersAssumption, LenProperties DEF QueueInv, Queue!push
    <2> QED BY <1>1, <2>1 DEF Queue!push, Queue!Fifo!Push, Queue!Fifo!Next
  <1>2. CASE Queue!Take
    BY <1>2 DEF Queue!Take, Queue!Fifo!Pop, Queue!Fifo!Next
  <1>3. CASE UNCHANGED <<items, pushed, popped>>
    BY <1>3 DEF Queue!Fifo!vars
  <1> QED BY <1>1, <1>2, <1>3
      DEF Queue!Next, Queue!Producer, Queue!set_done, Queue!wait_and_pop, Queue!Waits, Queue!Leaves,
          Queue!Pops, Queue!try_pop, Queue!Spurious, Queue!Joined, Queue!vars, queueVars

(* For any number of consumers, pollers and items the thread-safe queue is *)
(* a FIFO, and for any capacity the wait-free queue is one with room for   *)
(* an item in every slot, atomic at the two stores of the flag.            *)
THEOREM QueuesImplementFifo == Programs => QueuesAreFifo
  <1>1. Start => Queue!Fifo!Init /\ WaitFree!Fifo!Init
    <2> SUFFICES ASSUME Start PROVE Queue!Fifo!Init /\ WaitFree!Fifo!Init
      OBVIOUS
    <2>1. WaitFree!Content = <<>>
      BY DEF Start, WaitFree!Init, WaitFree!Content, WaitFree!enqueued
    <2> QED BY <2>1 DEF Start, Queue!Init, Queue!Fifo!Init, WaitFree!Init, WaitFree!Fifo!Init,
                        WaitFree!enqueued
  <1>2. QueueInv /\ [ProgramStep]_allVars => [Queue!Fifo!Next]_(Queue!Fifo!vars)
    BY QueueStep, QueueAlone
  <1>3. WaitFreeInv /\ WaitFreeInv' /\ [ProgramStep]_allVars
          => [WaitFree!Fifo!Next]_(WaitFree!Fifo!vars)
    BY WaitFreeStep, WaitFreeAlone
  <1> QED BY <1>1, <1>2, <1>3, QueueInvariance, WaitFreeInvariance, PTL
      DEF Programs, QueuesAreFifo, Queue!ImplementsFifo, WaitFree!ImplementsFifo,
          Queue!Fifo!Safety, WaitFree!Fifo!Safety

----------------------------------------------------------------------------
(* async_logger: the output.                                               *)

LogCalls == [by : Loggers, n : Nat, empty : BOOLEAN]
LoggerTypes ==
  /\ queue \in Seq(LogCalls) /\ logged \in Seq(LogCalls) /\ printed \in Seq(LogCalls)
  /\ logs \in [Loggers -> 0..Logs]
  /\ wp \in {"lock", "print", "exit"} /\ (wp = "print" => msg \in LogCalls)
(* The destructor runs after the last call, and the worker leaves an empty *)
(* queue.                                                                  *)
LoggerEnds ==
  /\ done_ => \A t \in Loggers : logs[t] = Logs
  /\ wp = "exit" => done_ /\ queue = <<>>
  /\ joined => wp = "exit"
(* mark tells for every place of the queue how many messages that are not  *)
(* empty were logged up to it: they are the ones that follow what the      *)
(* worker has printed or holds, and the last place has them all.           *)
LoggerMarks(mark) ==
  /\ mark \in [0..Len(queue) -> 0..Len(logged)]
  /\ wp = "print" /\ ~msg.empty => mark[0] = Len(printed) + 1 /\ logged[mark[0]] = msg
  /\ wp # "print" \/ msg.empty => mark[0] = Len(printed)
  /\ \A j \in 1..Len(queue) :
       /\ queue[j].empty => mark[j] = mark[j - 1]
       /\ ~queue[j].empty => mark[j] = mark[j - 1] + 1 /\ logged[mark[j]] = queue[j]
  /\ mark[Len(queue)] = Len(logged)
LoggerOutput ==
  /\ Len(printed) <= Len(logged)
  /\ \A j \in 1..Len(printed) : printed[j] = logged[j]
LoggerOrder == LoggerTypes /\ LoggerEnds /\ LoggerOutput /\ \E mark : LoggerMarks(mark)

(* The lengths of the three sequences. *)
LEMMA LoggerLengths ==
  ASSUME LoggerTypes
  PROVE  Len(queue) \in Nat /\ Len(logged) \in Nat /\ Len(printed) \in Nat /\ Logs \in Nat
  BY LenProperties, LoggersAssumption DEF LoggerTypes

(* Nothing is logged yet. *)
LEMMA LoggerStart == Start => LoggerOrder
  <1> SUFFICES ASSUME Logger!Init PROVE LoggerOrder
    BY DEF Start
  <1>1. /\ queue = <<>> /\ logged = <<>> /\ printed = <<>> /\ wp = "lock" /\ ~joined /\ ~done_
        /\ logs = [t \in Loggers |-> 0]
    BY DEF Logger!Init
  <1>2. /\ Len(queue) = 0 /\ Len(logged) = 0 /\ Len(printed) = 0
        /\ queue \in Seq(LogCalls) /\ logged \in Seq(LogCalls) /\ printed \in Seq(LogCalls)
    BY <1>1
  <1>3. LoggerTypes /\ LoggerEnds /\ LoggerOutput
    BY <1>1, <1>2, LoggersAssumption DEF LoggerTypes, LoggerEnds, LoggerOutput
  <1>4. LoggerMarks([j \in 0..0 |-> 0])
    BY <1>1, <1>2 DEF LoggerMarks
  <1> QED BY <1>3, <1>4 DEF LoggerOrder

(* A call puts a message behind the others, in the queue and in the order. *)
LEMMA LoggerLogs ==
  ASSUME LoggerOrder, NEW t \in Loggers, Logger!log(t)
  PROVE  LoggerOrder'
  <1>v. LoggerTypes /\ LoggerEnds /\ LoggerOutput
    BY DEF LoggerOrder
  <1>n. Len(queue) \in Nat /\ Len(logged) \in Nat /\ Len(printed) \in Nat /\ Logs \in Nat
    BY <1>v, LoggerLengths
  <1>0. PICK e \in BOOLEAN :
          /\ queue' = Append(queue, [by |-> t, n |-> logs[t], empty |-> e])
          /\ logged' = IF e THEN logged ELSE Append(logged, [by |-> t, n |-> logs[t], empty |-> e])
    BY DEF Logger!log
  <1>1. /\ logs[t] < Logs /\ logs' = [logs EXCEPT ![t] = @ + 1]
        /\ UNCHANGED <<done_, wp, msg, printed, joined>>
    BY DEF Logger!log
  <1> DEFINE m == [by |-> t, n |-> logs[t], empty |-> e]
  <1>2. m \in LogCalls /\ m.empty = e
    BY <1>v DEF LogCalls, LoggerTypes
  <1> HIDE DEF m
  <1>3. /\ queue' \in Seq(LogCalls) /\ Len(queue') = Len(queue) + 1
        /\ queue'[Len(queue) + 1] = m /\ \A j \in 1..Len(queue) : queue'[j] = queue[j]
    <2>1. queue' = Append(queue, m) /\ queue \in Seq(LogCalls)
      BY <1>v, <1>0 DEF m, LoggerTypes
    <2> QED BY <1>2, <2>1, AppendProperties
  <1>4. /\ logged' \in Seq(LogCalls) /\ \A j \in 1..Len(logged) : logged'[j] = logged[j]
        /\ e => Len(logged') = Len(logged)
        /\ ~e => Len(logged') = Len(logged) + 1 /\ logged'[Len(logged) + 1] = m
    <2>1. logged \in Seq(LogCalls)
      BY <1>v DEF LoggerTypes
    <2>2. CASE e
      BY <1>0, <2>1, <2>2
    <2>3. CASE ~e
      <3>1. logged' = Append(logged, m)
        BY <1>0, <2>3 DEF m
      <3> QED BY <1>2, <2>1, <2>3, <3>1, AppendProperties
    <2> QED BY <2>2, <2>3
  <1>5. ~done_
    BY <1>v, <1>n, <1>1 DEF LoggerEnds, LoggerTypes
  <1>6. LoggerTypes'
    BY <1>v, <1>n, <1>1, <1>3, <1>4 DEF LoggerTypes
  <1>7. LoggerEnds'
    BY <1>v, <1>1, <1>5 DEF LoggerEnds
  <1>8. LoggerOutput'
    <2>1. Len(logged) <= Len(logged') /\ Len(logged') \in Nat
      BY <1>n, <1>4
    <2> QED BY <1>v, <1>n, <1>1, <1>4, <2>1 DEF LoggerOutput
  <1>9. PICK mark : LoggerMarks(mark)
    BY DEF LoggerOrder
  <1>a. PICK g : g = [j \in 0..Len(queue) + 1 |-> IF j = Len(queue) + 1 THEN Len(logged') ELSE mark[j]]
    OBVIOUS
  <1>10. /\ Len(logged') \in Nat /\ Len(logged) <= Len(logged')
         /\ mark \in [0..Len(queue) -> 0..Len(logged)]
    BY <1>n, <1>4, <1>9 DEF LoggerMarks
  <1>11. /\ g \in [0..Len(queue') -> 0..Len(logged')]
         /\ g[Len(queue) + 1] = Len(logged')
         /\ \A j \in 0..Len(queue) : g[j] = mark[j]
    BY <1>n, <1>3, <1>10, <1>a
  <1>12. ASSUME NEW j \in 1..Len(queue')
         PROVE  /\ queue'[j].empty => g[j] = g[j - 1]
                /\ ~queue'[j].empty =>
                     g[j] = g[j - 1] + 1 /\ logged'[g[j]] = queue'[j]
    <2>1. CASE j = Len(queue) + 1
      <3>1. queue'[j] = m /\ g[j] = Len(logged') /\ g[j - 1] = mark[Len(queue)]
        BY <1>n, <1>3, <1>11, <2>1
      <3>2. mark[Len(queue)] = Len(logged)
        BY <1>9 DEF LoggerMarks
      <3> QED BY <1>2, <1>4, <3>1, <3>2
    <2>2. CASE j \in 1..Len(queue)
      <3>1. queue'[j] = queue[j] /\ g[j] = mark[j] /\ g[j - 1] = mark[j - 1]
        BY <1>n, <1>3, <1>11, <2>2
      <3>2. /\ queue[j].empty => mark[j] = mark[j - 1]
            /\ ~queue[j].empty => mark[j] = mark[j - 1] + 1 /\ logged[mark[j]] = queue[j]
        BY <1>9, <2>2 DEF LoggerMarks
      <3>3. mark[j] \in 0..Len(logged) /\ mark[j - 1] \in 0..Len(logged)
        BY <1>n, <1>10, <2>2
      <3>4. ~queue[j].empty => logged'[mark[j]] = logged[mark[j]]
        BY <1>n, <1>4, <3>2, <3>3
      <3> QED BY <3>1, <3>2, <3>4
    <2> QED BY <1>n, <1>3, <2>1, <2>2
  <1>13. /\ wp' = "print" /\ ~msg'.empty =>
              g[0] = Len(printed') + 1 /\ logged'[g[0]] = msg'
         /\ wp' # "print" \/ msg'.empty => g[0] = Len(printed')
    <2>1. g[0] = mark[0] /\ mark[0] \in 0..Len(logged)
      BY <1>n, <1>10, <1>11
    <2>2. /\ wp = "print" /\ ~msg.empty => mark[0] = Len(printed) + 1 /\ logged[mark[0]] = msg
          /\ wp # "print" \/ msg.empty => mark[0] = Len(printed)
      BY <1>9 DEF LoggerMarks
    <2>3. mark[0] # 0 => logged'[mark[0]] = logged[mark[0]]
      BY <1>n, <1>4, <2>1
    <2> QED BY <1>n, <1>1, <2>1, <2>2, <2>3
  <1>14. LoggerMarks(g)'
    BY <1>n, <1>3, <1>11, <1>12, <1>13 DEF LoggerMarks
  <1> QED BY <1>6, <1>7, <1>8, <1>14 DEF LoggerOrder

(* The worker takes the first message: the places move up by one. *)
LEMMA LoggerTakes ==
  ASSUME LoggerOrder, Logger!WorkerTakes
  PROVE  LoggerOrder'
  <1>v. LoggerTypes /\ LoggerEnds /\ LoggerOutput
    BY DEF LoggerOrder
  <1>n. Len(queue) \in Nat /\ Len(logged) \in Nat /\ Len(printed) \in Nat
    BY <1>v, LoggerLengths
  <1>0. /\ wp = "lock" /\ queue # <<>> /\ msg' = Head(queue) /\ queue' = Tail(queue) /\ wp' = "print"
        /\ UNCHANGED <<done_, logs, logged, printed, joined>>
    BY DEF Logger!WorkerTakes, Logger!Locked
  <1>1. /\ queue' \in Seq(LogCalls) /\ Len(queue') = Len(queue) - 1 /\ Len(queue) >= 1
        /\ msg' \in LogCalls /\ msg' = queue[1] /\ \A j \in 1..Len(queue') : queue'[j] = queue[j + 1]
    BY <1>v, <1>0, Taken, HeadTailProperties DEF LoggerTypes
  <1>2. LoggerTypes' /\ LoggerEnds' /\ LoggerOutput'
    BY <1>v, <1>0, <1>1 DEF LoggerTypes, LoggerEnds, LoggerOutput
  <1>3. PICK mark : LoggerMarks(mark)
    BY DEF LoggerOrder
  <1>4. PICK g : g = [j \in 0..Len(queue) - 1 |-> mark[j + 1]]
    OBVIOUS
  <1>5. mark \in [0..Len(queue) -> 0..Len(logged)] /\ mark[0] = Len(printed)
        /\ mark[Len(queue)] = Len(logged)
    BY <1>0, <1>3 DEF LoggerMarks
  <1>6. /\ g \in [0..Len(queue') -> 0..Len(logged)] /\ g[Len(queue')] = Len(logged)
        /\ \A j \in 0..Len(queue') : g[j] = mark[j + 1]
    BY <1>n, <1>1, <1>4, <1>5
  <1>7. ASSUME NEW j \in 1..Len(queue')
        PROVE  /\ queue'[j].empty => g[j] = g[j - 1]
               /\ ~queue'[j].empty => g[j] = g[j - 1] + 1 /\ logged[g[j]] = queue'[j]
    <2>1. /\ j + 1 \in 1..Len(queue) /\ (j + 1) - 1 = j
          /\ queue'[j] = queue[j + 1] /\ g[j] = mark[j + 1] /\ g[j - 1] = mark[j]
      BY <1>n, <1>1, <1>6, SMTT(30)
    <2>2. /\ queue[j + 1].empty => mark[j + 1] = mark[(j + 1) - 1]
          /\ ~queue[j + 1].empty => /\ mark[j + 1] = mark[(j + 1) - 1] + 1
                                    /\ logged[mark[j + 1]] = queue[j + 1]
      BY <1>3, <2>1 DEF LoggerMarks
    <2> QED BY <2>1, <2>2
  <1>8. /\ msg'.empty => g[0] = Len(printed)
        /\ ~msg'.empty => g[0] = Len(printed) + 1 /\ logged[g[0]] = msg'
    <2>1. 1 \in 1..Len(queue) /\ g[0] = mark[1] /\ 1 - 1 = 0
      BY <1>n, <1>1, <1>6
    <2>2. /\ queue[1].empty => mark[1] = mark[1 - 1]
          /\ ~queue[1].empty => mark[1] = mark[1 - 1] + 1 /\ logged[mark[1]] = queue[1]
      BY <1>3, <2>1 DEF LoggerMarks
    <2> QED BY <1>1, <1>5, <2>1, <2>2
  <1>9. LoggerMarks(g)'
    BY <1>0, <1>6, <1>7, <1>8 DEF LoggerMarks
  <1> QED BY <1>2, <1>9 DEF LoggerOrder

(* What the worker prints is the message whose turn it is. *)
LEMMA LoggerPrints ==
  ASSUME LoggerOrder, Logger!WorkerPrints
  PROVE  LoggerOrder'
  <1>v. LoggerTypes /\ LoggerEnds /\ LoggerOutput
    BY DEF LoggerOrder
  <1>n. Len(queue) \in Nat /\ Len(logged) \in Nat /\ Len(printed) \in Nat
    BY <1>v, LoggerLengths
  <1>0. /\ wp = "print" /\ wp' = "lock" /\ msg \in LogCalls
        /\ printed' = IF msg.empty THEN printed ELSE Append(printed, msg)
        /\ UNCHANGED <<queue, done_, logs, logged, joined>>
    BY <1>v DEF Logger!WorkerPrints, LoggerTypes
  <1>1. PICK mark : LoggerMarks(mark)
    BY DEF LoggerOrder
  <1>2. /\ ~msg.empty => mark[0] = Len(printed) + 1 /\ logged[mark[0]] = msg
        /\ msg.empty => mark[0] = Len(printed)
        /\ 0 \in 0..Len(queue) /\ mark[0] \in 0..Len(logged)
    BY <1>n, <1>0, <1>1 DEF LoggerMarks
  <1>3. /\ printed' \in Seq(LogCalls) /\ Len(printed') = mark[0]
        /\ \A j \in 1..Len(printed') : printed'[j] = logged[j]
    <2>1. printed \in Seq(LogCalls) /\ \A j \in 1..Len(printed) : printed[j] = logged[j]
      BY <1>v DEF LoggerTypes, LoggerOutput
    <2>2. CASE msg.empty
      BY <1>0, <1>2, <2>1, <2>2
    <2>3. CASE ~msg.empty
      <3>1. printed' = Append(printed, msg)
        BY <1>0, <2>3
      <3>2. /\ printed' \in Seq(LogCalls) /\ Len(printed') = Len(printed) + 1
            /\ printed'[Len(printed) + 1] = msg
            /\ \A j \in 1..Len(printed) : printed'[j] = printed[j]
        BY <1>0, <2>1, <3>1, AppendProperties
      <3>3. logged[Len(printed) + 1] = msg
        BY <1>2, <2>3
      <3>4. ASSUME NEW j \in 1..Len(printed')
            PROVE  printed'[j] = logged[j]
        <4>1. CASE j = Len(printed) + 1
          BY <3>2, <3>3, <4>1
        <4>2. CASE j \in 1..Len(printed)
          BY <2>1, <3>2, <4>2
        <4> QED BY <1>n, <3>2, <4>1, <4>2
      <3> QED BY <1>2, <2>3, <3>2, <3>4
    <2> QED BY <2>2, <2>3
  <1>4. LoggerTypes' /\ LoggerEnds' /\ LoggerOutput'
    BY <1>v, <1>n, <1>0, <1>2, <1>3 DEF LoggerTypes, LoggerEnds, LoggerOutput
  <1>5. LoggerMarks(mark)'
    BY <1>0, <1>1, <1>3 DEF LoggerMarks
  <1> QED BY <1>4, <1>5 DEF LoggerOrder

(* The steps that move no message. *)
LEMMA LoggerOthers ==
  ASSUME LoggerOrder,
         \/ Logger!SetDone \/ Logger!Join \/ Logger!WorkerWaits \/ Logger!WorkerLeaves
         \/ Logger!Spurious \/ UNCHANGED loggerVars
  PROVE  LoggerOrder'
  <1>v. LoggerTypes /\ LoggerEnds /\ LoggerOutput
    BY DEF LoggerOrder
  <1>0. /\ UNCHANGED <<queue, logs, logged, printed, msg>>
        /\ wp' = wp \/ (wp # "print" /\ wp' # "print")
    BY DEF Logger!SetDone, Logger!Join, Logger!WorkerWaits, Logger!WorkerLeaves, Logger!Spurious,
           Logger!Locked, loggerVars
  <1>1. LoggerOutput'
    BY <1>v, <1>0 DEF LoggerOutput
  <1>2. LoggerTypes'
    BY <1>v DEF LoggerTypes, Logger!SetDone, Logger!Join, Logger!WorkerWaits, Logger!WorkerLeaves,
                Logger!Spurious, Logger!Locked, loggerVars
  <1>3. LoggerEnds'
    BY <1>v DEF LoggerEnds, Logger!SetDone, Logger!Join, Logger!WorkerWaits, Logger!WorkerLeaves,
                Logger!Spurious, Logger!Locked, loggerVars
  <1>4. PICK mark : LoggerMarks(mark)
    BY DEF LoggerOrder
  <1>5. LoggerMarks(mark)'
    BY <1>0, <1>4 DEF LoggerMarks
  <1> QED BY <1>1, <1>2, <1>3, <1>5 DEF LoggerOrder

(* The order of the logger holds whatever program runs. *)
LEMMA LoggerOrderInvariance == Programs => []LoggerOrder
  <1>1. LoggerOrder /\ [ProgramStep]_allVars => LoggerOrder'
    <2> SUFFICES ASSUME LoggerOrder, [Logger!Next]_loggerVars PROVE LoggerOrder'
      BY LoggerAlone
    <2> QED BY LoggerLogs, LoggerTakes, LoggerPrints, LoggerOthers
            DEF Logger!Next, Logger!WorkerStep, Logger!Ended, Logger!vars, loggerVars
  <1> QED BY LoggerStart, <1>1, PTL DEF Programs

(* What is printed is always the first part of what was logged ... *)
LEMMA LoggerPrefix == LoggerOrder => Logger!OutputInOrder
  <1> SUFFICES ASSUME LoggerTypes, LoggerOutput PROVE Logger!OutputInOrder
    BY DEF LoggerOrder
  <1>1. /\ printed \in Seq(LogCalls) /\ logged \in Seq(LogCalls)
        /\ Len(printed) \in Nat /\ Len(logged) \in Nat /\ Len(printed) <= Len(logged)
        /\ \A j \in 1..Len(printed) : printed[j] = logged[j]
    BY LoggerLengths DEF LoggerTypes, LoggerOutput
  <1>2. SubSeq(printed, 1, Len(printed)) = SubSeq(logged, 1, Len(printed))
    BY <1>1
  <1> QED BY <1>1, <1>2 DEF Logger!OutputInOrder, Logger!IsPrefix

(* ... and all of it when the destructor returns. *)
LEMMA LoggerFlushed == LoggerOrder => Logger!FlushedAtExit
  <1> SUFFICES ASSUME LoggerOrder, joined PROVE printed = logged
    BY DEF Logger!FlushedAtExit
  <1>1. LoggerTypes /\ LoggerEnds /\ LoggerOutput
    BY DEF LoggerOrder
  <1>2. PICK mark : LoggerMarks(mark)
    BY DEF LoggerOrder
  <1>3. wp = "exit" /\ Len(queue) = 0
    BY <1>1 DEF LoggerEnds
  <1>4. Len(printed) = Len(logged)
    BY <1>2, <1>3 DEF LoggerMarks
  <1> QED BY <1>1, <1>4, SeqEqual DEF LoggerTypes, LoggerOutput

----------------------------------------------------------------------------
(* Lists of nodes.                                                         *)

(* The nodes of N that f leads to from n on. *)
Chain(N, f, n) ==
  {x \in N : \A S \in SUBSET N :
     (n \in S \cup {Null} /\ \A y \in S : f[y] \in S \cup {Null}) => x \in S}
Links(N) == [N -> N \cup {Null}]

(* A list has the next of each of its nodes, ... *)
LEMMA ChainClosed ==
  ASSUME NEW N, Null \notin N, NEW f \in Links(N), NEW n \in N \cup {Null}
  PROVE  /\ Chain(N, f, n) \subseteq N /\ n \in Chain(N, f, n) \cup {Null}
         /\ \A x \in Chain(N, f, n) : f[x] \in Chain(N, f, n) \cup {Null}
  <1>1. Chain(N, f, n) \subseteq N /\ n \in Chain(N, f, n) \cup {Null}
    BY DEF Chain
  <1>2. ASSUME NEW x \in Chain(N, f, n), f[x] # Null
        PROVE  f[x] \in Chain(N, f, n)
    <2>1. x \in N /\ f[x] \in N
      BY <1>1, <1>2 DEF Links
    <2>2. ASSUME NEW S \in SUBSET N, n \in S \cup {Null}, \A y \in S : f[y] \in S \cup {Null}
          PROVE  f[x] \in S
      <3>1. x \in S
        BY <2>2 DEF Chain
      <3> QED BY <1>2, <2>2, <3>1
    <2> QED BY <2>1, <2>2 DEF Chain
  <1> QED BY <1>1, <1>2

(* ... and nothing else. *)
LEMMA ChainLeast ==
  ASSUME NEW N, Null \notin N, NEW f \in Links(N), NEW n \in N \cup {Null}, NEW S \in SUBSET N,
         n \in S \cup {Null}, \A y \in S : f[y] \in S \cup {Null}
  PROVE  Chain(N, f, n) \subseteq S
  BY DEF Chain

(* The empty list. *)
LEMMA ChainNull ==
  ASSUME NEW N, Null \notin N, NEW f \in Links(N)
  PROVE  Chain(N, f, Null) = {}
  <1>1. {} \in SUBSET N /\ Null \in {} \cup {Null} /\ \A y \in {} : f[y] \in {} \cup {Null}
    OBVIOUS
  <1> QED BY <1>1 DEF Chain

(* What follows a node of a list is part of the list. *)
LEMMA ChainTail ==
  ASSUME NEW N, Null \notin N, NEW f \in Links(N), NEW n \in N \cup {Null}, NEW x \in Chain(N, f, n)
  PROVE  Chain(N, f, f[x]) \subseteq Chain(N, f, n)
  <1>1. /\ Chain(N, f, n) \in SUBSET N /\ f[x] \in Chain(N, f, n) \cup {Null}
        /\ f[x] \in N \cup {Null}
        /\ \A y \in Chain(N, f, n) : f[y] \in Chain(N, f, n) \cup {Null}
    BY ChainClosed DEF Links
  <1> QED BY <1>1, ChainLeast

(* A list is its first node and the list from its next on. *)
LEMMA ChainFirst ==
  ASSUME NEW N, Null \notin N, NEW f \in Links(N), NEW n \in N
  PROVE  Chain(N, f, n) = {n} \cup Chain(N, f, f[n])
  <1>0. PICK S : S = {n} \cup Chain(N, f, f[n])
    OBVIOUS
  <1>1. n \in Chain(N, f, n)
    BY ChainClosed
  <1>2. S \subseteq Chain(N, f, n)
    BY <1>0, <1>1, ChainTail
  <1>3. f[n] \in N \cup {Null}
    BY DEF Links
  <1>4. S \in SUBSET N /\ n \in S \cup {Null} /\ \A y \in S : f[y] \in S \cup {Null}
    BY <1>0, <1>3, ChainClosed
  <1>5. Chain(N, f, n) \subseteq S
    BY <1>4, ChainLeast
  <1> QED BY <1>0, <1>2, <1>5

(* A change to a node that is not on the list leaves the list as it was. *)
LEMMA ChainSame ==
  ASSUME NEW N, Null \notin N, NEW f \in Links(N), NEW g \in Links(N), NEW n \in N \cup {Null},
         \A x \in Chain(N, f, n) : g[x] = f[x]
  PROVE  Chain(N, g, n) = Chain(N, f, n)
  <1>1. /\ Chain(N, f, n) \in SUBSET N /\ n \in Chain(N, f, n) \cup {Null}
        /\ \A x \in Chain(N, f, n) : g[x] \in Chain(N, f, n) \cup {Null}
    BY ChainClosed
  <1>2. Chain(N, g, n) \subseteq Chain(N, f, n)
    BY <1>1, ChainLeast
  <1>3. /\ n \in Chain(N, g, n) \cup {Null}
        /\ \A x \in Chain(N, g, n) : f[x] \in Chain(N, g, n) \cup {Null}
    BY <1>2, ChainClosed
  <1>4. Chain(N, f, n) \subseteq Chain(N, g, n)
    BY <1>1, <1>2, <1>3, ChainLeast
  <1> QED BY <1>2, <1>4

----------------------------------------------------------------------------
(* lockfree_stack: the list.                                               *)

Listed == Chain(Nodes, next, head)
Pushing == {t \in Pushers : sp[t] = "cas"}
Values == Pushers \X (0..M - 1)
StackTypes ==
  /\ head \in Nodes \cup {Null} /\ live \subseteq Nodes /\ next \in Links(Nodes)
  /\ sp \in [Pushers \cup Poppers -> {"start", "cas", "next", "take", "exit"}]
  /\ node \in [Pushers -> Nodes \cup {Null}] /\ k \in [Pushers -> 0..M]
  /\ old \in [Poppers -> Nodes \cup {Null}] /\ succ \in [Poppers -> Nodes \cup {Null}]
  /\ \A t \in Pushers : sp[t] \in {"start", "cas"} /\ (sp[t] = "cas" => k[t] < M)
(* Pushers come first: main has not popped anything before they are joined,*)
(* and then nobody but main moves the head.                                *)
StackPhases ==
  /\ \A p \in Poppers : sp[p] # "start" \/ unstacked[p] # <<>> => Stack!PushersJoined
  /\ \A p \in Poppers : sp[p] \in {"next", "cas"} => head = old[p] /\ head # Null
  /\ \A p \in Poppers : sp[p] = "cas" => succ[p] = next[old[p]]
  /\ \A p \in Poppers : sp[p] = "exit" => head = Null
  /\ gone => Stack!PushersJoined /\ (\A p \in Poppers : sp[p] = "exit") /\ live = {}
(* A node that is allocated is on the list, or one thread's own; and the   *)
(* list has no cycle.                                                      *)
StackNodes ==
  /\ Listed \subseteq live
  /\ \A t \in Pushing : node[t] \in live \ Listed
  /\ \A t, u \in Pushing : node[t] = node[u] => t = u
  /\ \A p \in Poppers : sp[p] = "take" => old[p] \in live \ Listed
  /\ \A x \in live : x \in Listed \/ (\E t \in Pushing : x = node[t])
                     \/ (\E p \in Poppers : sp[p] = "take" /\ x = old[p])
  /\ \A x \in Listed : x \notin Chain(Nodes, next, next[x])
StackList == StackTypes /\ StackPhases /\ StackNodes

(* The other programs leave the stack alone. *)
LEMMA StackAlone ==
  ASSUME [ProgramStep]_allVars
  PROVE  [Stack!Next]_stackVars
  BY DEF ProgramStep, allVars, others, LockRuns, QueueRuns, LoggerRuns, PoolRuns, WaitFreeRuns,
         CapstoneRuns, RingDemoRuns, DoubleRuns, StackRuns, ServerRuns, ClientsRun, ForkRuns, PingRuns

(* The list of the model is the chain of the next fields. *)
LEMMA FollowIsChain == Stack!Follow(head) = Listed
  BY DEF Stack!Follow, Stack!ClosedFrom, Listed, Chain

(* An empty list and no nodes. *)
LEMMA StackInit == Start => StackList
  <1> SUFFICES ASSUME Stack!Init PROVE StackList
    BY DEF Start
  <1>1. StackTypes
    BY StackAssumption DEF Stack!Init, StackTypes, Links
  <1>2. Listed = {}
    <2>1. next \in Links(Nodes) /\ head = Null
      BY <1>1 DEF StackTypes, Stack!Init
    <2> QED BY <2>1, ChainNull, StackAssumption DEF Listed
  <1>3. StackPhases
    BY DEF Stack!Init, StackPhases
  <1>4. StackNodes
    BY <1>2 DEF Stack!Init, StackNodes, Pushing
  <1> QED BY <1>1, <1>3, <1>4 DEF StackList

(* While a pusher is not joined main has not begun to pop. *)
LEMMA StackNoPop ==
  ASSUME StackList, NEW t \in Pushers, sp[t] = "cas" \/ k[t] < M
  PROVE  \A p \in Poppers : sp[p] = "start" /\ unstacked[p] = <<>> /\ p # t
  <1>1. ~Stack!PushersJoined
    BY StackAssumption DEF Stack!PushersJoined, StackList, StackTypes
  <1> QED BY <1>1, StackAssumption DEF StackList, StackPhases

(* A new node is the pusher's own. *)
LEMMA StackPushLoad ==
  ASSUME StackList, NEW t \in Pushers, Stack!PushLoad(t)
  PROVE  /\ StackList' /\ Listed' = Listed
         /\ \A x \in Listed : Chain(Nodes, next', next'[x]) = Chain(Nodes, next, next[x])
  <1>v. StackTypes /\ StackPhases /\ StackNodes
    BY DEF StackList
  <1>0. PICK n \in Nodes \ live :
          /\ live' = live \cup {n} /\ node' = [node EXCEPT ![t] = n]
          /\ next' = [next EXCEPT ![n] = head]
    BY DEF Stack!PushLoad
  <1>1. /\ sp[t] = "start" /\ k[t] < M /\ sp' = [sp EXCEPT ![t] = "cas"]
        /\ UNCHANGED <<head, k, old, succ, unstacked, gone>>
    BY DEF Stack!PushLoad
  <1>2. \A p \in Poppers : sp[p] = "start" /\ unstacked[p] = <<>> /\ p # t
    BY <1>1, StackNoPop
  <1>3. StackTypes'
    BY <1>v, <1>0, <1>1 DEF StackTypes, Links
  <1>4. \A p \in Poppers : sp'[p] = "start"
    BY <1>v, <1>1, <1>2 DEF StackTypes
  <1>5. ~gone
    BY <1>v, <1>1, StackAssumption DEF StackPhases, Stack!PushersJoined, StackTypes
  <1>6. StackPhases'
    BY <1>1, <1>2, <1>4, <1>5 DEF StackPhases
  <1>7. next \in Links(Nodes) /\ next' \in Links(Nodes) /\ head \in Nodes \cup {Null} /\ n \notin Listed
    BY <1>v, <1>3 DEF StackTypes, StackNodes
  <1>8. ASSUME NEW y \in Nodes \cup {Null}, Chain(Nodes, next, y) \subseteq Listed
        PROVE  Chain(Nodes, next', y) = Chain(Nodes, next, y)
    <2>1. \A x \in Chain(Nodes, next, y) : next'[x] = next[x]
      BY <1>v, <1>0, <1>7, <1>8 DEF StackTypes, Links
    <2> QED BY <1>7, <2>1, ChainSame, StackAssumption
  <1>9. Listed' = Listed
    BY <1>1, <1>7, <1>8 DEF Listed
  <1>10. Pushing' = Pushing \cup {t} /\ node'[t] = n /\ \A u \in Pushing : u # t /\ node'[u] = node[u]
    BY <1>v, <1>0, <1>1 DEF Pushing, StackTypes
  <1>11. ASSUME NEW x \in Listed
         PROVE  x \notin Chain(Nodes, next', next'[x]) /\ Chain(Nodes, next', next'[x]) = Chain(Nodes, next, next[x])
    <2>1. x \in Nodes /\ x # n /\ next[x] \in Nodes \cup {Null} /\ next'[x] = next[x]
      BY <1>v, <1>0, <1>7 DEF StackTypes, StackNodes, Links
    <2>2. Chain(Nodes, next, next[x]) \subseteq Listed
      BY <1>7, ChainTail, StackAssumption DEF Listed
    <2>3. Chain(Nodes, next', next[x]) = Chain(Nodes, next, next[x])
      BY <1>8, <2>1, <2>2
    <2> QED BY <1>v, <2>1, <2>3 DEF StackNodes
  <1>12. StackNodes'
    <2>1. Listed' \subseteq live' /\ \A u \in Pushing' : node'[u] \in live' \ Listed'
      BY <1>v, <1>0, <1>7, <1>9, <1>10 DEF StackNodes
    <2>2. \A u, w \in Pushing' : node'[u] = node'[w] => u = w
      BY <1>v, <1>0, <1>10 DEF StackNodes
    <2>3. \A p \in Poppers : sp'[p] = "take" => old'[p] \in live' \ Listed'
      BY <1>4
    <2>4. \A x \in live' : x \in Listed' \/ (\E u \in Pushing' : x = node'[u])
      BY <1>v, <1>0, <1>2, <1>9, <1>10 DEF StackNodes
    <2>5. \A x \in Listed' : x \notin Chain(Nodes, next', next'[x])
      BY <1>9, <1>11
    <2> QED BY <2>1, <2>2, <2>3, <2>4, <2>5 DEF StackNodes
  <1> QED BY <1>3, <1>6, <1>9, <1>11, <1>12 DEF StackList

(* A CAS that succeeds puts the pusher's node in front of the list, one    *)
(* that fails makes its next the new head: it is not on the list yet.      *)
LEMMA StackPushCas ==
  ASSUME StackList, NEW t \in Pushers, Stack!PushCas(t)
  PROVE  /\ StackList'
         /\ head = next[node[t]] => Listed' = {node[t]} \cup Listed /\ next' = next
         /\ head # next[node[t]] =>
              Listed' = Listed /\ \A x \in Listed : Chain(Nodes, next', next'[x]) = Chain(Nodes, next, next[x])
  <1>v. StackTypes /\ StackPhases /\ StackNodes
    BY DEF StackList
  <1>0. sp[t] = "cas" /\ t \in Pushing /\ UNCHANGED <<live, node, old, succ, unstacked, gone>>
    BY DEF Stack!PushCas, Pushing
  <1>1. \A p \in Poppers : sp[p] = "start" /\ unstacked[p] = <<>> /\ p # t
    BY <1>0, StackNoPop
  <1>2. ~gone
    BY <1>v, <1>0, StackAssumption DEF StackPhases, Stack!PushersJoined, StackTypes
  <1>3. next \in Links(Nodes) /\ head \in Nodes \cup {Null} /\ node[t] \in Nodes /\ node[t] \notin Listed
    BY <1>v, <1>0 DEF StackTypes, StackNodes
  <1>4. CASE head = next[node[t]]
    <2>0. /\ head' = node[t] /\ sp' = [sp EXCEPT ![t] = "start"] /\ k' = [k EXCEPT ![t] = @ + 1]
          /\ next' = next
      BY <1>4 DEF Stack!PushCas
    <2>1. StackTypes'
      BY <1>v, <1>0, <1>3, <2>0, StackAssumption DEF StackTypes
    <2>2. \A p \in Poppers : sp'[p] = "start"
      BY <1>v, <1>1, <2>0 DEF StackTypes
    <2>3. StackPhases'
      BY <1>0, <1>1, <1>2, <2>2 DEF StackPhases
    <2>4. Listed' = {node[t]} \cup Listed
      BY <1>3, <1>4, <2>0, ChainFirst, StackAssumption DEF Listed
    <2>5. Pushing' = Pushing \ {t} /\ \A u \in Pushing' : u # t
      BY <1>v, <2>0 DEF Pushing, StackTypes
    <2>6. StackNodes'
      <3>1. Listed' \subseteq live'
        BY <1>v, <1>0, <2>4 DEF StackNodes
      <3>2. \A u \in Pushing' : node'[u] \in live' \ Listed'
        BY <1>v, <1>0, <2>4, <2>5 DEF StackNodes
      <3>3. \A u, w \in Pushing' : node'[u] = node'[w] => u = w
        BY <1>v, <1>0, <2>5 DEF StackNodes
      <3>4. \A p \in Poppers : sp'[p] = "take" => old'[p] \in live' \ Listed'
        BY <2>2
      <3>5. \A x \in live' : x \in Listed' \/ (\E u \in Pushing' : x = node'[u])
        BY <1>v, <1>0, <1>1, <2>4, <2>5 DEF StackNodes
      <3>6. \A x \in Listed' : x \notin Chain(Nodes, next', next'[x])
        BY <1>v, <1>3, <1>4, <2>0, <2>4 DEF StackNodes, Listed
      <3> QED BY <3>1, <3>2, <3>3, <3>4, <3>5, <3>6 DEF StackNodes
    <2> QED BY <1>4, <2>0, <2>1, <2>3, <2>4, <2>6 DEF StackList
  <1>5. CASE head # next[node[t]]
    <2>0. next' = [next EXCEPT ![node[t]] = head] /\ UNCHANGED <<head, sp, k>>
      BY <1>5 DEF Stack!PushCas
    <2>1. StackTypes'
      BY <1>v, <1>0, <1>3, <2>0 DEF StackTypes, Links
    <2>2. StackPhases'
      BY <1>v, <1>0, <1>1, <1>2, <2>0 DEF StackPhases, Stack!PushersJoined
    <2>3. next' \in Links(Nodes)
      BY <2>1 DEF StackTypes
    <2>4. ASSUME NEW y \in Nodes \cup {Null}, Chain(Nodes, next, y) \subseteq Listed
          PROVE  Chain(Nodes, next', y) = Chain(Nodes, next, y)
      <3>1. \A x \in Chain(Nodes, next, y) : next'[x] = next[x]
        BY <1>v, <1>3, <2>0, <2>4 DEF StackNodes, StackTypes, Links
      <3> QED BY <1>3, <2>3, <3>1, ChainSame, StackAssumption
    <2>5. Listed' = Listed
      BY <1>3, <2>0, <2>4 DEF Listed
    <2>6. ASSUME NEW x \in Listed
          PROVE  x \notin Chain(Nodes, next', next'[x]) /\ Chain(Nodes, next', next'[x]) = Chain(Nodes, next, next[x])
      <3>1. x \in Nodes /\ next[x] \in Nodes \cup {Null} /\ next'[x] = next[x]
        BY <1>v, <1>3, <2>0 DEF StackTypes, StackNodes, Links
      <3>2. Chain(Nodes, next, next[x]) \subseteq Listed
        BY <1>3, ChainTail, StackAssumption DEF Listed
      <3> QED BY <1>v, <2>4, <3>1, <3>2 DEF StackNodes
    <2>7. StackNodes'
      <3>1. Pushing' = Pushing
        BY <2>0 DEF Pushing
      <3>2. \A x \in Listed' : x \notin Chain(Nodes, next', next'[x])
        BY <2>5, <2>6
      <3> QED BY <1>v, <1>0, <2>0, <2>5, <3>1, <3>2 DEF StackNodes
    <2> QED BY <1>5, <2>1, <2>2, <2>5, <2>6, <2>7 DEF StackList
  <1> QED BY <1>4, <1>5

(* main's steps before its CAS move no node. *)
LEMMA StackPopLoads ==
  ASSUME StackList, NEW p \in Poppers, Stack!PopLoad(p) \/ Stack!PopNext(p)
  PROVE  StackList' /\ Listed' = Listed
  <1>v. StackTypes /\ StackPhases /\ StackNodes
    BY DEF StackList
  <1>0. /\ UNCHANGED <<head, live, cargo, next, node, k, unstacked, gone>>
        /\ Stack!PushersJoined
    BY <1>v DEF Stack!PopLoad, Stack!PopNext, StackPhases
  <1>1. p \notin Pushers /\ Poppers = {p}
    BY StackAssumption
  <1>2. StackTypes'
    <2>1. CASE Stack!PopLoad(p)
      BY <1>v, <1>0, <1>1, <2>1 DEF StackTypes, Stack!PopLoad
    <2>2. CASE Stack!PopNext(p)
      BY <1>v, <1>0, <1>1, <2>2 DEF StackTypes, Stack!PopNext, Links, StackPhases
    <2> QED BY <2>1, <2>2
  <1>3. /\ \A t \in Pushers : sp'[t] = sp[t]
        /\ Pushing' = Pushing /\ Stack!PushersJoined'
    BY <1>v, <1>0, <1>1
    DEF StackTypes, Stack!PopLoad, Stack!PopNext, Pushing, Stack!PushersJoined
  <1>4. StackPhases'
    <2>1. CASE Stack!PopLoad(p)
      BY <1>v, <1>0, <1>1, <1>3, <2>1 DEF StackTypes, StackPhases, Stack!PopLoad
    <2>2. CASE Stack!PopNext(p)
      BY <1>v, <1>0, <1>1, <1>3, <2>2 DEF StackTypes, StackPhases, Stack!PopNext
    <2> QED BY <2>1, <2>2
  <1>5. Listed' = Listed
    BY <1>0 DEF Listed
  <1>6. sp[p] # "take" /\ sp'[p] # "take"
    BY <1>v, <1>1 DEF Stack!PopLoad, Stack!PopNext, StackTypes
  <1>7. StackNodes'
    BY <1>v, <1>0, <1>1, <1>3, <1>5, <1>6 DEF StackNodes
  <1> QED BY <1>2, <1>4, <1>5, <1>7 DEF StackList

(* Nobody else moves the head, so main's CAS succeeds and takes the first  *)
(* node off the list.                                                      *)
LEMMA StackPopCas ==
  ASSUME StackList, NEW p \in Poppers, Stack!PopCas(p)
  PROVE  /\ StackList' /\ sp'[p] = "take"
         /\ old[p] = head /\ head \in Listed /\ Listed' = Chain(Nodes, next, next[head])
         /\ Listed = {head} \cup Listed' /\ head \notin Listed'
         /\ UNCHANGED <<next, cargo, k, old, unstacked>>
  <1>v. StackTypes /\ StackPhases /\ StackNodes
    BY DEF StackList
  <1>1. p \notin Pushers /\ Poppers = {p}
    BY StackAssumption
  <1>0. /\ head = old[p] /\ head # Null /\ succ[p] = next[old[p]] /\ sp[p] = "cas"
        /\ head' = succ[p] /\ sp' = [sp EXCEPT ![p] = "take"] /\ Stack!PushersJoined
        /\ UNCHANGED <<live, cargo, next, node, k, old, succ, unstacked, gone>>
    BY <1>v DEF Stack!PopCas, StackPhases
  <1>2. next \in Links(Nodes) /\ head \in Nodes /\ head' \in Nodes \cup {Null}
    BY <1>v, <1>0 DEF StackTypes, Links
  <1>3. StackTypes'
    BY <1>v, <1>0, <1>1, <1>2 DEF StackTypes
  <1>4. /\ \A t \in Pushers : sp'[t] = sp[t]
        /\ Pushing' = Pushing /\ Stack!PushersJoined' /\ sp'[p] = "take"
    BY <1>v, <1>0, <1>1 DEF StackTypes, Pushing, Stack!PushersJoined
  <1>5. StackPhases'
    BY <1>v, <1>0, <1>1, <1>4 DEF StackPhases
  <1>6. Listed' = Chain(Nodes, next, next[head]) /\ Listed = {head} \cup Listed'
    BY <1>0, <1>2, ChainFirst, StackAssumption DEF Listed
  <1>7. head \in Listed /\ head \notin Listed'
    BY <1>v, <1>6 DEF StackNodes
  <1>8. StackNodes'
    BY <1>v, <1>0, <1>1, <1>4, <1>6, <1>7 DEF StackNodes
  <1> QED BY <1>0, <1>3, <1>4, <1>5, <1>6, <1>7, <1>8 DEF StackList

(* main deletes the node it has taken. *)
LEMMA StackPopTake ==
  ASSUME StackList, NEW p \in Poppers, Stack!PopTake(p)
  PROVE  StackList' /\ Listed' = Listed
  <1>v. StackTypes /\ StackPhases /\ StackNodes
    BY DEF StackList
  <1>1. p \notin Pushers /\ Poppers = {p}
    BY StackAssumption
  <1>0. /\ sp[p] = "take" /\ sp' = [sp EXCEPT ![p] = "start"] /\ live' = live \ {old[p]}
        /\ Stack!PushersJoined
        /\ UNCHANGED <<head, cargo, next, node, k, old, succ, gone>>
    BY <1>v DEF Stack!PopTake, StackPhases
  <1>2. StackTypes' /\ sp'[p] = "start"
    BY <1>v, <1>0, <1>1 DEF StackTypes
  <1>3. /\ \A t \in Pushers : sp'[t] = sp[t]
        /\ Pushing' = Pushing /\ Pushing = {} /\ Stack!PushersJoined'
    BY <1>v, <1>0, <1>1 DEF StackTypes, Pushing, Stack!PushersJoined
  <1>4. StackPhases'
    BY <1>v, <1>0, <1>1, <1>2, <1>3 DEF StackPhases
  <1>5. Listed' = Listed
    BY <1>0 DEF Listed
  <1>6. StackNodes'
    BY <1>v, <1>0, <1>1, <1>2, <1>3, <1>5 DEF StackNodes
  <1> QED BY <1>2, <1>4, <1>5, <1>6 DEF StackList

(* When main has given up, the list is empty and no node is in use. *)
LEMMA StackDestroy ==
  ASSUME StackList, Stack!Destroy
  PROVE  StackList' /\ Listed' = Listed
  <1>v. StackTypes /\ StackPhases /\ StackNodes
    BY DEF StackList
  <1>0. /\ Stack!PushersJoined /\ (\A p \in Poppers : sp[p] = "exit") /\ gone'
        /\ live' = live \ Listed
        /\ UNCHANGED <<head, cargo, next, sp, node, k, old, succ, unstacked>>
    BY FollowIsChain DEF Stack!Destroy
  <1>1. Pushing = {} /\ Pushing' = {}
    BY <1>0 DEF Pushing, Stack!PushersJoined
  <1>2. head = Null /\ next \in Links(Nodes)
    BY <1>v, <1>0, StackAssumption DEF StackPhases, StackTypes
  <1>3. Listed = {} /\ Listed' = {}
    BY <1>0, <1>2, ChainNull, StackAssumption DEF Listed
  <1>4. live = {} /\ live' = {}
    BY <1>v, <1>0, <1>1, <1>3 DEF StackNodes
  <1>5. StackTypes' /\ StackPhases'
    BY <1>v, <1>0, <1>4 DEF StackTypes, StackPhases, Stack!PushersJoined
  <1>6. StackNodes'
    BY <1>0, <1>1, <1>3, <1>4 DEF StackNodes
  <1> QED BY <1>3, <1>5, <1>6 DEF StackList

(* The list is exact whatever program runs. *)
LEMMA StackListInvariance == Programs => []StackList
  <1>1. StackList /\ [ProgramStep]_allVars => StackList'
    <2> SUFFICES ASSUME StackList, [Stack!Next]_stackVars PROVE StackList'
      BY StackAlone
    <2>1. CASE \E t \in Pushers : Stack!Push(t)
      BY <2>1, StackPushLoad, StackPushCas DEF Stack!Push
    <2>2. CASE \E p \in Poppers : Stack!Pop(p)
      BY <2>2, StackPopLoads, StackPopCas, StackPopTake DEF Stack!Pop
    <2>3. CASE Stack!Destroy
      BY <2>3, StackDestroy
    <2>4. CASE UNCHANGED stackVars
      BY <2>4 DEF stackVars, StackList, StackTypes, StackPhases, StackNodes, Listed, Pushing,
                  Stack!PushersJoined
    <2> QED BY <2>1, <2>2, <2>3, <2>4 DEF Stack!Next, Stack!Ended, Stack!vars, stackVars
  <1> QED BY StackInit, <1>1, PTL DEF Programs

----------------------------------------------------------------------------
(* lockfree_stack: the values.                                             *)

(* Of one pusher's values the earlier one: it comes out later. *)
Above(a, b) == a[1] = b[1] => b[2] < a[2]
Taken1(p) == sp[p] = "take"
ValueTypes ==
  /\ cargo \in [Nodes -> Values \cup {<<>>}] /\ unstacked \in [Poppers -> Seq(Values)]
  /\ \A x \in live : cargo[x] \in Values
  /\ \A t \in Pushing : cargo[node[t]] = <<t, k[t]>>
(* A value that was pushed is on the list, in main's hands or popped.      *)
NoValueLost ==
  \A t \in Pushers, j \in 0..M - 1 : j < k[t] =>
    \/ \E x \in Listed : cargo[x] = <<t, j>>
    \/ \E p \in Poppers : Taken1(p) /\ cargo[old[p]] = <<t, j>>
    \/ \E p \in Poppers : \E a \in 1..Len(unstacked[p]) : unstacked[p][a] = <<t, j>>
(* On the list every value is above those behind it, and what was popped   *)
(* was above what came after it and what is still there.                   *)
LastInFirstOut ==
  /\ \A x \in Listed : cargo[x][2] < k[cargo[x][1]]
  /\ \A x \in Listed : \A y \in Chain(Nodes, next, next[x]) : Above(cargo[x], cargo[y])
  /\ \A p \in Poppers : Taken1(p) => \A x \in Listed : Above(cargo[old[p]], cargo[x])
  /\ \A p \in Poppers : \A a \in 1..Len(unstacked[p]) :
       /\ \A x \in Listed : Above(unstacked[p][a], cargo[x])
       /\ Taken1(p) => Above(unstacked[p][a], cargo[old[p]])
       /\ \A b \in 1..Len(unstacked[p]) : a < b => Above(unstacked[p][a], unstacked[p][b])
StackValues == ValueTypes /\ NoValueLost /\ LastInFirstOut

(* A new node carries the pusher's next value. *)
LEMMA ValuesPushLoad ==
  ASSUME StackList, StackValues, NEW t \in Pushers, Stack!PushLoad(t)
  PROVE  StackValues'
  <1>v. StackTypes /\ StackNodes /\ ValueTypes /\ NoValueLost /\ LastInFirstOut
    BY DEF StackList, StackValues
  <1>0. PICK n \in Nodes \ live :
          /\ live' = live \cup {n} /\ node' = [node EXCEPT ![t] = n]
          /\ cargo' = [cargo EXCEPT ![n] = <<t, k[t]>>]
    BY DEF Stack!PushLoad
  <1>1. /\ sp[t] = "start" /\ k[t] < M /\ sp' = [sp EXCEPT ![t] = "cas"]
        /\ UNCHANGED <<head, k, old, succ, unstacked, gone>>
    BY DEF Stack!PushLoad
  <1>2. \A p \in Poppers : sp[p] = "start" /\ unstacked[p] = <<>> /\ p # t
    BY <1>1, StackNoPop
  <1>3. /\ Listed' = Listed /\ \A x \in Listed : Chain(Nodes, next', next'[x]) = Chain(Nodes, next, next[x])
        /\ Listed \subseteq live
    BY <1>v, StackPushLoad DEF StackNodes
  <1>4. \A x \in live : x # n /\ cargo'[x] = cargo[x]
    BY <1>v, <1>0 DEF ValueTypes, StackTypes
  <1>5. k[t] \in 0..M - 1 /\ <<t, k[t]>> \in Values /\ cargo'[n] = <<t, k[t]>>
    BY <1>v, <1>0, <1>1, StackAssumption DEF StackTypes, Values, ValueTypes
  <1>6. Pushing' = Pushing \cup {t} /\ node'[t] = n /\ \A u \in Pushing : u # t /\ node'[u] = node[u]
    BY <1>v, <1>0, <1>1 DEF Pushing, StackTypes
  <1>7. ValueTypes'
    <2>1. cargo' \in [Nodes -> Values \cup {<<>>}]
      <3> DEFINE V == Values \cup {<<>>}
                 w == <<t, k[t]>>
      <3>1. w \in V /\ cargo \in [Nodes -> V] /\ cargo' = [cargo EXCEPT ![n] = w]
        BY <1>v, <1>0, <1>5 DEF ValueTypes
      <3> HIDE DEF V, w
      <3>2. cargo' \in [Nodes -> V]
        BY <3>1
      <3> QED BY <3>2 DEF V
    <2>2. \A u \in Pushing' : cargo'[node'[u]] = <<u, k'[u]>>
      <3> SUFFICES ASSUME NEW u \in Pushing' PROVE cargo'[node'[u]] = <<u, k[u]>>
        BY <1>1
      <3>1. CASE u = t
        BY <1>5, <1>6, <3>1
      <3>2. CASE u # t
        <4>1. u \in Pushing /\ node'[u] = node[u] /\ node[u] \in live
          BY <1>v, <1>6, <3>2 DEF StackNodes
        <4> QED BY <1>v, <1>4, <4>1 DEF ValueTypes
      <3> QED BY <3>1, <3>2
    <2> QED BY <1>v, <1>0, <1>1, <1>4, <1>5, <2>1, <2>2 DEF ValueTypes
  <1>8. \A p \in Poppers : ~Taken1(p) /\ ~Taken1(p)'
    BY <1>v, <1>1, <1>2 DEF Taken1, StackTypes
  <1>9. \A x \in Listed : cargo'[x] = cargo[x]
    BY <1>3, <1>4
  <1>10. NoValueLost'
    <2>1. ASSUME NEW u \in Pushers, NEW j \in 0..M - 1, j < k[u]
          PROVE  \/ \E x \in Listed' : cargo'[x] = <<u, j>>
                 \/ \E p \in Poppers : \E a \in 1..Len(unstacked'[p]) : unstacked'[p][a] = <<u, j>>
      <3>1. CASE \E x \in Listed : cargo[x] = <<u, j>>
        BY <1>3, <1>9, <3>1
      <3>2. CASE \E p \in Poppers : \E a \in 1..Len(unstacked[p]) : unstacked[p][a] = <<u, j>>
        BY <1>1, <3>2
      <3> QED BY <1>v, <1>8, <2>1, <3>1, <3>2 DEF NoValueLost
    <2> QED BY <1>1, <2>1 DEF NoValueLost
  <1>11. LastInFirstOut'
    <2>1. next \in Links(Nodes) /\ head \in Nodes \cup {Null}
      BY <1>v DEF StackTypes
    <2>2. \A x \in Listed : Chain(Nodes, next, next[x]) \subseteq Listed
      BY <2>1, ChainTail, StackAssumption DEF Listed
    <2>3. \A x \in Listed' : cargo'[x][2] < k'[cargo'[x][1]]
      BY <1>v, <1>1, <1>3, <1>9 DEF LastInFirstOut
    <2>4. \A x \in Listed' : \A y \in Chain(Nodes, next', next'[x]) : Above(cargo'[x], cargo'[y])
      BY <1>v, <1>3, <1>9, <2>2 DEF LastInFirstOut
    <2> QED BY <1>v, <1>1, <1>3, <1>8, <1>9, <2>3, <2>4 DEF LastInFirstOut
  <1> QED BY <1>7, <1>10, <1>11 DEF StackValues

(* The pusher's value is above all of its values that were pushed before.  *)
LEMMA ValuesPushCas ==
  ASSUME StackList, StackValues, NEW t \in Pushers, Stack!PushCas(t)
  PROVE  StackValues'
  <1>v. StackTypes /\ StackNodes /\ ValueTypes /\ NoValueLost /\ LastInFirstOut
    BY DEF StackList, StackValues
  <1>0. /\ sp[t] = "cas" /\ t \in Pushing
        /\ UNCHANGED <<live, node, old, succ, unstacked, gone, cargo>>
    BY DEF Stack!PushCas, Pushing
  <1>1. \A p \in Poppers : sp[p] = "start" /\ unstacked[p] = <<>> /\ p # t
    BY <1>0, StackNoPop
  <1>2. next \in Links(Nodes) /\ head \in Nodes \cup {Null} /\ node[t] \in live \ Listed /\ Listed \subseteq live
    BY <1>v, <1>0 DEF StackTypes, StackNodes
  <1>3. CASE head = next[node[t]]
    <2>0. /\ head' = node[t] /\ sp' = [sp EXCEPT ![t] = "start"] /\ k' = [k EXCEPT ![t] = @ + 1]
      BY <1>3 DEF Stack!PushCas
    <2>1. Listed' = {node[t]} \cup Listed /\ next' = next /\ Listed = Chain(Nodes, next, next[node[t]])
      BY <1>3, StackPushCas DEF Listed
    <2>2. Pushing' = Pushing \ {t} /\ k[t] \in Nat /\ k'[t] = k[t] + 1
          /\ \A u \in Pushers : u # t => k'[u] = k[u]
      BY <1>v, <2>0 DEF Pushing, StackTypes
    <2>3. \A p \in Poppers : ~Taken1(p) /\ ~Taken1(p)'
      BY <1>v, <1>1, <2>0 DEF Taken1, StackTypes
    <2>4. cargo[node[t]] = <<t, k[t]>>
      BY <1>v, <1>0 DEF ValueTypes
    <2>5. ValueTypes'
      <3>1. \A u \in Pushing' : cargo[node[u]] = <<u, k'[u]>>
        BY <1>v, <2>2 DEF ValueTypes, Pushing
      <3> QED BY <1>v, <1>0, <3>1 DEF ValueTypes
    <2>6. NoValueLost'
      <3> SUFFICES ASSUME NEW u \in Pushers, NEW j \in 0..M - 1, j < k'[u]
                   PROVE  \E x \in Listed' : cargo[x] = <<u, j>>
        BY <1>0 DEF NoValueLost
      <3>1. CASE u = t /\ j = k[t]
        BY <2>1, <2>4, <3>1
      <3>2. CASE ~(u = t /\ j = k[t])
        <4>1. j < k[u]
          <5>1. CASE u = t
            BY <2>2, <3>2, <5>1
          <5>2. CASE u # t
            BY <2>2, <5>2
          <5> QED BY <5>1, <5>2
        <4>2. \E x \in Listed : cargo[x] = <<u, j>>
          <5>1. \A p \in Poppers : 1..Len(unstacked[p]) = {}
            BY <1>1
          <5> QED BY <1>v, <2>3, <4>1, <5>1 DEF NoValueLost
        <4> QED BY <2>1, <4>2
      <3> QED BY <3>1, <3>2
    <2>7. \A x \in Listed : Above(cargo[node[t]], cargo[x])
      <3> SUFFICES ASSUME NEW x \in Listed, cargo[x][1] = t PROVE cargo[x][2] < k[t]
        BY <2>4 DEF Above
      <3> QED BY <1>v DEF LastInFirstOut
    <2>8. \A x \in Listed' : cargo[x][2] < k'[cargo[x][1]]
      <3>1. ASSUME NEW x \in Listed
            PROVE  cargo[x][2] < k'[cargo[x][1]]
        <4>1. cargo[x] \in Values /\ cargo[x][1] \in Pushers /\ cargo[x][2] \in Nat
              /\ cargo[x][2] < k[cargo[x][1]]
          BY <1>v, <1>2, StackAssumption DEF ValueTypes, Values, LastInFirstOut
        <4> QED BY <2>2, <4>1
      <3>2. cargo[node[t]][2] < k'[cargo[node[t]][1]]
        BY <2>2, <2>4
      <3> QED BY <2>1, <3>1, <3>2
    <2>9. \A x \in Listed' : \A y \in Chain(Nodes, next', next'[x]) : Above(cargo[x], cargo[y])
      BY <1>v, <2>1, <2>7 DEF LastInFirstOut
    <2>10. LastInFirstOut'
      BY <1>0, <1>1, <2>3, <2>8, <2>9 DEF LastInFirstOut
    <2> QED BY <2>5, <2>6, <2>10 DEF StackValues
  <1>4. CASE head # next[node[t]]
    <2>0. UNCHANGED <<head, sp, k>>
      BY <1>4 DEF Stack!PushCas
    <2>1. Listed' = Listed /\ \A x \in Listed : Chain(Nodes, next', next'[x]) = Chain(Nodes, next, next[x])
      BY <1>4, StackPushCas
    <2> QED BY <1>v, <1>0, <2>0, <2>1
            DEF StackValues, ValueTypes, NoValueLost, LastInFirstOut, Pushing, Taken1
  <1> QED BY <1>3, <1>4

(* main's steps before its CAS touch no value. *)
LEMMA ValuesPopLoads ==
  ASSUME StackList, StackValues, NEW p \in Poppers, Stack!PopLoad(p) \/ Stack!PopNext(p)
  PROVE  StackValues'
  <1>v. StackTypes /\ StackPhases /\ ValueTypes /\ NoValueLost /\ LastInFirstOut
    BY DEF StackList, StackValues
  <1>1. p \notin Pushers /\ Poppers = {p}
    BY StackAssumption
  <1>0. /\ UNCHANGED <<head, live, cargo, next, node, k, unstacked>>
        /\ sp[p] # "take" /\ sp'[p] # "take" /\ \A t \in Pushers : sp'[t] = sp[t]
    BY <1>v, <1>1 DEF Stack!PopLoad, Stack!PopNext, StackTypes
  <1>2. Pushing' = Pushing /\ Listed' = Listed
    BY <1>0 DEF Pushing, Listed
  <1>3. \A w \in Poppers : ~Taken1(w) /\ ~Taken1(w)'
    BY <1>0, <1>1 DEF Taken1
  <1>4. ValueTypes'
    BY <1>v, <1>0, <1>2 DEF ValueTypes
  <1>5. NoValueLost'
    BY <1>v, <1>0, <1>2, <1>3 DEF NoValueLost
  <1>6. LastInFirstOut'
    BY <1>v, <1>0, <1>2, <1>3 DEF LastInFirstOut
  <1> QED BY <1>4, <1>5, <1>6 DEF StackValues

(* What main takes off the list was above all that stays on it. *)
LEMMA ValuesPopCas ==
  ASSUME StackList, StackValues, NEW p \in Poppers, Stack!PopCas(p)
  PROVE  StackValues'
  <1>v. StackTypes /\ StackPhases /\ ValueTypes /\ NoValueLost /\ LastInFirstOut
    BY DEF StackList, StackValues
  <1>1. p \notin Pushers /\ Poppers = {p}
    BY StackAssumption
  <1>0. /\ UNCHANGED <<live, cargo, next, node, k, old, unstacked>>
        /\ sp[p] = "cas" /\ \A t \in Pushers : sp'[t] = sp[t]
    BY <1>v, <1>1 DEF Stack!PopCas, StackTypes, StackPhases
  <1>2. /\ sp'[p] = "take" /\ old[p] = head /\ head \in Listed /\ Listed' = Chain(Nodes, next, next[head])
        /\ Listed = {head} \cup Listed'
    BY StackPopCas
  <1>3. Pushing' = Pushing /\ ~Taken1(p) /\ Taken1(p)'
    BY <1>0, <1>2 DEF Pushing, Taken1
  <1>4. ValueTypes'
    BY <1>v, <1>0, <1>3 DEF ValueTypes
  <1>5. NoValueLost'
    <2> SUFFICES ASSUME NEW t \in Pushers, NEW j \in 0..M - 1, j < k[t]
                 PROVE  \/ \E x \in Listed' : cargo[x] = <<t, j>>
                        \/ cargo[head] = <<t, j>>
                        \/ \E a \in 1..Len(unstacked[p]) : unstacked[p][a] = <<t, j>>
      BY <1>0, <1>1, <1>2, <1>3 DEF NoValueLost
    <2>1. \/ \E x \in Listed : cargo[x] = <<t, j>>
          \/ \E a \in 1..Len(unstacked[p]) : unstacked[p][a] = <<t, j>>
      BY <1>v, <1>1, <1>3 DEF NoValueLost
    <2> QED BY <1>2, <2>1
  <1>6. LastInFirstOut'
    <2>1. /\ \A x \in Listed : cargo[x][2] < k[cargo[x][1]]
          /\ \A x \in Listed : \A y \in Chain(Nodes, next, next[x]) : Above(cargo[x], cargo[y])
          /\ \A a \in 1..Len(unstacked[p]) :
               /\ \A x \in Listed : Above(unstacked[p][a], cargo[x])
               /\ \A b \in 1..Len(unstacked[p]) : a < b => Above(unstacked[p][a], unstacked[p][b])
      BY <1>v DEF LastInFirstOut
    <2>2. \A x \in Listed' : Above(cargo[head], cargo[x])
      BY <1>2, <2>1
    <2>3. \A a \in 1..Len(unstacked[p]) : Above(unstacked[p][a], cargo[head])
      BY <1>2, <2>1
    <2> QED BY <1>0, <1>1, <1>2, <2>1, <2>2, <2>3 DEF LastInFirstOut
  <1> QED BY <1>4, <1>5, <1>6 DEF StackValues

(* It is appended to what main has popped. *)
LEMMA ValuesPopTake ==
  ASSUME StackList, StackValues, NEW p \in Poppers, Stack!PopTake(p)
  PROVE  StackValues'
  <1>v. StackTypes /\ StackNodes /\ ValueTypes /\ NoValueLost /\ LastInFirstOut
    BY DEF StackList, StackValues
  <1>1. p \notin Pushers /\ Poppers = {p}
    BY StackAssumption
  <1>2. PICK w : w = cargo[old[p]]
    OBVIOUS
  <1>0. /\ UNCHANGED <<head, cargo, next, node, k, old>> /\ live' = live \ {old[p]}
        /\ sp[p] = "take" /\ sp'[p] = "start" /\ \A t \in Pushers : sp'[t] = sp[t]
        /\ unstacked' = [unstacked EXCEPT ![p] = Append(unstacked[p], w)]
    BY <1>v, <1>1, <1>2 DEF Stack!PopTake, StackTypes
  <1>3. Pushing' = Pushing /\ Taken1(p) /\ ~Taken1(p)' /\ Listed' = Listed
    BY <1>0 DEF Pushing, Taken1, Listed
  <1>4. unstacked[p] \in Seq(Values) /\ w \in Values
    BY <1>v, <1>0, <1>2 DEF ValueTypes, StackNodes
  <1>5. PICK u \in Seq(Values) : u = unstacked[p]
    BY <1>4
  <1>a. PICK z : z = Append(u, w)
    OBVIOUS
  <1>6. /\ unstacked'[p] = z /\ z \in Seq(Values)
        /\ Len(u) \in Nat /\ Len(z) = Len(u) + 1
        /\ \A a \in 1..Len(u) : z[a] = u[a]
        /\ z[Len(u) + 1] = w
    BY <1>v, <1>a, <1>0, <1>4, <1>5 DEF ValueTypes
  <1>7. ValueTypes'
    BY <1>v, <1>0, <1>1, <1>3, <1>6 DEF ValueTypes
  <1>8. NoValueLost'
    <2> SUFFICES ASSUME NEW t \in Pushers, NEW j \in 0..M - 1, j < k[t]
                 PROVE  \/ \E x \in Listed : cargo[x] = <<t, j>>
                        \/ \E a \in 1..Len(z) : z[a] = <<t, j>>
      BY <1>0, <1>1, <1>3, <1>6 DEF NoValueLost
    <2>1. \/ \E x \in Listed : cargo[x] = <<t, j>>
          \/ w = <<t, j>>
          \/ \E a \in 1..Len(u) : u[a] = <<t, j>>
      BY <1>v, <1>1, <1>2, <1>5 DEF NoValueLost
    <2>2. Len(u) + 1 \in 1..Len(z) /\ \A a \in 1..Len(u) : a \in 1..Len(z)
      BY <1>6
    <2> QED BY <1>6, <2>1, <2>2
  <1>9. LastInFirstOut'
    <2>1. /\ \A x \in Listed : Above(w, cargo[x])
          /\ \A a \in 1..Len(u) :
               /\ \A x \in Listed : Above(u[a], cargo[x])
               /\ Above(u[a], w)
               /\ \A b \in 1..Len(u) : a < b => Above(u[a], u[b])
      BY <1>v, <1>2, <1>3, <1>5 DEF LastInFirstOut
    <2>2. ASSUME NEW a \in 1..Len(z)
          PROVE  /\ \A x \in Listed : Above(z[a], cargo[x])
                 /\ \A b \in 1..Len(z) : a < b => Above(z[a], z[b])
      <3>1. CASE a = Len(u) + 1
        BY <1>6, <2>1, <3>1
      <3>2. CASE a \in 1..Len(u)
        <4>1. ASSUME NEW b \in 1..Len(z), a < b
              PROVE  Above(u[a], z[b])
          <5>1. b = Len(u) + 1 \/ b \in 1..Len(u)
            BY <1>6
          <5>2. CASE b = Len(u) + 1
            BY <1>6, <2>1, <3>2, <5>2
          <5>3. CASE b \in 1..Len(u)
            BY <1>6, <2>1, <3>2, <4>1, <5>3
          <5> QED BY <5>1, <5>2, <5>3
        <4> QED BY <1>6, <2>1, <3>2, <4>1
      <3> QED BY <1>6, <3>1, <3>2
    <2>3. /\ \A x \in Listed : cargo[x][2] < k[cargo[x][1]]
          /\ \A x \in Listed : \A y \in Chain(Nodes, next, next[x]) : Above(cargo[x], cargo[y])
      BY <1>v DEF LastInFirstOut
    <2> QED BY <1>0, <1>1, <1>3, <1>6, <2>2, <2>3, SMTT(30) DEF LastInFirstOut
  <1> QED BY <1>7, <1>8, <1>9 DEF StackValues

(* The values are where they should be whatever program runs. *)
LEMMA StackValuesInvariance == Programs => []StackValues
  <1>1. Start => StackValues
    <2> SUFFICES ASSUME Stack!Init PROVE StackValues
      BY DEF Start
    <2>1. Listed = {} /\ Pushing = {} /\ \A p \in Poppers : ~Taken1(p)
      <3>1. next \in Links(Nodes) /\ head = Null
        BY DEF Stack!Init, Links
      <3>2. \A x \in Pushers \cup Poppers : sp[x] = "start"
        BY DEF Stack!Init
      <3> QED BY <3>1, <3>2, ChainNull, StackAssumption DEF Listed, Pushing, Taken1
    <2>2. \A p \in Poppers : unstacked[p] = <<>> /\ 1..Len(unstacked[p]) = {}
      BY DEF Stack!Init
    <2>3. ValueTypes
      BY <2>1 DEF ValueTypes, Stack!Init
    <2>4. NoValueLost
      BY DEF NoValueLost, Stack!Init
    <2>5. LastInFirstOut
      BY <2>1, <2>2 DEF LastInFirstOut
    <2> QED BY <2>3, <2>4, <2>5 DEF StackValues
  <1>2. StackList /\ StackValues /\ [ProgramStep]_allVars => StackValues'
    <2> SUFFICES ASSUME StackList, StackValues, [Stack!Next]_stackVars PROVE StackValues'
      BY StackAlone
    <2>1. CASE \E t \in Pushers : Stack!Push(t)
      BY <2>1, ValuesPushLoad, ValuesPushCas DEF Stack!Push
    <2>2. CASE \E p \in Poppers : Stack!Pop(p)
      BY <2>2, ValuesPopLoads, ValuesPopCas, ValuesPopTake DEF Stack!Pop
    <2>3. CASE Stack!Destroy
      <3>1. /\ UNCHANGED <<head, cargo, next, sp, node, k, old, unstacked>> /\ live' \subseteq live
        BY <2>3 DEF Stack!Destroy
      <3> QED BY <3>1 DEF StackValues, ValueTypes, NoValueLost, LastInFirstOut, Listed, Pushing, Taken1
    <2>4. CASE UNCHANGED stackVars
      BY <2>4 DEF stackVars, StackValues, ValueTypes, NoValueLost, LastInFirstOut, Listed, Pushing,
                  Taken1
    <2> QED BY <2>1, <2>2, <2>3, <2>4 DEF Stack!Next, Stack!Ended, Stack!vars, stackVars
  <1> QED BY <1>1, <1>2, StackListInvariance, PTL DEF Programs

(* When main's pop finds the stack empty it has every value that was       *)
(* pushed, once, each pusher's last one first.                             *)
LEMMA PoppedLifo == StackList /\ StackValues => Stack!AllPoppedLifo
  <1> SUFFICES ASSUME StackList, StackValues, NEW p \in Poppers, sp[p] = "exit"
               PROVE  /\ {unstacked[p][j] : j \in 1..Len(unstacked[p])} = Pushers \X (0..M - 1)
                      /\ \A a, b \in 1..Len(unstacked[p]) :
                           a < b => ~(unstacked[p][a][1] = unstacked[p][b][1]
                                      /\ unstacked[p][a][2] <= unstacked[p][b][2])
    BY DEF Stack!AllPoppedLifo
  <1>v. StackTypes /\ StackPhases /\ ValueTypes /\ NoValueLost /\ LastInFirstOut
    BY DEF StackList, StackValues
  <1>1. head = Null /\ Poppers = {p} /\ ~Taken1(p) /\ Stack!PushersJoined
    BY <1>v, StackAssumption DEF StackPhases, Taken1
  <1>2. Listed = {}
    BY <1>v, <1>1, ChainNull, StackAssumption DEF Listed, StackTypes
  <1>3. unstacked[p] \in Seq(Values) /\ \A a \in 1..Len(unstacked[p]) : unstacked[p][a] \in Values
    BY <1>v DEF ValueTypes
  <1>4. ASSUME NEW t \in Pushers, NEW j \in 0..M - 1
        PROVE  \E a \in 1..Len(unstacked[p]) : unstacked[p][a] = <<t, j>>
    <2>1. j < k[t]
      BY <1>1, StackAssumption DEF Stack!PushersJoined
    <2> QED BY <1>v, <1>1, <1>2, <2>1 DEF NoValueLost
  <1>5. {unstacked[p][j] : j \in 1..Len(unstacked[p])} = Values
    <2>1. ASSUME NEW w \in Values PROVE \E a \in 1..Len(unstacked[p]) : unstacked[p][a] = w
      <3>1. PICK t \in Pushers, j \in 0..M - 1 : w = <<t, j>>
        BY DEF Values
      <3> QED BY <1>4, <3>1
    <2> QED BY <1>3, <2>1
  <1>6. ASSUME NEW a \in 1..Len(unstacked[p]), NEW b \in 1..Len(unstacked[p]), a < b,
               unstacked[p][a][1] = unstacked[p][b][1]
        PROVE  ~(unstacked[p][a][2] <= unstacked[p][b][2])
    <2>1. unstacked[p][b][2] < unstacked[p][a][2]
      BY <1>v, <1>6 DEF LastInFirstOut, Above
    <2>2. unstacked[p][a][2] \in Int /\ unstacked[p][b][2] \in Int
      BY <1>3, StackAssumption DEF Values
    <2> QED BY <2>1, <2>2
  <1> QED BY <1>5, <1>6 DEF Values

----------------------------------------------------------------------------
(* The programs together: shutdown, and the nodes of the stack.            *)

(* main returns from ~ThreadPool when the workers have left an empty queue. *)
LEMMA PoolDrained == PoolInv => Pool!DrainedAtEnd
  <1> SUFFICES ASSUME PoolTypes, PoolTasks, pc[Main] = "end"
               PROVE  /\ 1..Submitted \subseteq finished \cup failed
                      /\ \A t \in Spawners \cap finished : Submitted + t \in finished
    BY DEF Pool!DrainedAtEnd, Pool!child, PoolInv
  <1>1. \A x \in Workers : pc[x] = "exit"
    BY DEF PoolTasks
  <1>2. tasks_ = <<>> /\ submitted = Submitted
    BY <1>1, PoolAssumption DEF PoolTasks, PoolTypes
  <1>3. \A t : ~Held(t)
    BY <1>1, <1>2 DEF Held
  <1>4. \A t \in Spawners \cap finished : Spawned(t)
    BY <1>1 DEF Spawned
  <1> QED BY <1>2, <1>3, <1>4 DEF PoolTasks

(* Shutdown loses no work in the thread-safe queue, the logger, the thread *)
(* pool and the capstone, and the stack's destructor leaks no node: ends   *)
(* of thread_safe_queue.cpp, async_logger.cpp, thread_pool.h,              *)
(* hft_capstone_pipeline.cpp and lockfree_stack.cpp.                       *)
THEOREM NothingLostAtShutdown == Programs => []ShutdownLosesNothing
  <1>1. QueueInv => Queue!NothingAfterFalse
    BY DEF QueueInv, Queue!NothingAfterFalse
  <1>2. CapstoneInv => Capstone!DrainedAtExit
    BY DEF CapstoneInv, CapstoneRing, CapstoneFlag, Capstone!DrainedAtExit
  <1>3. StackList => Stack!NothingLeaked
    BY DEF StackList, StackPhases, Stack!NothingLeaked
  <1>4. QueueInv /\ LoggerOrder /\ PoolInv /\ CapstoneInv /\ StackList => ShutdownLosesNothing
    BY <1>1, <1>2, <1>3, LoggerFlushed, PoolDrained DEF ShutdownLosesNothing
  <1> QED BY <1>4, QueueInvariance, LoggerOrderInvariance, PoolInvariance, CapstoneInvariance,
             StackListInvariance, PTL
=============================================================================
