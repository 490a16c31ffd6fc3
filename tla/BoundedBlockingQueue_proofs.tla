--------------------- MODULE BoundedBlockingQueue_proofs ---------------------
(***************************************************************************)
(* For any finite sets of producers and consumers and every MaxSize: the   *)
(* queue stays within MaxSize, notify_one loses no wake-up, and the        *)
(* monitor is the bounded FIFO queue.                                      *)
(***************************************************************************)
EXTENDS BoundedBlockingQueue, FiniteSetTheorems, SequenceTheorems, TLAPS

----------------------------------------------------------------------------
(* Counting the threads that are awake. *)

(* Threads can be counted. *)
LEMMA AwakeCount ==
  /\ IsFiniteSet(AwakeProducers) /\ Cardinality(AwakeProducers) \in Nat
  /\ IsFiniteSet(AwakeConsumers) /\ Cardinality(AwakeConsumers) \in Nat
  <1>1. IsFiniteSet(AwakeProducers) /\ IsFiniteSet(AwakeConsumers)
    BY FS_Subset, ThreadsAssumption DEF AwakeProducers, AwakeConsumers
  <1> QED BY <1>1, FS_CardinalityType

(* A set that gains no member but loses at most one. *)
LEMMA LoseOne ==
  ASSUME NEW S, NEW T, NEW x, IsFiniteSet(S), IsFiniteSet(T), S \ {x} \subseteq T
  PROVE  /\ Cardinality(T) \in Nat /\ Cardinality(S) \in Nat
         /\ Cardinality(T) >= Cardinality(S) - 1
         /\ S \subseteq T => Cardinality(T) >= Cardinality(S)
  <1>1. Cardinality(S \ {x}) \in Nat /\ Cardinality(S) \in Nat /\ Cardinality(T) \in Nat
    BY FS_RemoveElement, FS_CardinalityType
  <1>2. Cardinality(S \ {x}) <= Cardinality(T)
    BY FS_Subset
  <1>3. Cardinality(S \ {x}) >= Cardinality(S) - 1
    BY <1>1, FS_RemoveElement, SMTT(30)
  <1>4. S \subseteq T => Cardinality(S) <= Cardinality(T)
    BY FS_Subset
  <1> QED BY <1>1, <1>2, <1>3, <1>4

(* A set that gains a new member. *)
LEMMA GainOne ==
  ASSUME NEW S, NEW T, NEW x, IsFiniteSet(S), IsFiniteSet(T), x \notin S, S \cup {x} \subseteq T
  PROVE  /\ Cardinality(T) \in Nat /\ Cardinality(S) \in Nat
         /\ Cardinality(T) >= Cardinality(S) + 1
  <1>1. IsFiniteSet(S \cup {x}) /\ Cardinality(S \cup {x}) = Cardinality(S) + 1
    BY FS_AddElement
  <1>2. Cardinality(S \cup {x}) <= Cardinality(T)
    BY FS_Subset
  <1>3. Cardinality(S) \in Nat /\ Cardinality(T) \in Nat
    BY FS_CardinalityType
  <1> QED BY <1>1, <1>2, <1>3

(* The same threads are awake after the step: the primed sets are finite. *)
LEMMA AwakeCountAfter ==
  /\ IsFiniteSet(AwakeProducers') /\ Cardinality(AwakeProducers') \in Nat
  /\ IsFiniteSet(AwakeConsumers') /\ Cardinality(AwakeConsumers') \in Nat
  <1>1. IsFiniteSet(AwakeProducers') /\ IsFiniteSet(AwakeConsumers')
    BY FS_Subset, ThreadsAssumption DEF AwakeProducers, AwakeConsumers
  <1> QED BY <1>1, FS_CardinalityType

(* notify_one takes one of the waiting threads, when there are any. *)
LEMMA NotifyOneFact ==
  ASSUME NEW W, NEW V, V \in NotifyOne(W)
  PROVE  /\ V \subseteq W
         /\ V # {} => \E t \in W : V = W \ {t}
  BY DEF NotifyOne

----------------------------------------------------------------------------
(* The initial queue is empty and nobody waits. *)
LEMMA InitInv == Init => IndInv
  <1> SUFFICES ASSUME Init PROVE IndInv
    OBVIOUS
  <1>1. 0 \in 0..Pushes /\ 0 \in 0..Pops /\ MaxSize >= 0
    BY QueueAssumption
  <1>2. queue \in Seq(Nat) /\ Len(queue) = 0 /\ popped \in Seq(Nat)
    BY DEF Init
  <1>3. pushes \in [Producers -> 0..Pushes] /\ pops \in [Consumers -> 0..Pops]
    BY <1>1 DEF Init
  <1>4. not_full = {} /\ not_empty = {}
    BY DEF Init
  <1>5. TypeOK
    BY <1>1, <1>2, <1>3, <1>4 DEF TypeOK
  <1> QED BY <1>4, <1>5 DEF IndInv, WaitersBusy, NoLostWakeup

(* push: one item more, one place less, a consumer woken. *)
LEMMA PushInv ==
  ASSUME IndInv, NEW p \in Producers, push(p)
  PROVE  IndInv'
  <1> USE DEF IndInv
  <1>0. /\ pushes[p] < Pushes /\ p \notin not_full /\ Len(queue) < MaxSize
        /\ not_full' = not_full /\ pops' = pops /\ popped' = popped
        /\ pushes' = [pushes EXCEPT ![p] = @ + 1]
        /\ not_empty' \in NotifyOne(not_empty)
        /\ queue' = Append(queue, pushed)
    BY DEF push, Producing
  <1>1. queue' \in Seq(Nat) /\ Len(queue') = Len(queue) + 1 /\ Len(queue) \in Nat
    <2>1. pushed \in Nat /\ Len(queue) \in Nat
      BY LenProperties DEF TypeOK, pushed
    <2> QED BY <1>0, <2>1, AppendProperties DEF TypeOK
  <1>2. not_empty' \subseteq not_empty /\ (not_empty' # {} => \E t \in not_empty : not_empty' = not_empty \ {t})
    BY <1>0, NotifyOneFact
  <1>3. pushes' \in [Producers -> 0..Pushes]
    BY <1>0, QueueAssumption DEF TypeOK
  <1>4. TypeOK'
    BY <1>0, <1>1, <1>2, <1>3, QueueAssumption DEF TypeOK
  <1>5. WaitersBusy'
    BY <1>0, <1>2 DEF WaitersBusy, TypeOK
  <1>6. ASSUME not_empty' # {}
        PROVE  Cardinality(AwakeConsumers') >= Len(queue')
    <2>1. PICK t \in not_empty : not_empty' = not_empty \ {t}
      BY <1>2, <1>6
    <2>2. t \notin AwakeConsumers /\ AwakeConsumers \cup {t} \subseteq AwakeConsumers'
      BY <1>0, <2>1 DEF AwakeConsumers, Consuming, WaitersBusy, TypeOK
    <2>3. Cardinality(AwakeConsumers') >= Cardinality(AwakeConsumers) + 1
      BY <2>2, GainOne, AwakeCount, AwakeCountAfter
    <2>4. Cardinality(AwakeConsumers) >= Len(queue)
      BY <2>1 DEF NoLostWakeup
    <2> QED BY <1>1, <2>3, <2>4, AwakeCount, AwakeCountAfter
  <1>7. ASSUME not_full' # {}
        PROVE  Cardinality(AwakeProducers') >= MaxSize - Len(queue')
    <2>1. AwakeProducers \ {p} \subseteq AwakeProducers'
      BY <1>0 DEF AwakeProducers, Producing, TypeOK
    <2>2. Cardinality(AwakeProducers') >= Cardinality(AwakeProducers) - 1
      BY <2>1, LoseOne, AwakeCount, AwakeCountAfter
    <2>3. Cardinality(AwakeProducers) >= MaxSize - Len(queue)
      BY <1>0, <1>7 DEF NoLostWakeup
    <2> QED BY <1>1, <2>2, <2>3, AwakeCount, AwakeCountAfter, QueueAssumption
  <1>8. NoLostWakeup'
    BY <1>6, <1>7 DEF NoLostWakeup
  <1> QED BY <1>4, <1>5, <1>8

(* pop: one item less, one place more, a producer woken. *)
LEMMA PopInv ==
  ASSUME IndInv, NEW c \in Consumers, pop(c)
  PROVE  IndInv'
  <1> USE DEF IndInv
  <1>0. /\ pops[c] < Pops /\ c \notin not_empty /\ queue # <<>>
        /\ not_empty' = not_empty /\ pushes' = pushes
        /\ popped' = Append(popped, Head(queue))
        /\ pops' = [pops EXCEPT ![c] = @ + 1]
        /\ not_full' \in NotifyOne(not_full)
        /\ queue' = Tail(queue)
    BY DEF pop, Consuming
  <1>1. /\ queue' \in Seq(Nat) /\ Len(queue') = Len(queue) - 1 /\ Len(queue) \in Nat
        /\ Len(queue) >= 1 /\ popped' \in Seq(Nat)
    <2>1. queue \in Seq(Nat) /\ queue # <<>> /\ popped \in Seq(Nat)
      BY <1>0 DEF TypeOK
    <2>2. Head(queue) \in Nat /\ Tail(queue) \in Seq(Nat) /\ Len(Tail(queue)) = Len(queue) - 1
      BY <2>1, HeadTailProperties
    <2>3. Len(queue) \in Nat /\ Len(queue) # 0
      BY <2>1, EmptySeq, LenProperties
    <2>4. Append(popped, Head(queue)) \in Seq(Nat)
      BY <2>1, <2>2, AppendProperties
    <2> QED BY <1>0, <2>2, <2>3, <2>4
  <1>2. not_full' \subseteq not_full /\ (not_full' # {} => \E t \in not_full : not_full' = not_full \ {t})
    BY <1>0, NotifyOneFact
  <1>3. pops' \in [Consumers -> 0..Pops]
    BY <1>0, QueueAssumption, SMTT(30) DEF TypeOK
  <1>4. TypeOK'
    BY <1>0, <1>1, <1>2, <1>3, QueueAssumption DEF TypeOK
  <1>5. WaitersBusy'
    BY <1>0, <1>2 DEF WaitersBusy, TypeOK
  <1>6. ASSUME not_full' # {}
        PROVE  Cardinality(AwakeProducers') >= MaxSize - Len(queue')
    <2>1. PICK t \in not_full : not_full' = not_full \ {t}
      BY <1>2, <1>6
    <2>2. t \notin AwakeProducers /\ AwakeProducers \cup {t} \subseteq AwakeProducers'
      BY <1>0, <2>1 DEF AwakeProducers, Producing, WaitersBusy, TypeOK
    <2>3. Cardinality(AwakeProducers') >= Cardinality(AwakeProducers) + 1
      BY <2>2, GainOne, AwakeCount, AwakeCountAfter
    <2>4. Cardinality(AwakeProducers) >= MaxSize - Len(queue)
      BY <2>1 DEF NoLostWakeup
    <2> QED BY <1>1, <2>3, <2>4, AwakeCount, AwakeCountAfter, QueueAssumption
  <1>7. ASSUME not_empty' # {}
        PROVE  Cardinality(AwakeConsumers') >= Len(queue')
    <2>1. AwakeConsumers \ {c} \subseteq AwakeConsumers'
      BY <1>0 DEF AwakeConsumers, Consuming, TypeOK
    <2>2. Cardinality(AwakeConsumers') >= Cardinality(AwakeConsumers) - 1
      BY <2>1, LoseOne, AwakeCount, AwakeCountAfter
    <2>3. Cardinality(AwakeConsumers) >= Len(queue)
      BY <1>0, <1>7 DEF NoLostWakeup
    <2> QED BY <1>1, <2>2, <2>3, AwakeCount, AwakeCountAfter
  <1>8. NoLostWakeup'
    BY <1>6, <1>7 DEF NoLostWakeup
  <1> QED BY <1>4, <1>5, <1>8

(* A producer waits only for a full queue, which needs nobody awake. *)
LEMMA PushWaitsInv ==
  ASSUME IndInv, NEW p \in Producers, PushWaits(p)
  PROVE  IndInv'
  <1> USE DEF IndInv
  <1>0. /\ pushes[p] < Pushes /\ ~(Len(queue) < MaxSize)
        /\ not_full' = not_full \cup {p}
        /\ UNCHANGED <<queue, not_empty, pushes, pops, popped>>
    BY DEF PushWaits, Producing
  <1>1. TypeOK' /\ WaitersBusy'
    BY <1>0 DEF TypeOK, WaitersBusy
  <1>2. MaxSize - Len(queue') <= 0 /\ Len(queue') \in Nat
    BY <1>0, LenProperties, QueueAssumption DEF TypeOK
  <1>3. AwakeConsumers' = AwakeConsumers
    BY <1>0 DEF AwakeConsumers, Consuming
  <1>4. Cardinality(AwakeProducers') >= MaxSize - Len(queue')
    BY <1>2, AwakeCountAfter, QueueAssumption
  <1>5. NoLostWakeup'
    BY <1>0, <1>3, <1>4 DEF NoLostWakeup
  <1> QED BY <1>1, <1>5

(* A consumer waits only for an empty queue, which needs nobody awake. *)
LEMMA PopWaitsInv ==
  ASSUME IndInv, NEW c \in Consumers, PopWaits(c)
  PROVE  IndInv'
  <1> USE DEF IndInv
  <1>0. /\ pops[c] < Pops /\ queue = <<>>
        /\ not_empty' = not_empty \cup {c}
        /\ UNCHANGED <<queue, not_full, pushes, pops, popped>>
    BY DEF PopWaits, Consuming
  <1>1. TypeOK' /\ WaitersBusy'
    BY <1>0 DEF TypeOK, WaitersBusy
  <1>2. Len(queue') = 0
    BY <1>0
  <1>3. AwakeProducers' = AwakeProducers
    BY <1>0 DEF AwakeProducers, Producing
  <1>4. Cardinality(AwakeConsumers') >= Len(queue')
    BY <1>2, AwakeCountAfter
  <1>5. NoLostWakeup'
    BY <1>0, <1>3, <1>4 DEF NoLostWakeup
  <1> QED BY <1>1, <1>5

(* A spurious wake-up adds a thread to those awake. *)
LEMMA SpuriousInv ==
  ASSUME IndInv, Spurious
  PROVE  IndInv'
  <1> USE DEF IndInv
  <1>0. /\ not_full' \subseteq not_full /\ not_empty' \subseteq not_empty
        /\ UNCHANGED <<queue, pushes, pops, popped>>
    BY DEF Spurious, SpuriousWakeup
  <1>1. TypeOK' /\ WaitersBusy'
    BY <1>0 DEF TypeOK, WaitersBusy
  <1>2. AwakeProducers \subseteq AwakeProducers' /\ AwakeConsumers \subseteq AwakeConsumers'
    BY <1>0 DEF AwakeProducers, AwakeConsumers, Producing, Consuming
  <1>3. Cardinality(AwakeProducers') >= Cardinality(AwakeProducers)
    BY <1>2, FS_Subset, AwakeCount, AwakeCountAfter
  <1>4. Cardinality(AwakeConsumers') >= Cardinality(AwakeConsumers)
    BY <1>2, FS_Subset, AwakeCount, AwakeCountAfter
  <1>5. Len(queue) \in Nat
    BY LenProperties DEF TypeOK
  <1>6. not_empty' # {} => Cardinality(AwakeConsumers') >= Len(queue')
    BY <1>0, <1>4, <1>5, AwakeCount, AwakeCountAfter DEF NoLostWakeup
  <1>7. not_full' # {} => Cardinality(AwakeProducers') >= MaxSize - Len(queue')
    BY <1>0, <1>3, <1>5, AwakeCount, AwakeCountAfter, QueueAssumption DEF NoLostWakeup
  <1> QED BY <1>1, <1>6, <1>7 DEF NoLostWakeup

----------------------------------------------------------------------------
(* The invariant holds in every state of every execution. *)
THEOREM Invariance == Spec => []IndInv
  <1>1. IndInv /\ [Next]_vars => IndInv'
    <2> SUFFICES ASSUME IndInv, [Next]_vars PROVE IndInv'
      OBVIOUS
    <2>1. CASE \E p \in Producers : Producer(p)
      BY <2>1, PushInv, PushWaitsInv DEF Producer
    <2>2. CASE \E c \in Consumers : Consumer(c)
      BY <2>2, PopInv, PopWaitsInv DEF Consumer
    <2>3. CASE Spurious
      BY <2>3, SpuriousInv
    <2>4. CASE UNCHANGED vars
      BY <2>4 DEF vars, IndInv, TypeOK, WaitersBusy, NoLostWakeup, AwakeProducers,
                  AwakeConsumers, Producing, Consuming
    <2> QED BY <2>1, <2>2, <2>3, <2>4 DEF Next, Joined
  <1> QED BY InitInv, <1>1, PTL DEF Spec

(* queue_ never holds more than MaxSize items, whatever threads push. *)
THEOREM TypeCorrect == Spec => []TypeOK
  <1>1. IndInv => TypeOK
    BY DEF IndInv
  <1> QED BY <1>1, Invariance, PTL

(* One notify_one per push and per pop is enough for any number of         *)
(* threads: every item and every free place has a thread awake for it as   *)
(* long as a thread that could use it is waiting.                          *)
THEOREM NotifyOneSuffices == Spec => []NoLostWakeup
  <1>1. IndInv => NoLostWakeup
    BY DEF IndInv
  <1> QED BY <1>1, Invariance, PTL

----------------------------------------------------------------------------
(* The monitor implements the FIFO queue.  That no item is offered beyond  *)
(* the last one is counted over all producers: every push that was made is *)
(* one of the pairs of a producer and the number of its call.              *)
Calls == Producers \X (0..Pushes - 1)
Made(f) == {x \in Calls : x[2] < f[x[1]]}
Counted == Cardinality(Made(pushes)) = pushed

LEMMA CallsCount ==
  /\ IsFiniteSet(Calls) /\ Cardinality(Calls) = Total /\ Total \in Nat
  /\ \A f : IsFiniteSet(Made(f)) /\ Cardinality(Made(f)) \in Nat
  <1>1. IsFiniteSet(0..Pushes - 1) /\ Cardinality(0..Pushes - 1) = Pushes
    <2>1. Pushes \in Nat /\ Pushes - 1 \in Int /\ 0 \in Int
      BY QueueAssumption
    <2>2. /\ IsFiniteSet(0..Pushes - 1)
          /\ Cardinality(0..Pushes - 1) = IF 0 > Pushes - 1 THEN 0 ELSE (Pushes - 1) - 0 + 1
      BY <2>1, FS_Interval
    <2> QED BY <2>1, <2>2
  <1>2. IsFiniteSet(Calls) /\ Cardinality(Calls) = Total
    <2>1. PICK D : D = 0..Pushes - 1 /\ IsFiniteSet(D) /\ Cardinality(D) = Pushes
      BY <1>1
    <2>2. /\ IsFiniteSet(Producers \X D)
          /\ Cardinality(Producers \X D) = Cardinality(Producers) * Cardinality(D)
      BY <2>1, FS_Product, ThreadsAssumption
    <2> QED BY <2>1, <2>2, Zenon DEF Calls, Total
  <1>3. Cardinality(Calls) \in Nat
    BY <1>2, FS_CardinalityType
  <1>4. ASSUME NEW f PROVE IsFiniteSet(Made(f)) /\ Cardinality(Made(f)) \in Nat
    <2>1. Made(f) \subseteq Calls
      BY DEF Made
    <2>2. IsFiniteSet(Made(f))
      BY <1>2, <2>1, FS_Subset
    <2> QED BY <2>2, FS_CardinalityType
  <1> QED BY <1>2, <1>3, <1>4

(* A push makes one pair more, which was not there before. *)
LEMMA OneMoreCall ==
  ASSUME NEW f \in [Producers -> 0..Pushes], NEW p \in Producers, f[p] < Pushes
  PROVE  /\ Cardinality(Made([f EXCEPT ![p] = @ + 1])) = Cardinality(Made(f)) + 1
         /\ Cardinality(Made(f)) < Total
  <1>1. PICK g : g = [f EXCEPT ![p] = @ + 1]
    OBVIOUS
  <1>2. PICK x : x = <<p, f[p]>>
    OBVIOUS
  <1>3. x \in Calls /\ x \notin Made(f)
    <2>1. f[p] \in 0..Pushes - 1
      BY QueueAssumption
    <2> QED BY <1>2, <2>1 DEF Calls, Made
  <1>4. Made(g) = Made(f) \cup {x}
    <2>1. \A y \in Producers : g[y] = IF y = p THEN f[p] + 1 ELSE f[y]
      BY <1>1
    <2>2. ASSUME NEW y \in Producers, NEW k \in 0..Pushes - 1
          PROVE  <<y, k>> \in Made(g) <=> <<y, k>> \in Made(f) \cup {x}
      <3>1. <<y, k>> \in Made(g) <=> k < g[y]
        BY DEF Made, Calls
      <3>2. <<y, k>> \in Made(f) <=> k < f[y]
        BY DEF Made, Calls
      <3>3. <<y, k>> = x <=> y = p /\ k = f[p]
        BY <1>2
      <3>4. k < f[p] + 1 <=> k < f[p] \/ k = f[p]
        BY QueueAssumption
      <3>5. CASE y = p
        BY <2>1, <3>1, <3>2, <3>3, <3>4, <3>5
      <3>6. CASE y # p
        BY <2>1, <3>1, <3>2, <3>3, <3>6
      <3> QED BY <3>5, <3>6
    <2>3. Made(g) \subseteq Calls /\ Made(f) \cup {x} \subseteq Calls
      BY <1>3 DEF Made
    <2>4. \A z \in Calls : \E y \in Producers, k \in 0..Pushes - 1 : z = <<y, k>>
      BY DEF Calls
    <2> QED BY <2>2, <2>3, <2>4
  <1>5. Cardinality(Made(g)) = Cardinality(Made(f)) + 1
    BY <1>3, <1>4, CallsCount, FS_AddElement
  <1>6. Cardinality(Made(g)) <= Total
    <2>1. Made(g) \subseteq Calls
      BY DEF Made
    <2> QED BY <2>1, CallsCount, FS_Subset
  <1> QED BY <1>1, <1>5, <1>6, CallsCount

(* Every push is counted. *)
LEMMA CountedStep ==
  ASSUME IndInv, Counted, [Next]_vars
  PROVE  Counted'
  <1>1. queue \in Seq(Nat) /\ popped \in Seq(Nat) /\ pushes \in [Producers -> 0..Pushes]
        /\ Len(queue) \in Nat /\ Len(popped) \in Nat
    BY LenProperties DEF IndInv, TypeOK
  <1>2. ASSUME NEW p \in Producers, push(p) PROVE Counted'
    <2>1. /\ pushes' = [pushes EXCEPT ![p] = @ + 1] /\ pushes[p] < Pushes
          /\ queue' = Append(queue, pushed) /\ popped' = popped
      BY <1>2 DEF push, Producing
    <2>2. Len(queue') = Len(queue) + 1
      BY <1>1, <2>1, AppendProperties DEF pushed
    <2>3. Cardinality(Made(pushes')) = Cardinality(Made(pushes)) + 1
      BY <1>1, <2>1, OneMoreCall
    <2> QED BY <1>1, <2>1, <2>2, <2>3 DEF Counted, pushed
  <1>3. ASSUME NEW c \in Consumers, pop(c) PROVE Counted'
    <2>1. /\ queue # <<>> /\ queue' = Tail(queue) /\ popped' = Append(popped, Head(queue))
          /\ pushes' = pushes
      BY <1>3 DEF pop
    <2>2. Len(queue') = Len(queue) - 1 /\ Head(queue) \in Nat
      BY <1>1, <2>1, HeadTailProperties
    <2>3. Len(popped') = Len(popped) + 1
      BY <1>1, <2>1, <2>2, AppendProperties
    <2>4. pushed' = pushed
      BY <1>1, <2>2, <2>3 DEF pushed
    <2> QED BY <2>1, <2>4 DEF Counted
  <1>4. CASE UNCHANGED <<queue, popped, pushes>>
    BY <1>4 DEF Counted, pushed
  <1> QED BY <1>2, <1>3, <1>4 DEF Next, Producer, Consumer, PushWaits, PopWaits, Spurious, Joined, vars

(* Every step is a push or a pop of the FIFO queue, or changes nothing of  *)
(* it.                                                                     *)
LEMMA StepOfFifo ==
  ASSUME IndInv, Counted, [Next]_vars
  PROVE  [Fifo!Next]_(Fifo!vars)
  <1>1. queue \in Seq(Nat) /\ popped \in Seq(Nat) /\ pushes \in [Producers -> 0..Pushes]
        /\ Len(queue) \in Nat /\ Len(popped) \in Nat
    BY LenProperties DEF IndInv, TypeOK
  <1>2. ASSUME NEW p \in Producers, push(p) PROVE Fifo!Push
    <2>1. /\ pushes[p] < Pushes /\ Len(queue) < MaxSize
          /\ queue' = Append(queue, pushed) /\ popped' = popped
      BY <1>2 DEF push, Producing
    <2>2. pushed < Total
      BY <1>1, <2>1, OneMoreCall DEF Counted
    <2>3. Len(queue') = Len(queue) + 1
      BY <1>1, <2>1, AppendProperties DEF pushed
    <2>4. pushed' = pushed + 1
      BY <1>1, <2>1, <2>3 DEF pushed
    <2> QED BY <2>1, <2>2, <2>4 DEF Fifo!Push
  <1>3. ASSUME NEW c \in Consumers, pop(c) PROVE Fifo!Pop
    <2>1. queue # <<>> /\ queue' = Tail(queue) /\ popped' = Append(popped, Head(queue))
      BY <1>3 DEF pop
    <2>2. Len(queue') = Len(queue) - 1 /\ Head(queue) \in Nat
      BY <1>1, <2>1, HeadTailProperties
    <2>3. Len(popped') = Len(popped) + 1
      BY <1>1, <2>1, <2>2, AppendProperties
    <2>4. pushed' = pushed
      BY <1>1, <2>2, <2>3 DEF pushed
    <2> QED BY <2>1, <2>4 DEF Fifo!Pop
  <1>4. CASE UNCHANGED <<queue, popped>>
    BY <1>4 DEF Fifo!vars, pushed
  <1> QED BY <1>2, <1>3, <1>4 DEF Fifo!Next, Next, Producer, Consumer, PushWaits, PopWaits,
                                  Spurious, Joined, vars

(* The safety part of ImplementsFifo: with both condition variables and    *)
(* any number of threads on either side the monitor is the bounded FIFO    *)
(* queue of Total items.                                                   *)
THEOREM Refinement == Spec => Fifo!Init /\ [][Fifo!Next]_(Fifo!vars)
  <1>1. Init => Counted /\ Fifo!Init
    <2> SUFFICES ASSUME Init PROVE Counted /\ Fifo!Init
      OBVIOUS
    <2>1. queue = <<>> /\ popped = <<>> /\ pushes = [p \in Producers |-> 0] /\ pushed = 0
      BY DEF Init, pushed
    <2>2. Made(pushes) = {}
      <3>1. \A x \in Calls : x[1] \in Producers /\ x[2] \in Nat
        BY QueueAssumption DEF Calls
      <3> QED BY <2>1, <3>1 DEF Made
    <2> QED BY <2>1, <2>2, FS_EmptySet DEF Counted, Fifo!Init
  <1>2. IndInv /\ Counted /\ [Next]_vars => Counted'
    BY CountedStep
  <1>3. IndInv /\ Counted /\ [Next]_vars => [Fifo!Next]_(Fifo!vars)
    BY StepOfFifo
  <1> QED BY <1>1, <1>2, <1>3, Invariance, PTL DEF Spec
=============================================================================
