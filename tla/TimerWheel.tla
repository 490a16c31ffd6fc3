----------------------------- MODULE TimerWheel -----------------------------
(***************************************************************************)
(* topics/io/timer_wheel.cpp.  schedule_after reads current_slot_ before   *)
(* it takes the mutex and tick moves it before it takes the mutex: the     *)
(* steps of a scheduling thread and of the ticking thread interleave       *)
(* there.  A callback may itself call schedule_after, on the ticking       *)
(* thread.                                                                 *)
(***************************************************************************)
EXTENDS Integers, Sequences, FiniteSets

CONSTANTS Slots,                 \* slots_.size()
          Delays,                \* in tick intervals, rounded down
          MaxTicks, MaxCallbacks \* the bounds of a run

VARIABLES slots_, current_slot_,
          slot,        \* schedule_after of the other thread: the slot it has computed, or -1
          tp, to_run,  \* tick: where it is, the callbacks it has taken
          now,         \* the ticks so far
          cbs          \* every callback: its delay, when its slot was read (and whether no
                       \* tick was about to take a slot), when it was pushed and run

vars == <<slots_, current_slot_, slot, tp, to_run, now, cbs>>

Ticks(delay) == IF delay = 0 THEN 1 ELSE delay
SlotAtOnce(delay) == (current_slot_ + delay) % Slots
SlotAfter(delay) == (current_slot_ + Ticks(delay)) % Slots
Callback(delay, pushed) ==
  [ticks |-> Ticks(delay), read |-> now, calm |-> tp # "swap", pushed |-> pushed, ran |-> {}]

Init ==
  /\ slots_ = [s \in 0..Slots - 1 |-> <<>>] /\ current_slot_ = 0 /\ slot = -1
  /\ tp = "idle" /\ to_run = <<>> /\ now = 0 /\ cbs = <<>>

\* schedule_after: up to the lock, and under it
ScheduleRead ==
  /\ slot = -1 /\ Len(cbs) < MaxCallbacks
  /\ \E d \in Delays : slot' = SlotAfter(d) /\ cbs' = Append(cbs, Callback(d, -1))
  /\ UNCHANGED <<slots_, current_slot_, tp, to_run, now>>
Mine == CHOOSE k \in DOMAIN cbs : cbs[k].pushed = -1
SchedulePush ==
  /\ slot # -1 /\ slot' = -1
  /\ slots_' = [slots_ EXCEPT ![slot] = Append(@, Mine)]
  /\ cbs' = [cbs EXCEPT ![Mine].pushed = now]
  /\ UNCHANGED <<current_slot_, tp, to_run, now>>

\* tick: moves on, takes the slot's callbacks under the lock, runs them one by one
TickMove ==
  /\ tp = "idle" /\ now < MaxTicks /\ tp' = "swap"
  /\ current_slot_' = (current_slot_ + 1) % Slots /\ now' = now + 1
  /\ UNCHANGED <<slots_, slot, to_run, cbs>>
TickSwap ==
  /\ tp = "swap" /\ tp' = "run"
  /\ to_run' = slots_[current_slot_] /\ slots_' = [slots_ EXCEPT ![current_slot_] = <<>>]
  /\ UNCHANGED <<current_slot_, slot, now, cbs>>
Ran == [cbs EXCEPT ![Head(to_run)].ran = @ \cup {now}]
TickRun ==
  /\ tp = "run" /\ to_run # <<>> /\ to_run' = Tail(to_run)
  /\ \/ cbs' = Ran /\ UNCHANGED slots_
     \/ \E d \in Delays :                    \* the callback schedules another one
          /\ Len(cbs) < MaxCallbacks /\ cbs' = Append(Ran, Callback(d, now))
          /\ slots_' = [slots_ EXCEPT ![SlotAfter(d)] = Append(@, Len(cbs) + 1)]
  /\ UNCHANGED <<current_slot_, slot, tp, now>>
TickReturn ==
  /\ tp = "run" /\ to_run = <<>> /\ tp' = "idle"
  /\ UNCHANGED <<slots_, current_slot_, slot, to_run, now, cbs>>

Next == ScheduleRead \/ SchedulePush \/ TickMove \/ TickSwap \/ TickRun \/ TickReturn

----------------------------------------------------------------------------
(* A callback runs once, and waits for no more than one round of the       *)
(* wheel.  It runs when its delay is over if the delay is at most a round  *)
(* and no tick took its callbacks while it was being scheduled; a longer   *)
(* delay is cut short by whole rounds, and a tick in between makes a       *)
(* callback early or late by a round, never by more and never lost.        *)
TimersOnTime ==
  \A k \in DOMAIN cbs :
    LET c == cbs[k]  due == c.read + c.ticks IN
    /\ Cardinality(c.ran) <= 1
    /\ c.ran = {} /\ c.pushed # -1 => now <= c.pushed + Slots
    /\ \A t \in c.ran :
         /\ t % Slots = due % Slots
         /\ c.pushed <= t /\ t <= c.pushed + Slots
         /\ c.calm /\ c.pushed = c.read => t > c.read /\ (c.ticks <= Slots => t = due)
=============================================================================
