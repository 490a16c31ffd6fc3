-------------------------- MODULE DirectIndexWheel --------------------------
(***************************************************************************)
(* ReconcilerDirectIndexWheel: a vector of entries indexed by id, and a    *)
(* timer wheel of tick_mod buckets of ids.                                 *)
(***************************************************************************)
EXTENDS FeedEntry

CONSTANTS max_id, tick_mod   \* distinct_ids + 5 and 4096 in main

Buckets == 0..tick_mod - 1

New ==
  [entries |-> [id \in 0..max_id |-> Blank], active |-> [id \in 0..max_id |-> FALSE],
   wheel |-> [b \in Buckets |-> {}], last_timer |-> 0, alerts |-> 0]

(* The ticks of the loop that find bucket b still full: the first one that *)
(* maps to it, as the bucket is cleared then.                              *)
Ticks(s, now) == s.last_timer + 1..now
FirstTick(s, t, now) == \A u \in Ticks(s, now) : u % tick_mod = t % tick_mod => t <= u

Victims(s, now) ==
  {id \in 0..max_id :
     /\ s.active[id]
     /\ \E t \in Ticks(s, now) : /\ FirstTick(s, t, now)
                                 /\ id \in s.wheel[t % tick_mod]
                                 /\ expireAt(s.entries[id]) <= t}

onTimer(s, now) ==
  LET out == Victims(s, now) IN
  [s EXCEPT
     !.entries = [id \in 0..max_id |-> IF id \in out THEN Blank ELSE @[id]],
     !.active = [id \in 0..max_id |-> @[id] /\ id \notin out],
     !.wheel = [b \in Buckets |->
                  IF \E t \in Ticks(s, now) : t % tick_mod = b THEN {} ELSE @[b]],
     !.last_timer = now]

(* A vector of ids; a repeated id is skipped the second time as inactive. *)
scheduleFromTimer(s, id, expire_at) ==
  [s.wheel EXCEPT ![(s.last_timer + Window) % tick_mod] = @ \cup {id}]
scheduleExpiry(s, id, expire_at) ==
  [s.wheel EXCEPT ![expire_at % tick_mod] = @ \cup {id}]

onFeed(s, e) ==
  IF TooLate(e, s.last_timer) \/ e.id > max_id THEN s
  ELSE LET ent == Updated(s.entries[e.id], e) IN
    [s EXCEPT !.entries[e.id] = ent,
              !.active[e.id] = TRUE,
              !.wheel = IF s.active[e.id] THEN @ ELSE scheduleExpiry(s, e.id, expireAt(ent)),
              !.alerts = @ + Raised(s.entries[e.id], e)]

ActiveIds(s) == {id \in 0..max_id : s.active[id]}
Contents(s) == [id \in ActiveIds(s) |-> s.entries[id]]
=============================================================================
