---------------------------- MODULE FlatHashWheel ----------------------------
(***************************************************************************)
(* ReconcilerFlatHashWheel: the flat table and a timer wheel.              *)
(***************************************************************************)
EXTENDS FlatHash

CONSTANT tick_mod

Buckets == 0..tick_mod - 1
New(probe) ==
  [table |-> EmptyTable(probe), wheel |-> [b \in Buckets |-> {}],
   last_timer |-> 0, alerts |-> 0]

(* As in DirectIndexWheel: a bucket is read at the first tick it gets. *)
Ticks(s, now) == s.last_timer + 1..now
FirstTick(s, t, now) == \A u \in Ticks(s, now) : u % tick_mod = t % tick_mod => t <= u
Victims(s, now) ==
  {p \in UsedSlots(s.table) :
     \E t \in Ticks(s, now) :
       /\ FirstTick(s, t, now)
       /\ \E id \in s.wheel[t % tick_mod] : findIndex(s.table, id) = p
       /\ expireAt(s.table.entries[p]) <= t}

onTimer(s, now) ==
  [s EXCEPT !.table = Erase(@, Victims(s, now)),
            !.wheel = [b \in Buckets |->
                         IF \E t \in Ticks(s, now) : t % tick_mod = b THEN {} ELSE @[b]],
            !.last_timer = now]

(* schedule, when first_ts was not set yet. *)
schedule(s, e, ent) ==
  IF Found(s.table, e.id).first_ts # 0 THEN s.wheel
  ELSE [s.wheel EXCEPT ![expireAt(ent) % tick_mod] = @ \cup {e.id}]

onFeed(s, e) ==
  IF TooLate(e, s.last_timer) THEN s
  ELSE LET ent == Updated(Found(s.table, e.id), e) IN
    [s EXCEPT !.table = Store(@, e.id, ent),
              !.wheel = schedule(s, e, ent),
              !.alerts = @ + Raised(Found(s.table, e.id), e)]

Contents(s) == Stored(s.table)
=============================================================================
