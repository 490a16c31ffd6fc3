-------------------------- MODULE DirectIndexHeap --------------------------
(***************************************************************************)
(* ReconcilerDirectIndexHeap: a vector of entries indexed by id, and a     *)
(* min-heap with one element pushed when an entry becomes active.          *)
(***************************************************************************)
EXTENDS FeedEntry, Bags

CONSTANT max_id   \* distinct_ids + 5 in main

New ==
  [entries |-> [id \in 0..max_id |-> Blank], active |-> [id \in 0..max_id |-> FALSE],
   expiry |-> EmptyBag, last_timer |-> 0, alerts |-> 0]

Popped(s, t) == {x \in BagToSet(s.expiry) : x.expire_at <= t}
Victims(s, t) == {id \in 0..max_id : s.active[id] /\ Exp(s.entries[id], id) \in Popped(s, t)}

onTimer(s, t) ==
  LET out == Victims(s, t) IN
  [s EXCEPT !.last_timer = t,
            !.expiry = [x \in BagToSet(@) \ Popped(s, t) |-> @[x]],
            !.entries = [id \in 0..max_id |-> IF id \in out THEN Blank ELSE @[id]],
            !.active = [id \in 0..max_id |-> @[id] /\ id \notin out]]

(* Pushed when the entry was not active, and only then. *)
PushedAlways(s, id, ent) == SetToBag({Exp(ent, id)})
Pushed(s, id, ent) == IF s.active[id] THEN EmptyBag ELSE SetToBag({Exp(ent, id)})

onFeed(s, e) ==
  IF TooLate(e, s.last_timer) \/ e.id > max_id THEN s
  ELSE LET ent == Updated(s.entries[e.id], e) IN
    [s EXCEPT !.entries[e.id] = ent,
              !.active[e.id] = TRUE,
              !.expiry = @ (+) Pushed(s, e.id, ent),
              !.alerts = @ + Raised(s.entries[e.id], e)]

ActiveIds(s) == {id \in 0..max_id : s.active[id]}
Contents(s) == [id \in ActiveIds(s) |-> s.entries[id]]
=============================================================================
