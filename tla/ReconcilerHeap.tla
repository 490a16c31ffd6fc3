--------------------------- MODULE ReconcilerHeap ---------------------------
(***************************************************************************)
(* ReconcilerUnorderedHeap: an unordered_map and a min-heap of             *)
(* expirations, with one element pushed for every event.                   *)
(* ReconcilerUnorderedHeapReserved is the same code with reserve() calls.  *)
(* The heap is a set: an element is pushed again by every event of its     *)
(* entry, but popping it a second time finds the entry gone.               *)
(***************************************************************************)
EXTENDS FeedEntry

New == [by_id |-> [id \in {} |-> Blank], expiry |-> {}, last_timer |-> 0, alerts |-> 0]

(* The loop pops every element with expire_at <= t, and erases the entry   *)
(* that still has the popped expiration.                                   *)
Popped(s, t) == {x \in s.expiry : x.expire_at <= t}
Victims(s, t) == {id \in DOMAIN s.by_id : Exp(s.by_id[id], id) \in Popped(s, t)}

onTimer(s, t) ==
  LET kept == DOMAIN s.by_id \ Victims(s, t)
  IN  [s EXCEPT !.last_timer = t,
                !.expiry = @ \ Popped(s, t),
                !.by_id = [id \in kept |-> @[id]]]

Look(s, id) == IF id \in DOMAIN s.by_id THEN s.by_id[id] ELSE Blank

onFeed(s, e) ==
  IF TooLate(e, s.last_timer) THEN s
  ELSE LET ent == Updated(Look(s, e.id), e) IN
    [s EXCEPT !.by_id = [id \in DOMAIN @ \cup {e.id} |-> IF id = e.id THEN ent ELSE @[id]],
              !.expiry = @ \cup {Exp(ent, e.id)},
              !.alerts = @ + Raised(Look(s, e.id), e)]

Contents(s) == s.by_id
=============================================================================
