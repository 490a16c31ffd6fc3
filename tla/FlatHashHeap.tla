---------------------------- MODULE FlatHashHeap ----------------------------
(***************************************************************************)
(* ReconcilerFlatHashHeap: the flat table and a min-heap of expirations,   *)
(* one element pushed per event.  The heap is a set here: popping a        *)
(* repeated element finds nothing to erase.                                *)
(***************************************************************************)
EXTENDS FlatHash

New(probe) == [table |-> EmptyTable(probe), expiry |-> {}, last_timer |-> 0, alerts |-> 0]

Popped(s, t) == {x \in s.expiry : x.expire_at <= t}
Victims(s, t) ==
  {p \in UsedSlots(s.table) :
     \E x \in Popped(s, t) : /\ findIndex(s.table, x.id) = p
                             /\ expireAt(s.table.entries[p]) = x.expire_at}

onTimer(s, t) ==
  [s EXCEPT !.last_timer = t,
            !.expiry = @ \ Popped(s, t),
            !.table = Erase(@, Victims(s, t))]

onFeed(s, e) ==
  IF TooLate(e, s.last_timer) THEN s
  ELSE LET ent == Updated(Found(s.table, e.id), e) IN
    [s EXCEPT !.table = Store(@, e.id, ent),
              !.expiry = @ \cup {Exp(ent, e.id)},
              !.alerts = @ + Raised(Found(s.table, e.id), e)]

Contents(s) == Stored(s.table)
=============================================================================
