----------------------------- MODULE Reconciler -----------------------------
(***************************************************************************)
(* The scan reconcilers of extras/citadel_interview/main.cpp.  The sorted  *)
(* vector of ReconcilerVectorScan and the unordered_map of                 *)
(* ReconcilerUnorderedScan are both the function by_id, and both onTimer   *)
(* scans erase exactly the expired entries.  The other classes promise     *)
(* what this one does, faster.                                             *)
(***************************************************************************)
EXTENDS FeedEntry

New == [by_id |-> [id \in {} |-> Blank], last_timer |-> 0, alerts |-> 0]

isExpired(ent, t) == t >= expireAt(ent)

onTimer(s, t) ==
  LET kept == {id \in DOMAIN s.by_id : ~isExpired(s.by_id[id], t)}
  IN  [s EXCEPT !.last_timer = t, !.by_id = [id \in kept |-> s.by_id[id]]]

getOrCreate(s, id) == IF id \in DOMAIN s.by_id THEN s.by_id[id] ELSE Blank

Stored(s, e) ==
  LET ent == getOrCreate(s, e.id)
  IN  [s EXCEPT !.by_id = [id \in DOMAIN @ \cup {e.id} |->
                             IF id = e.id THEN Updated(ent, e) ELSE @[id]],
                !.alerts = @ + Raised(ent, e)]
UndroppedOnFeed(s, e) == Stored(s, e)
onFeed(s, e) == IF TooLate(e, s.last_timer) THEN s ELSE Stored(s, e)

Contents(s) == s.by_id
=============================================================================
