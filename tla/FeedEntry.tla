----------------------------- MODULE FeedEntry -----------------------------
(***************************************************************************)
(* What the eight reconcilers of extras/citadel_interview/main.cpp share:  *)
(* the per-id Entry, its mismatch test and its expiry.  A class has a      *)
(* module of its own, in which an object is a record of its members: New   *)
(* is the constructor, and onFeed(s, e) and onTimer(s, t) are the object   *)
(* after the call.  FeedDriver runs them.                                  *)
(***************************************************************************)
EXTENDS Naturals

CONSTANTS Ids,      \* ids that makeWorkload draws; it starts at 1
          Feeds,    \* enum class Feed
          Values,   \* what eq_exec compares: price and size as one value
          NoExec,   \* std::nullopt
          Window    \* window_width

(* struct Entry.  last_ts is left out: it is only compared with 0, and     *)
(* timestamps start at 1, so it is 0 exactly when first_ts is.             *)
Blank == [first_ts |-> 0, fed |-> [f \in Feeds |-> NoExec], alerted |-> FALSE]
anyMismatch(fed) ==
  \E f, g \in Feeds : fed[f] # NoExec /\ fed[g] # NoExec /\ fed[f] # fed[g]

expireAt(ent) == ent.first_ts + Window
TooLate(e, last_timer) == e.ts + Window <= last_timer

(* onFeed from the look-up of the entry on: fix first_ts the first time,   *)
(* store the execution of this feed, and alert at most once, on a mismatch *)
(* inside the window.                                                      *)
Absorb(ent, e) ==
  [ent EXCEPT !.first_ts = IF @ = 0 THEN e.ts ELSE @, !.fed[e.feed] = e.val]
Raises(ent, e) ==
  /\ ~ent.alerted
  /\ anyMismatch(Absorb(ent, e).fed)
  /\ e.ts < expireAt(Absorb(ent, e))
Updated(ent, e) == [Absorb(ent, e) EXCEPT !.alerted = @ \/ Raises(ent, e)]
Raised(ent, e) == IF Raises(ent, e) THEN 1 ELSE 0

(* An element of the expiry heaps. *)
Exp(ent, id) == [expire_at |-> expireAt(ent), id |-> id]
=============================================================================
