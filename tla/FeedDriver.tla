----------------------------- MODULE FeedDriver -----------------------------
(***************************************************************************)
(* main of extras/citadel_interview: runBench gives the same workload to   *)
(* every reconciler class, interleaving the feed events with onTimer calls *)
(* at W, 2W, 3W, ...  The runs are independent, so they go on side by side *)
(* here, one object of each class, each taking the call of this turn.      *)
(***************************************************************************)
EXTENDS FeedEntry, FiniteSets, Bags, TLC

CONSTANTS NoEvent,                \* no event is being handled
          MaxTs,                  \* bound: the last timestamp of the workload
          MaxLate,                \* how far a timestamp may lag behind; 0 after the sort
          max_id, tick_mod, expected_ids,   \* arguments of the constructors
          Hashes                  \* mix(id) & mask_ as functions of id: those to consider

Scan     == INSTANCE Reconciler
UHeap    == INSTANCE ReconcilerHeap
DHeap    == INSTANCE DirectIndexHeap
DWheel   == INSTANCE DirectIndexWheel
FHeap    == INSTANCE FlatHashHeap
FWheel   == INSTANCE FlatHashWheel

ASSUME WindowAssumption == Window \in Nat \ {0} /\ MaxTs \in Nat /\ MaxLate \in Nat
ASSUME IdsAssumption == Ids \subseteq Nat \ {0} /\ NoExec \notin Values
ASSUME MaxIdAssumption == max_id \in Nat /\ \A id \in Ids : id <= max_id
(* "use 2*window to reduce collisions": 4096 for a window of 1000. *)
ASSUME WheelAssumption == tick_mod \in Nat /\ tick_mod >= 2 * Window
ASSUME HashAssumption == expected_ids \in Nat \ {0} /\ Hashes \subseteq [Ids -> FHeap!Table]
(* Both are made from distinct_ids in main. *)
ASSUME LoadAssumption == IsFiniteSet(Ids) /\ Cardinality(Ids) <= expected_ids
(* What the loop that doubles cap ends with. *)
ASSUME CapAssumption == FHeap!Cap \in Nat /\ FHeap!Cap >= 2 * expected_ids

(* makeWorkload: t starts at 1, so no event has timestamp 0. *)
Events == [feed : Feeds, id : Ids, val : Values, ts : 1..MaxTs]
ASSUME EventAssumption == NoEvent \notin Events

VARIABLES ev,                \* the event of this turn of the loop
          now,               \* largest timestamp so far
          next_timer,
          phase,             \* "feed", then "flush"
          scan,              \* ReconcilerVectorScan, ReconcilerUnorderedScan
          uheap,             \* ReconcilerUnorderedHeap and its Reserved form
          dheap, dwheel,     \* ReconcilerDirectIndexHeap, ReconcilerDirectIndexWheel
          fheap, fwheel      \* ReconcilerFlatHashHeap, ReconcilerFlatHashWheel
classes == <<scan, uheap, dheap, dwheel, fheap, fwheel>>
vars == <<ev, now, next_timer, phase, classes>>

Init ==
  /\ ev = NoEvent /\ now = 0 /\ next_timer = Window /\ phase = "feed"
  /\ scan = Scan!New /\ uheap = UHeap!New /\ dheap = DHeap!New /\ dwheel = DWheel!New
  /\ \E h \in Hashes : fheap = FHeap!New(h) /\ fwheel = FWheel!New(h)

onTimer(t) ==
  /\ scan' = Scan!onTimer(scan, t)
  /\ uheap' = UHeap!onTimer(uheap, t)
  /\ dheap' = DHeap!onTimer(dheap, t)
  /\ dwheel' = DWheel!onTimer(dwheel, t)
  /\ fheap' = FHeap!onTimer(fheap, t)
  /\ fwheel' = FWheel!onTimer(fwheel, t)

onFeed(e) ==
  /\ scan' = Scan!onFeed(scan, e)
  /\ uheap' = UHeap!onFeed(uheap, e)
  /\ dheap' = DHeap!onFeed(dheap, e)
  /\ dwheel' = DWheel!onFeed(dwheel, e)
  /\ fheap' = FHeap!onFeed(fheap, e)
  /\ fwheel' = FWheel!onFeed(fwheel, e)

(* if (ts > now) now = ts *)
Arrive(e) ==
  /\ phase = "feed" /\ ev = NoEvent
  /\ e.ts + MaxLate >= now
  /\ ev' = e
  /\ now' = IF e.ts > now THEN e.ts ELSE now
  /\ UNCHANGED <<next_timer, phase, classes>>

(* while (now >= next_timer) r.onTimer(next_timer) ... *)
TimerDue ==
  /\ ev # NoEvent /\ now >= next_timer
  /\ onTimer(next_timer)
  /\ next_timer' = next_timer + Window
  /\ UNCHANGED <<ev, now, phase>>

(* ... then the event goes to its onFeedX. *)
UntimedDeliver ==
  /\ ev # NoEvent
  /\ onFeed(ev)
  /\ ev' = NoEvent
  /\ UNCHANGED <<now, next_timer, phase>>
Deliver ==
  /\ ev # NoEvent /\ now < next_timer
  /\ onFeed(ev)
  /\ ev' = NoEvent
  /\ UNCHANGED <<now, next_timer, phase>>

EndOfFeed ==
  /\ phase = "feed" /\ ev = NoEvent
  /\ phase' = "flush"
  /\ UNCHANGED <<ev, now, next_timer, classes>>

short_flush_to == now
flush_to == (now \div Window + 3) * Window
FlushDue ==
  /\ phase = "flush" /\ next_timer <= flush_to
  /\ onTimer(next_timer)
  /\ next_timer' = next_timer + Window
  /\ UNCHANGED <<ev, now, phase>>

(* return r.alerts() *)
Finished == phase = "flush" /\ next_timer > flush_to

Next ==
  \/ \E e \in Events : Arrive(e)
  \/ TimerDue \/ Deliver
  \/ EndOfFeed \/ FlushDue
  \/ Finished /\ UNCHANGED vars

Spec == Init /\ [][Next]_vars

----------------------------------------------------------------------------
by_id == scan.by_id
last_timer == scan.last_timer

(* No entry outlives its window past a timer: onTimer removes all that are *)
(* due, and no event, however late, brings back one that would be due.     *)
NoExpiredEntry == \A id \in DOMAIN by_id : expireAt(by_id[id]) > last_timer

(* "Flush: advance a few windows to ensure all pending items expire": when *)
(* runBench returns nothing is left in the reconciler.                     *)
FlushedAtEnd == Finished => DOMAIN by_id = {}

(* Between two events no entry is two windows old: a timer comes at every  *)
(* window end, and removes what expired since the one before.              *)
BoundedAge ==
  ev = NoEvent => \A id \in DOMAIN by_id : now < expireAt(by_id[id]) + Window

(* Every class does what the scan does: it holds the same entries and has  *)
(* raised the same alerts after every call, whatever is still in its heap  *)
(* for earlier lives of an id, wherever its wheel has wrapped, wherever    *)
(* the hash function puts the ids and whatever erased slots they leave.    *)
ClassesAgree ==
  /\ <<uheap.alerts, dheap.alerts, dwheel.alerts, fheap.alerts, fwheel.alerts>>
       = [k \in 1..5 |-> scan.alerts]
  /\ by_id = UHeap!Contents(uheap)
  /\ by_id = DHeap!Contents(dheap) /\ by_id = DWheel!Contents(dwheel)
  /\ by_id = FHeap!Contents(fheap) /\ by_id = FWheel!Contents(fwheel)

(* Every entry has an element in the heap that will remove it, and no      *)
(* element is left of an entry that is gone.  With direct indexing there   *)
(* is exactly one for each active entry, so that heap never grows beyond   *)
(* the number of ids.  In the wheels every entry is in the bucket of its   *)
(* expiration and a bucket holds no one else: clearing one forgets no      *)
(* entry, as long as the wheel is two windows long.                        *)
Expirations == {Exp(by_id[id], id) : id \in DOMAIN by_id}
DueIn(b) == {id \in DOMAIN by_id : expireAt(by_id[id]) % tick_mod = b}
ExpiryCoversEntries ==
  /\ uheap.expiry = Expirations /\ dheap.expiry = SetToBag(Expirations)
  /\ \A b \in DWheel!Buckets : dwheel.wheel[b] = DueIn(b) /\ fwheel.wheel[b] = DueIn(b)

(* Every look-up in the flat tables ends, however often ids are erased and *)
(* come back (erased slots never become empty again, but there are never   *)
(* more of them than the distinct ids can fill), and it finds every stored *)
(* id, past the erased slots on its way.                                   *)
TablesSearchable ==
  /\ FHeap!ProbesEnd(fheap.table) /\ FWheel!ProbesEnd(fwheel.table)
  /\ FHeap!AllFound(fheap.table) /\ FWheel!AllFound(fwheel.table)

----------------------------------------------------------------------------
(* For TLC: all hash functions up to a rotation of the table and an        *)
(* exchange of ids 3 and 4.  Feeds and values are interchangeable.         *)
MCHashes ==
  {h \in [Ids -> FHeap!Table] : h[2] = 0 /\ (4 \in Ids => h[3] <= h[4])}
Symm == Permutations(Feeds) \cup Permutations(Values)
=============================================================================
