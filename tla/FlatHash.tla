------------------------------ MODULE FlatHash ------------------------------
(***************************************************************************)
(* The open-addressing table inside ReconcilerFlatHashHeap and             *)
(* ReconcilerFlatHashWheel: linear probing over a power-of-two array, with *)
(* key 0 for a slot that was never used and key 1 for an erased one.       *)
(***************************************************************************)
EXTENDS FeedEntry, FiniteSets

CONSTANT expected_ids

kEmpty == 0
kTomb  == 1

(* The smallest power of two that is at least 2 * expected_ids. *)
Cap == CHOOSE c \in {2^k : k \in 0..2 * expected_ids} :
         /\ c >= 2 * expected_ids
         /\ \A k \in 0..2 * expected_ids : 2^k >= 2 * expected_ids => c <= 2^k
Table == 0..Cap - 1

(* keys_, used_, entries_, and mix(id) & mask_ as a function of id. *)
EmptyTable(probe) ==
  [keys |-> [p \in Table |-> kEmpty], used |-> [p \in Table |-> FALSE],
   entries |-> [p \in Table |-> Blank], probe |-> probe]

(* The d-th slot that a look-up of id visits. *)
At(h, id, d) == (h.probe[id] + d) % Cap
First(S) == CHOOSE d \in S : \A x \in S : d <= x

(* The look-up loops have no exit but these: *)
Hit(h, id, d) == h.keys[At(h, id, d)] = id /\ id # kTomb
Stops(h, id) == {d \in Table : h.keys[At(h, id, d)] = kEmpty \/ Hit(h, id, d)}
Tombs(h, id) ==
  {d \in Table : h.keys[At(h, id, d)] = kTomb /\ d < First(Stops(h, id))}

npos == Cap
findIndex(h, id) ==
  LET d == First(Stops(h, id)) IN IF Hit(h, id, d) THEN At(h, id, d) ELSE npos

(* Where findOrInsert puts or finds id: an erased slot on the way is used  *)
(* again, but only when the id turns out not to be further on.             *)
EagerSlotOf(h, id) ==
  IF Tombs(h, id) # {} THEN At(h, id, First(Tombs(h, id))) ELSE At(h, id, First(Stops(h, id)))
TombBlindSlotOf(h, id) == At(h, id, First(Stops(h, id)))
SlotOf(h, id) ==
  LET d == First(Stops(h, id)) IN
  IF Hit(h, id, d) \/ Tombs(h, id) = {} THEN At(h, id, d) ELSE At(h, id, First(Tombs(h, id)))

(* findOrInsert and the store of the updated entry: an id that was not     *)
(* there starts from Entry{}.                                              *)
Found(h, id) == IF findIndex(h, id) = npos THEN Blank ELSE h.entries[SlotOf(h, id)]
Store(h, id, ent) ==
  LET p == SlotOf(h, id)
  IN  [h EXCEPT !.keys[p] = id, !.used[p] = TRUE, !.entries[p] = ent]

(* eraseAt for every slot of S. *)
EmptiedBy(h, S) ==
  [h EXCEPT !.keys = [p \in Table |-> IF p \in S THEN kEmpty ELSE @[p]],
            !.used = [p \in Table |-> @[p] /\ p \notin S],
            !.entries = [p \in Table |-> IF p \in S THEN Blank ELSE @[p]]]
Erase(h, S) ==
  [h EXCEPT !.keys = [p \in Table |-> IF p \in S THEN kTomb ELSE @[p]],
            !.used = [p \in Table |-> @[p] /\ p \notin S],
            !.entries = [p \in Table |-> IF p \in S THEN Blank ELSE @[p]]]

----------------------------------------------------------------------------
UsedSlots(h) == {p \in Table : h.used[p]}
Stored(h) ==
  [id \in {h.keys[p] : p \in UsedSlots(h)} |->
     h.entries[CHOOSE p \in UsedSlots(h) : h.keys[p] = id]]

(* A never-used slot remains for a look-up to end at. *)
ProbesEnd(h) ==
  Cardinality({p \in Table : h.keys[p] = kEmpty}) >= Cap - Cardinality(Ids)

(* findIndex finds every stored id in the one slot it occupies. *)
AllFound(h) == \A p \in UsedSlots(h) : h.keys[p] # kTomb => findIndex(h, h.keys[p]) = p
=============================================================================
