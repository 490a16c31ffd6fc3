------------------------------ MODULE LRUCache ------------------------------
(***************************************************************************)
(* topics/memory/lru_cache.cpp: a list in order of use and a map from keys *)
(* to iterators of the list.  A node keeps its identity when it is         *)
(* spliced, and the identity of a freed node is used again.                *)
(***************************************************************************)
EXTENDS Naturals, Sequences, SequencesExt

CONSTANTS Keys, Vals, cap_

VARIABLES list_,     \* the nodes, most recently used first
          map_,      \* key -> node
          recent     \* the last value of every key ever put, by last use

vars == <<list_, map_, recent>>

Nodes == 1..cap_
Fresh == CHOOSE n \in Nodes : \A k \in DOMAIN list_ : list_[k].node # n
Position(n) == CHOOSE k \in DOMAIN list_ : list_[k].node = n
ToFront(s, k) == <<s[k]>> \o RemoveAt(s, k)
\* key becomes the most recently used one, with value v
Without(key) ==
  IF \E k \in DOMAIN recent : recent[k].key = key
  THEN RemoveAt(recent, CHOOSE k \in DOMAIN recent : recent[k].key = key) ELSE recent
Used(key, v) == recent' = <<[key |-> key, value |-> v]>> \o Without(key)

Init == list_ = <<>> /\ map_ = [k \in {} |-> 0] /\ recent = <<>>

GetInPlace(key) ==
  key \in DOMAIN map_ /\ Used(key, list_[Position(map_[key])].value) /\ UNCHANGED <<list_, map_>>
\* a miss changes nothing
get(key) ==
  /\ key \in DOMAIN map_
  /\ list_' = ToFront(list_, Position(map_[key]))
  /\ Used(key, list_[Position(map_[key])].value)
  /\ UNCHANGED map_

put(key, v) ==
  /\ Used(key, v)
  /\ \/ /\ key \in DOMAIN map_
        /\ LET k == Position(map_[key]) IN list_' = ToFront([list_ EXCEPT ![k].value = v], k)
        /\ UNCHANGED map_
     \/ /\ key \notin DOMAIN map_
        /\ LET full == Len(list_) >= cap_
               node == IF full THEN Last(list_).node ELSE Fresh     \* the freed node, or a new one
               gone == IF full THEN {Last(list_).key} ELSE {}
           IN /\ list_' = <<[node |-> node, key |-> key, value |-> v]>>
                            \o (IF full THEN Front(list_) ELSE list_)
              /\ map_' = [k \in (DOMAIN map_ \ gone) \cup {key} |->
                            IF k = key THEN node ELSE map_[k]]

Next == \E key \in Keys : get(key) \/ \E v \in Vals : put(key, v)

----------------------------------------------------------------------------
(* The cache holds the cap_ most recently used keys and their last values, *)
(* in order of use, and every key of the map leads to its own node: an     *)
(* eviction takes the right key out of both structures.                    *)
HoldsMostRecent ==
  /\ [k \in DOMAIN list_ |-> [key |-> list_[k].key, value |-> list_[k].value]]
       = SubSeq(recent, 1, IF Len(recent) < cap_ THEN Len(recent) ELSE cap_)
  /\ DOMAIN map_ = {list_[k].key : k \in DOMAIN list_}
  /\ \A k \in DOMAIN list_ : map_[list_[k].key] = list_[k].node
=============================================================================
