---------------------- MODULE OpenAddressingHashTable -----------------------
(***************************************************************************)
(* topics/microarchitecture/cache_friendly_hash_table.cpp: linear probing, *)
(* doubled when half full; checked for every hash function of the keys.    *)
(***************************************************************************)
EXTENDS Naturals, Sequences, FiniteSetsExt

CONSTANTS Keys, Vals, Capacities, Hashes    \* Capacities: the constructor's argument

VARIABLES hasher_, table_, size_,
          contents         \* key -> the value it was given last

vars == <<hasher_, table_, size_, contents>>
NoValue == 0               \* an empty cell, a missing key

\* the cells from a key's home cell on, round the table
Probe(t, key) == [j \in 1..Len(t) |-> ((hasher_[key] + j - 1) % Len(t)) + 1]
\* the number of probes to the first empty cell or the key's own; none in a full table
Stops(t, key) ==
  {j \in 1..Len(t) : LET cell == t[Probe(t, key)[j]] IN cell = <<>> \/ cell[1] = key}
find(t, key) ==
  IF Stops(t, key) = {} THEN NoValue
  ELSE LET cell == t[Probe(t, key)[Min(Stops(t, key))]] IN IF cell = <<>> THEN NoValue ELSE cell[2]

\* the loop of insert, which always finds a cell: half of the table was empty
Place(t, cell) == [t EXCEPT ![Probe(t, cell[1])[Min(Stops(t, cell[1]))]] = cell]
\* every cell is inserted again; a table just doubled is not doubled again
rehash_in_place(t) == [j \in 1..2 * Len(t) |-> IF j <= Len(t) THEN t[j] ELSE <<>>]
rehash(t) ==
  LET moved[n \in 0..Len(t)] ==
        IF n = 0 THEN [j \in 1..2 * Len(t) |-> <<>>]
        ELSE IF t[n] = <<>> THEN moved[n - 1] ELSE Place(moved[n - 1], t[n])
  IN moved[Len(t)]

Init ==
  /\ hasher_ \in [Keys -> Hashes]
  /\ \E n \in Capacities : table_ = [j \in 1..n |-> <<>>]
  /\ size_ = 0 /\ contents = [k \in Keys |-> NoValue]

insert(key, v) ==
  LET t == IF size_ * 2 >= Len(table_) THEN rehash(table_) ELSE table_
  IN /\ table_' = Place(t, <<key, v>>)
     /\ size_' = IF find(t, key) = NoValue THEN size_ + 1 ELSE size_
     /\ contents' = [contents EXCEPT ![key] = v]
     /\ UNCHANGED hasher_

Next == \E key \in Keys, v \in Vals : insert(key, v)

----------------------------------------------------------------------------
(* Whatever the hash function and the initial capacity, find returns the   *)
(* last value of every key and nothing for the others, and size_ counts    *)
(* the keys: probing and rehashing lose, repeat or revive none.            *)
TableIsMap ==
  /\ \A key \in Keys : find(table_, key) = contents[key]
  /\ size_ = Quantify(Keys, LAMBDA key : contents[key] # NoValue)
=============================================================================
