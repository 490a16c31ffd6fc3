-------------------------- MODULE SequenceObjects ---------------------------
(***************************************************************************)
(* What a sequence container promises its users: each object is a sequence *)
(* of values, and an operation on one object leaves the others alone       *)
(* unless it moves from them or swaps with them.                           *)
(***************************************************************************)
EXTENDS Naturals, Sequences

CONSTANTS Objects, Values, Default    \* Default: what a default constructor makes

VARIABLE seqs

Init == seqs = [c \in Objects |-> <<>>]

Becomes(c, s) == seqs' = [seqs EXCEPT ![c] = s]
Append1(c) == \E v \in Values \cup {Default} : Becomes(c, Append(seqs[c], v))
RemoveLast(c) == seqs[c] # <<>> /\ Becomes(c, SubSeq(seqs[c], 1, Len(seqs[c]) - 1))
Erase(c) == Becomes(c, <<>>)
Overwrite(c) ==
  \E k \in DOMAIN seqs[c], v \in Values : Becomes(c, [seqs[c] EXCEPT ![k] = v])
Copy(c, d) == Becomes(c, seqs[d])
Move(c, d) == seqs' = [seqs EXCEPT ![c] = seqs[d], ![d] = <<>>]
Exchange(c, d) == seqs' = [seqs EXCEPT ![c] = seqs[d], ![d] = seqs[c]]
Given(c) == \E v, w \in Values : Becomes(c, <<v, w>>)

Next ==
  \/ \E c \in Objects : Append1(c) \/ RemoveLast(c) \/ Erase(c) \/ Overwrite(c) \/ Given(c)
  \/ \E c, d \in Objects : c # d /\ (Copy(c, d) \/ Move(c, d) \/ Exchange(c, d))

Spec == Init /\ [][Next]_seqs
=============================================================================
