---------------------------- MODULE FreeListPool ----------------------------
(***************************************************************************)
(* topics/memory/fixed_size_memory_pool.cpp and slab_allocator.cpp: chunks *)
(* in blocks; a free chunk holds the link to the next one in the bytes     *)
(* that the client's object takes when the chunk is allocated.             *)
(***************************************************************************)
EXTENDS Naturals

CONSTANTS BlockSize, MaxBlocks       \* MaxBlocks bounds how often the pool grows

VARIABLES free_list_,    \* the first free chunk, or nullptr
          chunk,         \* chunk -> its bytes: a link, or the client's object
          blocks,        \* the number of blocks
          held           \* the chunks the client has

vars == <<free_list_, chunk, blocks, held>>
nullptr == 0
Data == "data"
Chunks == 1..(blocks * BlockSize)

\* a block's chunks in order, in front of the free list
LinkedShort(b, first) ==
  [c \in b * BlockSize + 1 .. (b + 1) * BlockSize |->
     IF c + 1 < (b + 1) * BlockSize THEN c + 1 ELSE first]
Linked(b, first) ==
  [c \in b * BlockSize + 1 .. (b + 1) * BlockSize |->
     IF c < (b + 1) * BlockSize THEN c + 1 ELSE first]
Joined(f, g) == [c \in DOMAIN f \cup DOMAIN g |-> IF c \in DOMAIN f THEN f[c] ELSE g[c]]

\* FixedSizePool grows when it is made, SlabSlotPool at the first allocation
Init ==
  /\ held = {}
  /\ \/ blocks = 1 /\ free_list_ = 1 /\ chunk = Linked(0, nullptr)
     \/ blocks = 0 /\ free_list_ = nullptr /\ chunk = [c \in {} |-> Data]

\* grow when there is no free chunk, then take the first
allocate ==
  LET grow == free_list_ = nullptr
      p == IF grow THEN blocks * BlockSize + 1 ELSE free_list_
      mem == IF grow THEN Joined(chunk, Linked(blocks, free_list_)) ELSE chunk
  IN /\ grow => blocks < MaxBlocks
     /\ blocks' = IF grow THEN blocks + 1 ELSE blocks
     /\ free_list_' = mem[p] /\ chunk' = mem /\ held' = held \cup {p}

\* the client writes its object over the chunk
Write == \E p \in held : chunk' = [chunk EXCEPT ![p] = Data] /\ UNCHANGED <<free_list_, blocks, held>>

deallocate ==
  \E p \in held :
    /\ chunk' = [chunk EXCEPT ![p] = free_list_]
    /\ free_list_' = p /\ held' = held \ {p} /\ UNCHANGED blocks

Next == allocate \/ Write \/ deallocate

----------------------------------------------------------------------------
(* Following the links from free_list_ visits every chunk the client does  *)
(* not hold, no other, and ends: no chunk is lost when a block is added,   *)
(* none is handed out twice, and no object is taken for a link.            *)
Walk[n \in 0..(blocks * BlockSize)] ==
  IF n = 0 THEN free_list_
  ELSE IF Walk[n - 1] \in DOMAIN chunk THEN chunk[Walk[n - 1]] ELSE Walk[n - 1]
FreeListIntact == {Walk[n] : n \in DOMAIN Walk} = (Chunks \ held) \cup {nullptr}
=============================================================================
