------------------------- MODULE DemoOwners_proofs -------------------------
(***************************************************************************)
(* The last results about the programs of DemoPrograms: the messages of    *)
(* the latency servers and the buffers of the double ring have one owner,  *)
(* every program delivers in order, and v4 keeps its queue and its pool    *)
(* right as long as no two threads have been inside push, or inside the    *)
(* pool, at the same time.                                                 *)
(***************************************************************************)
EXTENDS DemoPrograms_proofs

----------------------------------------------------------------------------
(* Induction, and arrays of distinct elements.                             *)

(* A set of numbers has a least one: the finite parts T \cap 0..n of the   *)
(* set are well-founded under inclusion.                                   *)
LEMMA LeastNumber ==
  ASSUME NEW T, T \subseteq Nat, T # {}
  PROVE  \E n \in T : \A m \in T : n <= m
  <1> DEFINE F == {T \cap (0..n) : n \in T}
  <1>1. \A n \in T : IsFiniteSet(T \cap (0..n))
    <2> SUFFICES ASSUME NEW n \in T PROVE IsFiniteSet(T \cap (0..n))
      OBVIOUS
    <2>1. IsFiniteSet(0..n)
      BY FS_Interval
    <2> QED BY <2>1, FS_Intersection
  <1>2. F \subseteq FiniteSubsetsOf(Nat) /\ F # {}
    BY <1>1 DEF FiniteSubsetsOf
  <1>3. IsWellFoundedOn(StrictSubsetOrdering(Nat), FiniteSubsetsOf(Nat))
    BY FS_StrictSubsetOrderingWellFounded
  <1>4. \E x \in F : \A y \in F : ~(<<y, x>> \in StrictSubsetOrdering(Nat))
    <2> HIDE DEF F
    <2> QED BY <1>2, <1>3, WFMin
  <1>5. PICK n \in T : \A y \in F : ~(<<y, T \cap (0..n)>> \in StrictSubsetOrdering(Nat))
    BY <1>4
  <1>6. ASSUME NEW m \in T, m < n
        PROVE  FALSE
    <2>1. /\ T \cap (0..m) \in F /\ T \cap (0..m) \subseteq T \cap (0..n)
          /\ n \in T \cap (0..n) /\ n \notin T \cap (0..m)
      BY <1>6
    <2> QED BY <1>5, <2>1 DEF StrictSubsetOrdering
  <1> QED BY <1>6

(* What holds of 1 and with a number of the next one holds up to m. *)
LEMMA UpTo ==
  ASSUME NEW m \in Nat, NEW S, 1 \in S, \A x \in 1..m - 1 : x \in S => x + 1 \in S
  PROVE  1..m \subseteq S
  <1>1. SUFFICES ASSUME (1..m) \ S # {}
                 PROVE  FALSE
    OBVIOUS
  <1>2. PICK n \in (1..m) \ S : \A x \in (1..m) \ S : n <= x
    <2>1. (1..m) \ S \subseteq Nat
      OBVIOUS
    <2> QED BY <1>1, <2>1, LeastNumber
  <1>3. n - 1 \in 1..m - 1 /\ n - 1 \in S
    BY <1>2
  <1> QED BY <1>2, <1>3

(* A sequence without repetitions has as many elements as places. *)
LEMMA DistinctCount ==
  ASSUME NEW S, NEW s \in Seq(S), \A x, y \in 1..Len(s) : s[x] = s[y] => x = y
  PROVE  Cardinality({s[x] : x \in DOMAIN s}) = Len(s)
  <1>1. Len(s) \in Nat /\ DOMAIN s = 1..Len(s)
    BY LenProperties
  <1>2. PICK R : R = {s[x] : x \in DOMAIN s}
    OBVIOUS
  <1>3. s \in Bijection(1..Len(s), R)
    BY <1>1, <1>2, LenProperties DEF Bijection, Injection, Surjection, IsInjective
  <1>4. ExistsBijection(1..Len(s), R)
    BY <1>3 DEF ExistsBijection
  <1> QED BY <1>1, <1>2, <1>4, FS_CountingElements

----------------------------------------------------------------------------
(* latency_server.                                                         *)

(* What the blocks point to, and the free list. *)
Pointers(f) == [b \in Blocks |-> IF f[b] \in Blocks THEN f[b] ELSE Null]
FreeBlocks == Chain(Blocks, Pointers(mem), free_head)
Filling == np \in {"fill", "push"}
Counting == kp \in {"count", "free", "head"}
ServerPcs ==
  /\ allocator \in {"pool", "new"} /\ overlap \in BOOLEAN
  /\ np \in {"next", "store"} \/ kp = "head" => allocator = "pool"
  /\ ~overlap => ~(np \in {"next", "store"} /\ kp = "head")
(* No message is in two places. *)
ServerFlight ==
  /\ g_queue \in Seq(Blocks)
  /\ \A j, l \in 1..Len(g_queue) : g_queue[j] = g_queue[l] => j = l
  /\ Filling => blk \in Blocks /\ \A j \in 1..Len(g_queue) : g_queue[j] # blk
  /\ Counting => kmsg \in Blocks /\ \A j \in 1..Len(g_queue) : g_queue[j] # kmsg
  /\ Filling /\ Counting => blk # kmsg
(* The blocks that are handed out are those in flight.                     *)
Flying(b) ==
  \/ Filling /\ b = blk
  \/ Counting /\ b = kmsg
  \/ \E j \in 1..Len(g_queue) : b = g_queue[j]
HandedOut(b) == IF allocator = "new" THEN b \in newed ELSE b \notin FreeBlocks
ServerOwners ==
  /\ newed \subseteq Blocks
  /\ \A b \in Blocks : Flying(b) => HandedOut(b)
  /\ \A b \in Blocks : HandedOut(b) => Flying(b)
(* The free list is a list, and alloc and free change it at its head.      *)
ServerPool ==
  /\ mem = [b \in Blocks |-> mem[b]]
  /\ allocator = "pool" =>
       /\ free_head \in Blocks \cup {Null}
       /\ \A x \in FreeBlocks : mem[x] \in Blocks \cup {Null}
       /\ \A x \in FreeBlocks : x \notin Chain(Blocks, Pointers(mem), Pointers(mem)[x])
       /\ np \in {"next", "store"} => blk = free_head /\ free_head # Null
       /\ np = "store" => nxt = mem[blk]
       /\ kp = "head" => mem[kmsg] = free_head
(* The messages in flight carry the numbers that follow the counted ones.  *)
Behind == Len(counted) + (IF kp = "count" THEN 1 ELSE 0)
ServerNumbers ==
  /\ seq \in Nat /\ counted \in Seq(Nat)
  /\ \A j \in 1..Len(counted) : counted[j] = j - 1
  /\ kp = "count" => mem[kmsg] = Len(counted)
  /\ \A j \in 1..Len(g_queue) : mem[g_queue[j]] = Behind + j - 1
  /\ np # "push" => seq = Behind + Len(g_queue)
  /\ np = "push" => seq = Behind + Len(g_queue) + 1 /\ mem[blk] = Behind + Len(g_queue)
ServerExact == ServerFlight /\ ServerOwners /\ ServerPool /\ ServerNumbers
ServerInv == ServerPcs /\ (~overlap => ServerExact)

(* The other programs leave the server alone. *)
LEMMA ServerAlone ==
  ASSUME [ProgramStep]_allVars
  PROVE  [Server!Next]_serverVars
  BY DEF ProgramStep, allVars, others, LockRuns, QueueRuns, LoggerRuns, PoolRuns, WaitFreeRuns,
         CapstoneRuns, RingDemoRuns, DoubleRuns, StackRuns, ServerRuns, ClientsRun, ForkRuns,
         PingRuns

(* The free list of the model is the chain of the blocks' pointers. *)
LEMMA FreeListIsChain ==
  ASSUME free_head \in Blocks \cup {Null}
  PROVE  Server!FreeList = FreeBlocks
  <1>1. PICK f : f = Pointers(mem)
    OBVIOUS
  <1>2. \A b \in Blocks : f[b] = IF mem[b] \in Blocks THEN mem[b] ELSE Null
    BY <1>1 DEF Pointers
  <1>3. ASSUME NEW S \in SUBSET Blocks
        PROVE  (\A x \in {free_head} \cup {mem[y] : y \in S} : x \in Blocks => x \in S)
                 <=> (free_head \in S \cup {Null} /\ \A y \in S : f[y] \in S \cup {Null})
    <2>1. (\A x \in {free_head} \cup {mem[y] : y \in S} : x \in Blocks => x \in S)
            <=> ((free_head \in Blocks => free_head \in S)
                 /\ \A y \in S : mem[y] \in Blocks => mem[y] \in S)
      OBVIOUS
    <2>2. (free_head \in Blocks => free_head \in S) <=> free_head \in S \cup {Null}
      BY BlocksAssumption
    <2>3. ASSUME NEW y \in S
          PROVE  (mem[y] \in Blocks => mem[y] \in S) <=> f[y] \in S \cup {Null}
      BY <1>2, BlocksAssumption
    <2> QED BY <2>1, <2>2, <2>3
  <1>4. ASSUME NEW b \in Blocks
        PROVE  b \in Server!FreeList <=> b \in Chain(Blocks, f, free_head)
    BY <1>3 DEF Server!FreeList, Server!FreeFrom, Chain
  <1>5. Server!FreeList \subseteq Blocks /\ Chain(Blocks, f, free_head) \subseteq Blocks
    BY DEF Server!FreeList, Server!FreeFrom, Chain
  <1> QED BY <1>1, <1>4, <1>5 DEF FreeBlocks

(* The pointers of the blocks make lists, and a list of free blocks is the *)
(* head and the list from its pointer on.                                  *)
LEMMA PointersLink == \A f : Pointers(f) \in Links(Blocks)
  BY DEF Pointers, Links
LEMMA FreeHeadFree ==
  ASSUME free_head \in Blocks
  PROVE  /\ free_head \in FreeBlocks
         /\ FreeBlocks = {free_head} \cup Chain(Blocks, Pointers(mem), Pointers(mem)[free_head])
  BY PointersLink, ChainFirst, BlocksAssumption DEF FreeBlocks

(* Two threads inside the pool are noted. *)
LEMMA ServerPcsStep ==
  ASSUME ServerPcs, [Server!Next]_serverVars
  PROVE  ServerPcs' /\ (overlap => overlap')
  <1> USE DEF ServerPcs
  <1>1. CASE UNCHANGED serverVars \/ Server!NoWayOn
    BY <1>1 DEF Server!NoWayOn, Server!vars, serverVars, Server!pool, Server!network,
                Server!consumer, Server!main
  <1>2. CASE Server!NetStep /\ Server!Overlaps
    BY <1>2 DEF Server!NetStep, Server!NetLoop, Server!NetRecv, Server!NetIdle, Server!AllocHead,
                Server!AllocNext, Server!AllocStore, Server!NetNew, Server!NetFill, Server!NetPush,
                Server!Overlaps, Server!consumer
  <1>3. CASE Server!ConStep /\ Server!Overlaps
    BY <1>3 DEF Server!ConStep, Server!ConLoop, Server!ConPop, Server!ConEmpty, Server!ConCount,
                Server!FreeLink, Server!FreeHead, Server!ConDelete, Server!Overlaps, Server!network
  <1>4. CASE (Server!Stop \/ Server!Join) /\ Server!Overlaps
    BY <1>4 DEF Server!Stop, Server!Join, Server!Overlaps, Server!network, Server!consumer
  <1> QED BY <1>1, <1>2, <1>3, <1>4 DEF Server!Next

(* Steps that touch neither a message nor the free list; alloc looks at    *)
(* its head before it takes it.                                            *)
ServerQuiet ==
  \/ Server!NetLoop \/ Server!NetRecv \/ Server!NetIdle \/ Server!AllocHead \/ Server!AllocNext
  \/ Server!ConLoop \/ Server!ConEmpty \/ Server!Stop \/ Server!Join
LEMMA ServerQuietStep ==
  ASSUME ServerPcs, ServerExact, ServerQuiet
  PROVE  ServerExact'
  <1>v. ServerFlight /\ ServerOwners /\ ServerPool /\ ServerNumbers
    BY DEF ServerExact
  <1>0. UNCHANGED <<allocator, free_head, mem, newed, g_queue, kmsg, counted, seq>>
    BY DEF ServerQuiet, Server!NetLoop, Server!NetRecv, Server!NetIdle, Server!AllocHead,
           Server!AllocNext, Server!ConLoop, Server!ConEmpty, Server!Stop, Server!Join,
           Server!pool, Server!network, Server!consumer, Server!main
  <1>1. /\ (Filling' <=> Filling) /\ (Filling => blk' = blk)
        /\ (Counting' <=> Counting)
        /\ (kp' = "head" <=> kp = "head") /\ (kp' = "count" <=> kp = "count")
        /\ (np' = "push" <=> np = "push")
    BY DEF ServerQuiet, Server!NetLoop, Server!NetRecv, Server!NetIdle, Server!AllocHead,
           Server!AllocNext, Server!ConLoop, Server!ConEmpty, Server!Stop, Server!Join,
           Server!pool, Server!network, Server!consumer, Server!main, Filling, Counting
  <1>2. FreeBlocks' = FreeBlocks /\ Behind' = Behind
    BY <1>0, <1>1 DEF FreeBlocks, Behind
  <1>3. ServerFlight'
    BY <1>v, <1>0, <1>1 DEF ServerFlight
  <1>4. ServerOwners'
    <2>1. \A b \in Blocks : (Flying(b)' <=> Flying(b)) /\ (HandedOut(b)' <=> HandedOut(b))
      BY <1>0, <1>1, <1>2 DEF Flying, HandedOut
    <2> QED BY <1>v, <1>0, <2>1 DEF ServerOwners
  <1>5. ServerPool'
    <2>1. np' \in {"next", "store"} /\ allocator = "pool" =>
            blk' = free_head /\ free_head # Null /\ (np' = "store" => nxt' = mem[blk'])
      <3>1. CASE Server!AllocHead
        BY <3>1 DEF Server!AllocHead
      <3>2. CASE Server!AllocNext
        <4> SUFFICES ASSUME allocator = "pool" PROVE blk' = free_head /\ free_head # Null /\ nxt' = mem[blk]
          BY <3>2 DEF Server!AllocNext
        <4>1. np = "next" /\ blk = free_head /\ free_head # Null /\ free_head \in Blocks
          BY <1>v, <3>2 DEF Server!AllocNext, ServerPool
        <4>2. mem[blk] \in Blocks \cup {Null}
          BY <1>v, <4>1, FreeHeadFree DEF ServerPool
        <4> QED BY <3>2, <4>1, <4>2 DEF Server!AllocNext, Server!AsLink
      <3>3. CASE ~Server!AllocHead /\ ~Server!AllocNext
        <4>1. np' \in {"next", "store"} => np' = np /\ blk' = blk /\ nxt' = nxt
          BY <3>3 DEF ServerQuiet, Server!NetLoop, Server!NetRecv, Server!NetIdle, Server!ConLoop,
                      Server!ConEmpty, Server!Stop, Server!Join, Server!network
        <4> QED BY <1>v, <4>1 DEF ServerPool
      <3> QED BY <3>1, <3>2, <3>3
    <2>2. /\ mem' = [b \in Blocks |-> mem'[b]]
          /\ allocator = "pool" =>
               /\ free_head \in Blocks \cup {Null}
               /\ \A x \in FreeBlocks : mem[x] \in Blocks \cup {Null}
               /\ \A x \in FreeBlocks : x \notin Chain(Blocks, Pointers(mem), Pointers(mem)[x])
               /\ kp' = "head" => mem[kmsg] = free_head
      BY <1>v, <1>0, <1>1 DEF ServerPool
    <2> QED BY <1>0, <1>2, <2>1, <2>2 DEF ServerPool
  <1>6. ServerNumbers'
    <2>1. PICK c : c = Behind /\ c = Behind'
      BY <1>2
    <2>2. /\ seq \in Nat /\ counted \in Seq(Nat)
          /\ \A j \in 1..Len(counted) : counted[j] = j - 1
          /\ kp' = "count" => mem[kmsg] = Len(counted)
          /\ \A j \in 1..Len(g_queue) : mem[g_queue[j]] = c + j - 1
          /\ np' # "push" => seq = c + Len(g_queue)
          /\ np' = "push" => seq = c + Len(g_queue) + 1 /\ mem[blk'] = c + Len(g_queue)
      BY <1>v, <1>1, <2>1 DEF ServerNumbers, Filling
    <2> QED BY <1>0, <2>1, <2>2 DEF ServerNumbers
  <1> QED BY <1>3, <1>4, <1>5, <1>6 DEF ServerExact

(* Writing into a block that is handed out changes nothing of the list. *)
LEMMA PoolWrite ==
  ASSUME free_head \in Blocks \cup {Null}, free_head' = free_head, NEW b, b \notin FreeBlocks,
         \A x \in Blocks \ {b} : mem'[x] = mem[x]
  PROVE  /\ FreeBlocks' = FreeBlocks
         /\ \A x \in FreeBlocks :
              /\ x \in Blocks /\ mem'[x] = mem[x] /\ Pointers(mem')[x] = Pointers(mem)[x]
              /\ Chain(Blocks, Pointers(mem'), Pointers(mem')[x])
                   = Chain(Blocks, Pointers(mem), Pointers(mem)[x])
  <1>1. PICK f, g : f = Pointers(mem) /\ g = Pointers(mem')
    OBVIOUS
  <1>2. f \in Links(Blocks) /\ g \in Links(Blocks)
    BY <1>1, PointersLink
  <1>3. FreeBlocks = Chain(Blocks, f, free_head) /\ FreeBlocks' = Chain(Blocks, g, free_head)
    BY <1>1 DEF FreeBlocks
  <1>4. \A x \in FreeBlocks : x \in Blocks /\ mem'[x] = mem[x] /\ g[x] = f[x]
    <2>1. FreeBlocks \subseteq Blocks
      BY <1>2, <1>3, ChainClosed, BlocksAssumption
    <2> QED BY <1>1, <2>1 DEF Pointers
  <1>5. FreeBlocks' = FreeBlocks
    BY <1>2, <1>3, <1>4, ChainSame, BlocksAssumption
  <1>6. ASSUME NEW x \in FreeBlocks
        PROVE  Chain(Blocks, g, g[x]) = Chain(Blocks, f, f[x])
    <2>1. f[x] \in Blocks \cup {Null}
      BY <1>2, <1>4 DEF Links
    <2>2. Chain(Blocks, f, f[x]) \subseteq FreeBlocks
      BY <1>2, <1>3, ChainTail, BlocksAssumption
    <2> QED BY <1>2, <1>4, <2>1, <2>2, ChainSame, BlocksAssumption
  <1> QED BY <1>1, <1>4, <1>5, <1>6

(* alloc takes the head off the list. *)
LEMMA ServerAllocStore ==
  ASSUME ServerPcs, ServerExact, Server!AllocStore, ~overlap
  PROVE  ServerExact'
  <1>v. ServerFlight /\ ServerOwners /\ ServerPool /\ ServerNumbers
    BY DEF ServerExact
  <1>0. /\ np = "store" /\ np' = "fill" /\ free_head' = nxt /\ allocator = "pool" /\ kp # "head"
        /\ UNCHANGED <<allocator, mem, newed, g_queue, blk, nxt, seq, kp, kmsg, counted>>
    BY DEF ServerPcs, Server!AllocStore, Server!consumer
  <1>1. /\ blk = free_head /\ blk \in Blocks /\ nxt = mem[blk]
        /\ \A x \in FreeBlocks : mem[x] \in Blocks \cup {Null}
        /\ \A x \in FreeBlocks : x \notin Chain(Blocks, Pointers(mem), Pointers(mem)[x])
        /\ mem = [b \in Blocks |-> mem[b]]
    BY <1>v, <1>0 DEF ServerPool
  <1>2. PICK f : f = Pointers(mem)
    OBVIOUS
  <1>3. f \in Links(Blocks) /\ blk \in FreeBlocks /\ FreeBlocks = {blk} \cup Chain(Blocks, f, f[blk])
    BY <1>1, <1>2, FreeHeadFree, PointersLink
  <1>4. nxt \in Blocks \cup {Null} /\ f[blk] = nxt
    BY <1>1, <1>2, <1>3 DEF Pointers
  <1>5. FreeBlocks' = Chain(Blocks, f, f[blk])
    BY <1>0, <1>2, <1>4 DEF FreeBlocks
  <1>6. blk \notin FreeBlocks' /\ FreeBlocks = {blk} \cup FreeBlocks'
    BY <1>1, <1>2, <1>3, <1>5
  <1>7. ServerPool'
    BY <1>0, <1>1, <1>4, <1>6 DEF ServerPool
  <1>8. ~Flying(blk) /\ ~Filling /\ Filling' /\ (Counting' <=> Counting)
    BY <1>v, <1>0, <1>1, <1>3 DEF ServerOwners, HandedOut, Filling, Counting
  <1>9. ServerFlight'
    BY <1>v, <1>0, <1>1, <1>8 DEF ServerFlight, Flying
  <1>10. ServerOwners'
    <2>1. \A b \in Blocks : (Flying(b)' <=> Flying(b) \/ b = blk)
                            /\ (HandedOut(b)' <=> HandedOut(b) \/ b = blk)
      BY <1>0, <1>6, <1>8 DEF Flying, HandedOut
    <2> QED BY <1>v, <1>0, <2>1 DEF ServerOwners
  <1>11. ServerNumbers'
    BY <1>v, <1>0 DEF ServerNumbers, Behind
  <1> QED BY <1>7, <1>9, <1>10, <1>11 DEF ServerExact

(* new hands out a block that is not in use. *)
LEMMA ServerNetNew ==
  ASSUME ServerPcs, ServerExact, Server!NetNew
  PROVE  ServerExact'
  <1>v. ServerFlight /\ ServerOwners /\ ServerPool /\ ServerNumbers
    BY DEF ServerExact
  <1>0. /\ np = "alloc" /\ np' = "fill" /\ allocator = "new"
        /\ blk' \in Blocks \ newed /\ newed' = newed \cup {blk'}
        /\ UNCHANGED <<allocator, free_head, mem, g_queue, nxt, seq, kp, kmsg, counted>>
    BY DEF Server!NetNew, Server!consumer
  <1>1. ServerPool'
    BY <1>v, <1>0 DEF ServerPool
  <1>2. ~Flying(blk') /\ ~Filling /\ Filling' /\ (Counting' <=> Counting)
    BY <1>v, <1>0 DEF ServerOwners, HandedOut, Filling, Counting
  <1>3. ServerFlight'
    BY <1>v, <1>0, <1>2 DEF ServerFlight, Flying
  <1>4. ServerOwners'
    <2>1. \A b \in Blocks : (Flying(b)' <=> Flying(b) \/ b = blk')
                            /\ (HandedOut(b)' <=> HandedOut(b) \/ b = blk')
      BY <1>0, <1>2 DEF Flying, HandedOut
    <2> QED BY <1>v, <1>0, <2>1 DEF ServerOwners
  <1>5. ServerNumbers'
    BY <1>v, <1>0 DEF ServerNumbers, Behind
  <1> QED BY <1>1, <1>3, <1>4, <1>5 DEF ServerExact

(* The message gets the next number. *)
LEMMA ServerNetFill ==
  ASSUME ServerPcs, ServerExact, Server!NetFill
  PROVE  ServerExact'
  <1>v. ServerFlight /\ ServerOwners /\ ServerPool /\ ServerNumbers
    BY DEF ServerExact
  <1>0. /\ np = "fill" /\ np' = "push" /\ mem' = [mem EXCEPT ![blk] = seq] /\ seq' = seq + 1
        /\ UNCHANGED <<allocator, free_head, newed, g_queue, blk, nxt, kp, kmsg, counted>>
    BY DEF Server!NetFill, Server!consumer
  <1>1. /\ Filling /\ Filling' /\ (Counting' <=> Counting) /\ blk \in Blocks /\ HandedOut(blk)
        /\ \A j \in 1..Len(g_queue) : g_queue[j] # blk /\ g_queue[j] \in Blocks
        /\ Counting => kmsg # blk /\ kmsg \in Blocks
    BY <1>v, <1>0 DEF Filling, Counting, ServerFlight, ServerOwners, Flying
  <1>2. /\ mem'[blk] = seq /\ (\A x \in Blocks \ {blk} : mem'[x] = mem[x])
        /\ mem' = [b \in Blocks |-> mem'[b]]
    BY <1>v, <1>0, <1>1 DEF ServerPool
  <1>3. ServerFlight'
    BY <1>v, <1>0, <1>1 DEF ServerFlight
  <1>4. allocator = "pool" =>
          /\ FreeBlocks' = FreeBlocks
          /\ \A x \in FreeBlocks :
               /\ mem'[x] = mem[x] /\ Pointers(mem')[x] = Pointers(mem)[x]
               /\ Chain(Blocks, Pointers(mem'), Pointers(mem')[x])
                    = Chain(Blocks, Pointers(mem), Pointers(mem)[x])
    <2> SUFFICES ASSUME allocator = "pool"
                 PROVE  free_head \in Blocks \cup {Null} /\ blk \notin FreeBlocks
      BY <1>0, <1>2, PoolWrite
    <2> QED BY <1>v, <1>1 DEF ServerPool, HandedOut
  <1>5. ServerOwners'
    <2>1. \A b \in Blocks : (Flying(b)' <=> Flying(b)) /\ (HandedOut(b)' <=> HandedOut(b))
      BY <1>v, <1>0, <1>1, <1>4 DEF Flying, HandedOut, ServerPcs
    <2> QED BY <1>v, <1>0, <2>1 DEF ServerOwners
  <1>6. ServerPool'
    <2>1. kp = "head" => mem'[kmsg] = mem[kmsg]
      BY <1>1, <1>2 DEF Counting
    <2> QED BY <1>v, <1>0, <1>2, <1>4, <2>1 DEF ServerPool
  <1>7. ServerNumbers'
    <2>1. kp = "count" => mem'[kmsg] = mem[kmsg]
      BY <1>1, <1>2 DEF Counting
    <2>2. \A j \in 1..Len(g_queue) : mem'[g_queue[j]] = mem[g_queue[j]]
      BY <1>1, <1>2
    <2> QED BY <1>v, <1>0, <1>2, <2>1, <2>2 DEF ServerNumbers, Behind
  <1> QED BY <1>3, <1>5, <1>6, <1>7 DEF ServerExact

(* The message goes from the network thread to the end of the queue. *)
LEMMA ServerNetPush ==
  ASSUME ServerPcs, ServerExact, Server!NetPush
  PROVE  ServerExact'
  <1>v. ServerFlight /\ ServerOwners /\ ServerPool /\ ServerNumbers
    BY DEF ServerExact
  <1>0. /\ np = "push" /\ np' = "recv" /\ g_queue' = Append(g_queue, blk)
        /\ UNCHANGED <<allocator, free_head, mem, newed, blk, nxt, seq, kp, kmsg, counted>>
    BY DEF Server!NetPush, Server!consumer, Server!pool
  <1>1. /\ Filling /\ ~Filling' /\ (Counting' <=> Counting) /\ blk \in Blocks
        /\ \A j \in 1..Len(g_queue) : g_queue[j] # blk
        /\ Counting => kmsg # blk
    BY <1>v, <1>0 DEF Filling, Counting, ServerFlight
  <1>2. PICK s \in Seq(Blocks) : s = g_queue
    BY <1>v DEF ServerFlight
  <1>3. PICK z : z = g_queue'
    OBVIOUS
  <1>4. /\ z \in Seq(Blocks) /\ Len(s) \in Nat /\ Len(z) = Len(s) + 1 /\ z[Len(s) + 1] = blk
        /\ \A j \in 1..Len(s) : z[j] = s[j]
    BY <1>0, <1>1, <1>2, <1>3
  <1>5. \A j \in 1..Len(z) : j = Len(z) \/ j \in 1..Len(s)
    BY <1>4
  <1>6. ServerFlight'
    <2>1. ASSUME NEW j \in 1..Len(z), NEW l \in 1..Len(z), z[j] = z[l]
          PROVE  j = l
      <3>1. CASE j \in 1..Len(s) /\ l \in 1..Len(s)
        BY <1>v, <1>2, <1>4, <2>1, <3>1 DEF ServerFlight
      <3>2. CASE j \in 1..Len(s) /\ l = Len(z)
        BY <1>1, <1>2, <1>4, <2>1, <3>2
      <3>3. CASE j = Len(z) /\ l \in 1..Len(s)
        BY <1>1, <1>2, <1>4, <2>1, <3>3
      <3> QED BY <1>5, <3>1, <3>2, <3>3
    <2>2. Counting => \A j \in 1..Len(z) : z[j] # kmsg
      BY <1>v, <1>1, <1>2, <1>4, <1>5 DEF ServerFlight
    <2> QED BY <1>v, <1>0, <1>1, <1>3, <1>4, <2>1, <2>2 DEF ServerFlight
  <1>7. ServerPool'
    BY <1>v, <1>0 DEF ServerPool, FreeBlocks
  <1>8. ServerOwners'
    <2>1. ASSUME NEW b
          PROVE  (\E j \in 1..Len(z) : b = z[j]) <=> (b = blk \/ \E j \in 1..Len(s) : b = s[j])
      <3>1. Len(z) \in 1..Len(z) /\ \A j \in 1..Len(s) : j \in 1..Len(z)
        BY <1>4
      <3> QED BY <1>4, <1>5, <3>1
    <2>2. \A b \in Blocks : (Flying(b)' <=> Flying(b)) /\ (HandedOut(b)' <=> HandedOut(b))
      BY <1>0, <1>1, <1>2, <1>3, <2>1 DEF Flying, HandedOut, FreeBlocks
    <2> QED BY <1>v, <1>0, <2>2 DEF ServerOwners
  <1>9. ServerNumbers'
    <2>1. PICK c : c = Behind /\ c = Behind'
      BY <1>0 DEF Behind
    <2>2. c \in Nat /\ seq = c + Len(s) + 1 /\ mem[blk] = c + Len(s)
          /\ \A j \in 1..Len(s) : mem[s[j]] = c + j - 1
      BY <1>v, <1>0, <1>2, <2>1 DEF ServerNumbers, Behind
    <2>3. ASSUME NEW j \in 1..Len(z)
          PROVE  mem[z[j]] = c + j - 1
      <3>1. CASE j = Len(z)
        BY <1>4, <2>2, <3>1
      <3>2. CASE j \in 1..Len(s)
        BY <1>4, <2>2, <3>2
      <3> QED BY <1>5, <3>1, <3>2
    <2>4. seq = c + Len(z)
      BY <1>4, <2>2
    <2>5. /\ counted \in Seq(Nat) /\ seq \in Nat
          /\ \A j \in 1..Len(counted) : counted[j] = j - 1
          /\ kp = "count" => mem[kmsg] = Len(counted)
      BY <1>v DEF ServerNumbers
    <2> QED BY <1>0, <1>3, <2>1, <2>3, <2>4, <2>5 DEF ServerNumbers
  <1> QED BY <1>6, <1>7, <1>8, <1>9 DEF ServerExact

(* The first message of the queue goes to the consumer. *)
LEMMA ServerConPop ==
  ASSUME ServerPcs, ServerExact, Server!ConPop
  PROVE  ServerExact'
  <1>v. ServerFlight /\ ServerOwners /\ ServerPool /\ ServerNumbers
    BY DEF ServerExact
  <1>0. /\ kp = "pop" /\ kp' = "count" /\ g_queue # <<>>
        /\ kmsg' = Head(g_queue) /\ g_queue' = Tail(g_queue)
        /\ UNCHANGED <<allocator, free_head, mem, newed, np, blk, nxt, seq, counted>>
    BY DEF Server!ConPop, Server!network, Server!pool
  <1>1. ~Counting /\ Counting' /\ (Filling' <=> Filling)
    BY <1>0 DEF Filling, Counting
  <1>2. PICK s \in Seq(Blocks) : s = g_queue
    BY <1>v DEF ServerFlight
  <1>3. PICK z : z = g_queue'
    OBVIOUS
  <1>4. /\ z \in Seq(Blocks) /\ Len(s) \in Nat /\ Len(s) >= 1 /\ Len(z) = Len(s) - 1
        /\ kmsg' = s[1] /\ s[1] \in Blocks
        /\ \A j \in 1..Len(z) : z[j] = s[j + 1] /\ j + 1 \in 1..Len(s)
    <2>1. s # <<>> /\ z = Tail(s) /\ kmsg' = Head(s)
      BY <1>0, <1>2, <1>3
    <2>2. Len(s) \in Nat /\ Len(s) >= 1 /\ z \in Seq(Blocks) /\ Len(z) = Len(s) - 1
      BY <2>1, Taken
    <2> QED BY <2>1, <2>2
  <1>5. \A j, l \in 1..Len(s) : s[j] = s[l] => j = l
    BY <1>v, <1>2 DEF ServerFlight
  <1>6. ServerFlight'
    <2>1. ASSUME NEW j \in 1..Len(z), z[j] = s[1]
          PROVE  FALSE
      <3>1. 1 \in 1..Len(s) /\ j + 1 \in 1..Len(s) /\ s[j + 1] = s[1] /\ j + 1 # 1
        BY <1>4, <2>1
      <3> QED BY <1>5, <3>1
    <2>2. \A j, l \in 1..Len(z) : z[j] = z[l] => j = l
      BY <1>4, <1>5
    <2>3. Filling => blk \in Blocks /\ blk # s[1] /\ \A j \in 1..Len(z) : z[j] # blk
      BY <1>v, <1>2, <1>4 DEF ServerFlight
    <2> QED BY <1>0, <1>1, <1>3, <1>4, <2>1, <2>2, <2>3 DEF ServerFlight
  <1>7. ServerPool'
    BY <1>v, <1>0 DEF ServerPool, FreeBlocks
  <1>8. ServerOwners'
    <2>1. ASSUME NEW b
          PROVE  (\E j \in 1..Len(s) : b = s[j]) <=> (b = s[1] \/ \E j \in 1..Len(z) : b = z[j])
      <3>1. ASSUME NEW j \in 1..Len(s)
            PROVE  j = 1 \/ (j - 1 \in 1..Len(z) /\ z[j - 1] = s[j])
        BY <1>4
      <3> QED BY <1>4, <3>1
    <2>2. \A b \in Blocks : (Flying(b)' <=> Flying(b)) /\ (HandedOut(b)' <=> HandedOut(b))
      <3>1. \A b : Flying(b)' <=> Flying(b)
        BY <1>0, <1>1, <1>2, <1>3, <1>4, <2>1 DEF Flying
      <3> QED BY <1>0, <3>1 DEF HandedOut, FreeBlocks
    <2> QED BY <1>v, <1>0, <2>2 DEF ServerOwners
  <1>9. ServerNumbers'
    <2>1. PICK c : c = Behind
      OBVIOUS
    <2>2. /\ c \in Nat /\ c = Len(counted) /\ Behind' = c + 1
          /\ \A j \in 1..Len(s) : mem[s[j]] = c + j - 1
          /\ seq \in Nat /\ counted \in Seq(Nat)
          /\ \A j \in 1..Len(counted) : counted[j] = j - 1
          /\ np # "push" => seq = c + Len(s)
          /\ np = "push" => seq = c + Len(s) + 1 /\ mem[blk] = c + Len(s)
      BY <1>v, <1>0, <1>2, <2>1 DEF ServerNumbers, Behind
    <2>3. ASSUME NEW j \in 1..Len(z)
          PROVE  mem[z[j]] = c + 1 + j - 1
      <3>1. z[j] = s[j + 1] /\ j + 1 \in 1..Len(s) /\ c + (j + 1) - 1 = c + 1 + j - 1
        BY <1>4, <2>2
      <3>2. mem[s[j + 1]] = c + (j + 1) - 1
        BY <2>2, <3>1
      <3> QED BY <3>1, <3>2
    <2>4. mem[s[1]] = c /\ c + Len(s) = c + 1 + Len(z)
      BY <1>4, <2>2
    <2> QED BY <1>0, <1>3, <1>4, <2>2, <2>3, <2>4 DEF ServerNumbers
  <1> QED BY <1>6, <1>7, <1>8, <1>9 DEF ServerExact

(* The number of the message is counted. *)
LEMMA ServerConCount ==
  ASSUME ServerPcs, ServerExact, Server!ConCount
  PROVE  ServerExact'
  <1>v. ServerFlight /\ ServerOwners /\ ServerPool /\ ServerNumbers
    BY DEF ServerExact
  <1>0. /\ kp = "count" /\ kp' = "free" /\ counted' = Append(counted, mem[kmsg])
        /\ UNCHANGED <<allocator, free_head, mem, newed, g_queue, np, blk, nxt, seq, kmsg>>
    BY DEF Server!ConCount, Server!network, Server!pool
  <1>1. Counting /\ Counting' /\ (Filling' <=> Filling) /\ FreeBlocks' = FreeBlocks
    BY <1>0 DEF Filling, Counting, FreeBlocks
  <1>2. ServerFlight'
    BY <1>v, <1>0, <1>1 DEF ServerFlight
  <1>3. ServerPool'
    BY <1>v, <1>0, <1>1 DEF ServerPool
  <1>4. ServerOwners'
    <2>1. \A b \in Blocks : (Flying(b)' <=> Flying(b)) /\ (HandedOut(b)' <=> HandedOut(b))
      BY <1>0, <1>1 DEF Flying, HandedOut
    <2> QED BY <1>v, <1>0, <2>1 DEF ServerOwners
  <1>5. ServerNumbers'
    <2>1. PICK s \in Seq(Nat) : s = counted
      BY <1>v DEF ServerNumbers
    <2>2. PICK z : z = counted'
      OBVIOUS
    <2>3. mem[kmsg] = Len(s) /\ \A j \in 1..Len(s) : s[j] = j - 1
      BY <1>v, <1>0, <2>1 DEF ServerNumbers
    <2>4. /\ z \in Seq(Nat) /\ Len(s) \in Nat /\ Len(z) = Len(s) + 1
          /\ z[Len(s) + 1] = Len(s) /\ \A j \in 1..Len(s) : z[j] = s[j]
      BY <1>0, <2>1, <2>2, <2>3
    <2>5. ASSUME NEW j \in 1..Len(z)
          PROVE  z[j] = j - 1
      <3>1. CASE j = Len(s) + 1
        BY <2>4, <3>1
      <3>2. CASE j \in 1..Len(s)
        BY <2>3, <2>4, <3>2
      <3> QED BY <2>4, <3>1, <3>2
    <2>6. Behind' = Behind
      BY <1>0, <2>1, <2>2, <2>4 DEF Behind
    <2> QED BY <1>v, <1>0, <2>2, <2>4, <2>5, <2>6 DEF ServerNumbers
  <1> QED BY <1>2, <1>3, <1>4, <1>5 DEF ServerExact

(* free links the block, which stays handed out, ... *)
LEMMA ServerFreeLink ==
  ASSUME ServerPcs, ServerExact, Server!FreeLink, ~overlap', ServerPcs'
  PROVE  ServerExact'
  <1>v. ServerFlight /\ ServerOwners /\ ServerPool /\ ServerNumbers
    BY DEF ServerExact
  <1>0. /\ kp = "free" /\ kp' = "head" /\ allocator = "pool" /\ np \notin {"next", "store"}
        /\ mem' = [mem EXCEPT ![kmsg] = free_head]
        /\ UNCHANGED <<allocator, free_head, newed, g_queue, np, blk, nxt, seq, kmsg, counted>>
    BY DEF Server!FreeLink, Server!network, ServerPcs
  <1>1. /\ Counting /\ Counting' /\ (Filling' <=> Filling) /\ kmsg \in Blocks /\ kmsg \notin FreeBlocks
        /\ \A j \in 1..Len(g_queue) : g_queue[j] # kmsg /\ g_queue[j] \in Blocks
        /\ Filling => blk # kmsg /\ blk \in Blocks
    BY <1>v, <1>0 DEF Filling, Counting, ServerFlight, ServerOwners, Flying, HandedOut
  <1>2. /\ mem'[kmsg] = free_head /\ (\A x \in Blocks \ {kmsg} : mem'[x] = mem[x])
        /\ mem' = [b \in Blocks |-> mem'[b]] /\ free_head \in Blocks \cup {Null}
    BY <1>v, <1>0, <1>1 DEF ServerPool
  <1>3. ServerFlight'
    BY <1>v, <1>0, <1>1 DEF ServerFlight
  <1>4. /\ FreeBlocks' = FreeBlocks
        /\ \A x \in FreeBlocks :
             /\ mem'[x] = mem[x] /\ Pointers(mem')[x] = Pointers(mem)[x]
             /\ Chain(Blocks, Pointers(mem'), Pointers(mem')[x])
                  = Chain(Blocks, Pointers(mem), Pointers(mem)[x])
    BY <1>0, <1>1, <1>2, PoolWrite
  <1>5. ServerOwners'
    <2>1. \A b \in Blocks : (Flying(b)' <=> Flying(b)) /\ (HandedOut(b)' <=> HandedOut(b))
      BY <1>0, <1>1, <1>4 DEF Flying, HandedOut
    <2> QED BY <1>v, <1>0, <2>1 DEF ServerOwners
  <1>6. ServerPool'
    BY <1>v, <1>0, <1>2, <1>4 DEF ServerPool
  <1>7. ServerNumbers'
    <2>1. np = "push" => mem'[blk] = mem[blk]
      BY <1>1, <1>2 DEF Filling
    <2>2. \A j \in 1..Len(g_queue) : mem'[g_queue[j]] = mem[g_queue[j]]
      BY <1>1, <1>2
    <2>3. Behind' = Behind
      BY <1>0 DEF Behind
    <2> QED BY <1>v, <1>0, <2>1, <2>2, <2>3 DEF ServerNumbers
  <1> QED BY <1>3, <1>5, <1>6, <1>7 DEF ServerExact

(* ... and makes it the head of the list. *)
LEMMA ServerFreeHead ==
  ASSUME ServerPcs, ServerExact, Server!FreeHead, ~overlap
  PROVE  ServerExact'
  <1>v. ServerFlight /\ ServerOwners /\ ServerPool /\ ServerNumbers
    BY DEF ServerExact
  <1>0. /\ kp = "head" /\ kp' = "loop" /\ free_head' = kmsg
        /\ allocator = "pool" /\ np \notin {"next", "store"}
        /\ UNCHANGED <<allocator, mem, newed, g_queue, np, blk, nxt, seq, kmsg, counted>>
    BY DEF Server!FreeHead, Server!network, ServerPcs
  <1>1. /\ Counting /\ ~Counting' /\ (Filling' <=> Filling) /\ kmsg \in Blocks /\ kmsg \notin FreeBlocks
        /\ \A j \in 1..Len(g_queue) : g_queue[j] # kmsg
        /\ Filling => blk # kmsg
    BY <1>v, <1>0 DEF Filling, Counting, ServerFlight, ServerOwners, Flying, HandedOut
  <1>2. PICK f : f = Pointers(mem)
    OBVIOUS
  <1>3. /\ free_head \in Blocks \cup {Null} /\ mem[kmsg] = free_head /\ f[kmsg] = free_head
        /\ \A x \in FreeBlocks : mem[x] \in Blocks \cup {Null} /\ x \notin Chain(Blocks, f, f[x])
    BY <1>v, <1>0, <1>1, <1>2 DEF ServerPool, Pointers
  <1>4. FreeBlocks = Chain(Blocks, f, f[kmsg]) /\ FreeBlocks' = {kmsg} \cup FreeBlocks
    <2>1. f \in Links(Blocks) /\ FreeBlocks' = Chain(Blocks, f, kmsg)
      BY <1>0, <1>2, PointersLink DEF FreeBlocks
    <2> QED BY <1>1, <1>2, <1>3, <2>1, ChainFirst, BlocksAssumption DEF FreeBlocks
  <1>5. ServerFlight'
    BY <1>v, <1>0, <1>1 DEF ServerFlight
  <1>6. ServerPool'
    <2>1. \A x \in FreeBlocks' : mem[x] \in Blocks \cup {Null} /\ x \notin Chain(Blocks, f, f[x])
      BY <1>1, <1>3, <1>4
    <2> QED BY <1>v, <1>0, <1>1, <1>2, <2>1 DEF ServerPool
  <1>7. ServerOwners'
    <2>1. \A b \in Blocks : (Flying(b)' <=> Flying(b) /\ b # kmsg)
                            /\ (HandedOut(b)' <=> HandedOut(b) /\ b # kmsg)
      BY <1>0, <1>1, <1>4 DEF Flying, HandedOut
    <2> QED BY <1>v, <1>0, <2>1 DEF ServerOwners
  <1>8. ServerNumbers'
    <2>1. Behind' = Behind
      BY <1>0 DEF Behind
    <2> QED BY <1>v, <1>0, <2>1 DEF ServerNumbers
  <1> QED BY <1>5, <1>6, <1>7, <1>8 DEF ServerExact

(* delete takes the message out of use. *)
LEMMA ServerConDelete ==
  ASSUME ServerPcs, ServerExact, Server!ConDelete
  PROVE  ServerExact'
  <1>v. ServerFlight /\ ServerOwners /\ ServerPool /\ ServerNumbers
    BY DEF ServerExact
  <1>0. /\ kp = "free" /\ kp' = "loop" /\ allocator = "new" /\ newed' = newed \ {kmsg}
        /\ UNCHANGED <<allocator, free_head, mem, g_queue, np, blk, nxt, seq, kmsg, counted>>
    BY DEF Server!ConDelete, Server!network
  <1>1. /\ Counting /\ ~Counting' /\ (Filling' <=> Filling)
        /\ \A j \in 1..Len(g_queue) : g_queue[j] # kmsg
        /\ Filling => blk # kmsg
    BY <1>v, <1>0 DEF Filling, Counting, ServerFlight
  <1>2. ServerFlight'
    BY <1>v, <1>0, <1>1 DEF ServerFlight
  <1>3. ServerPool'
    BY <1>v, <1>0 DEF ServerPool
  <1>4. ServerOwners'
    <2>1. \A b \in Blocks : (Flying(b)' <=> Flying(b) /\ b # kmsg)
                            /\ (HandedOut(b)' <=> HandedOut(b) /\ b # kmsg)
      BY <1>0, <1>1 DEF Flying, HandedOut
    <2> QED BY <1>v, <1>0, <2>1 DEF ServerOwners
  <1>5. ServerNumbers'
    <2>1. Behind' = Behind
      BY <1>0 DEF Behind
    <2> QED BY <1>v, <1>0, <2>1 DEF ServerNumbers
  <1> QED BY <1>2, <1>3, <1>4, <1>5 DEF ServerExact

(* The free list of the constructor: all blocks, one after the other. *)
LEMMA ServerFirstFree ==
  ASSUME Server!Init
  PROVE  /\ mem = [b \in Blocks |-> mem[b]] /\ free_head \in Blocks /\ FreeBlocks = Blocks
         /\ \A x \in Blocks : /\ mem[x] \in Blocks \cup {Null}
                              /\ x \notin Chain(Blocks, Pointers(mem), Pointers(mem)[x])
  <1> DEFINE m == Cardinality(Blocks)
             f == Server!FirstFree
  <1>1. m \in Nat /\ m >= 1 /\ \E g \in [1..m -> Blocks] : \A b \in Blocks : \E x \in 1..m : g[x] = b
    <2>1. m \in Nat /\ m # 0 /\ ExistsBijection(1..m, Blocks)
      BY BlocksAssumption, FS_CardinalityType, FS_EmptySet
    <2> QED BY <2>1 DEF ExistsBijection, Bijection, Surjection
  <1>2. f \in [1..m -> Blocks] /\ \A b \in Blocks : \E x \in 1..m : f[x] = b
    <2>1. f = CHOOSE g \in [1..m -> Blocks] : \A b \in Blocks : \E x \in 1..m : g[x] = b
      BY DEF Server!FirstFree, Server!Cardinality, Cardinality
    <2> HIDE DEF f, m
    <2> QED BY <1>1, <2>1
  <1>3. \A x, y \in 1..m : f[x] = f[y] => x = y
    <2>1. IsFiniteSet(1..m) /\ Cardinality(1..m) = m /\ f \in Surjection(1..m, Blocks)
      <3> HIDE DEF f
      <3> QED BY <1>1, <1>2, FS_Interval DEF Surjection
    <2>2. f \in Injection(1..m, Blocks)
      BY <2>1, FS_Surjection
    <2> HIDE DEF f, m
    <2> QED BY <2>2 DEF Injection, IsInjective
  <1>4. Len(f) = m /\ DOMAIN f = 1..m
    <2> HIDE DEF f, m
    <2>1. f \in Seq(Blocks) /\ DOMAIN f = 1..m
      BY <1>1, <1>2
    <2>2. Len(f) \in Nat /\ DOMAIN f = 1..Len(f)
      BY <2>1, LenProperties
    <2> QED BY <1>1, <2>1, <2>2
  <1>a. PICK place : place = [b \in Blocks |-> CHOOSE j \in DOMAIN f : f[j] = b]
    OBVIOUS
  <1>5. /\ free_head = f[1]
        /\ mem = [b \in Blocks |-> IF place[b] = Len(f) THEN Null ELSE f[place[b] + 1]]
    BY <1>a DEF Server!Init, Server!FirstLinks
  <1> HIDE DEF f, m
  <1>6. ASSUME NEW x \in 1..m
        PROVE  mem[f[x]] = IF x = m THEN Null ELSE f[x + 1]
    <2>1. f[x] \in Blocks /\ place[f[x]] = x
      BY <1>a, <1>2, <1>3, <1>4
    <2> QED BY <1>4, <1>5, <2>1
  <1>7. PICK g : g = Pointers(mem)
    OBVIOUS
  <1>8. g \in Links(Blocks) /\ \A x \in 1..m : g[f[x]] = IF x = m THEN Null ELSE f[x + 1]
    <2>1. \A x \in 1..m : x # m => x + 1 \in 1..m
      BY <1>1
    <2> QED BY <1>2, <1>6, <1>7, <2>1, PointersLink DEF Pointers
  <1>9. 1 \in 1..m /\ f[1] \in Blocks
    BY <1>1, <1>2
  <1>10. FreeBlocks = Blocks
    <2>1. FreeBlocks = Chain(Blocks, g, f[1]) /\ FreeBlocks \subseteq Blocks
          /\ f[1] \in FreeBlocks /\ \A x \in FreeBlocks : g[x] \in FreeBlocks \cup {Null}
      BY <1>5, <1>7, <1>8, <1>9, ChainClosed, BlocksAssumption DEF FreeBlocks
    <2>2. PICK S : S = {x \in 1..m : f[x] \in FreeBlocks}
      OBVIOUS
    <2>3. ASSUME NEW x \in 1..m - 1, x \in S
          PROVE  x + 1 \in S
      <3>1. x \in 1..m /\ x # m /\ x + 1 \in 1..m
        BY <1>1
      <3>2. g[f[x]] = f[x + 1] /\ f[x] \in FreeBlocks
        BY <1>8, <2>2, <2>3, <3>1
      <3>3. f[x + 1] \in Blocks
        BY <1>2, <3>1
      <3> QED BY <2>1, <2>2, <3>1, <3>2, <3>3, BlocksAssumption
    <2>4. 1..m \subseteq S
      <3>1. 1 \in S
        BY <1>9, <2>1, <2>2
      <3> QED BY <1>1, <2>3, <3>1, UpTo
    <2> QED BY <1>2, <2>1, <2>2, <2>4
  <1>11. ASSUME NEW b \in Blocks
         PROVE  mem[b] \in Blocks \cup {Null} /\ b \notin Chain(Blocks, g, g[b])
    <2>1. PICK x \in 1..m : f[x] = b
      BY <1>2
    <2>2. PICK S : S = {f[y] : y \in x + 1..m}
      OBVIOUS
    <2>3. g[b] \in S \cup {Null} /\ mem[b] \in Blocks \cup {Null} /\ b \notin S /\ S \subseteq Blocks
      <3>1. \A y \in x + 1..m : y \in 1..m /\ y # x
        BY <1>1
      <3>2. b \notin S /\ S \subseteq Blocks
        BY <1>2, <1>3, <2>1, <2>2, <3>1
      <3>3. CASE x = m
        BY <1>6, <1>8, <2>1, <3>2, <3>3
      <3>4. CASE x # m
        <4>1. x + 1 \in x + 1..m /\ x + 1 \in 1..m
          BY <1>1, <3>4
        <4>2. f[x + 1] \in S /\ f[x + 1] \in Blocks /\ g[b] = f[x + 1] /\ mem[b] = f[x + 1]
          BY <1>2, <1>6, <1>8, <2>1, <2>2, <3>4, <4>1
        <4> QED BY <3>2, <4>2
      <3> QED BY <3>3, <3>4
    <2>4. ASSUME NEW c \in S
          PROVE  g[c] \in S \cup {Null}
      <3>1. PICK y \in x + 1..m : c = f[y]
        BY <2>2
      <3>2. y \in 1..m /\ (y = m \/ y + 1 \in x + 1..m)
        BY <1>1
      <3> QED BY <1>8, <2>2, <3>1, <3>2
    <2>5. Chain(Blocks, g, g[b]) \subseteq S
      BY <1>8, <2>3, <2>4, ChainLeast, BlocksAssumption
    <2> QED BY <2>3, <2>5
  <1>12. mem = [b \in Blocks |-> mem[b]]
    BY <1>5
  <1> QED BY <1>5, <1>7, <1>9, <1>10, <1>11, <1>12

LEMMA ServerInit == Start => ServerInv
  <1> SUFFICES ASSUME Server!Init PROVE ServerInv
    BY DEF Start
  <1>1. /\ allocator \in {"pool", "new"} /\ newed = {} /\ g_queue = <<>> /\ np = "loop"
        /\ blk = Null /\ nxt = Null /\ seq = 0 /\ kp = "loop" /\ kmsg = Null /\ counted = <<>>
        /\ overlap = FALSE
    BY DEF Server!Init
  <1>2. ~Filling /\ ~Counting /\ Behind = 0 /\ Len(g_queue) = 0 /\ Len(counted) = 0
    BY <1>1 DEF Filling, Counting, Behind
  <1>3. ServerPcs
    BY <1>1 DEF ServerPcs
  <1>4. ServerFlight
    BY <1>1, <1>2 DEF ServerFlight
  <1>5. ServerOwners
    <2>1. \A b \in Blocks : ~Flying(b) /\ ~HandedOut(b)
      BY <1>1, <1>2, ServerFirstFree DEF Flying, HandedOut
    <2> QED BY <1>1, <2>1 DEF ServerOwners
  <1>6. ServerPool
    BY <1>1, ServerFirstFree DEF ServerPool
  <1>7. ServerNumbers
    BY <1>1, <1>2 DEF ServerNumbers
  <1> QED BY <1>3, <1>4, <1>5, <1>6, <1>7 DEF ServerInv, ServerExact

LEMMA ServerInvariance == Programs => []ServerInv
  <1>1. ServerInv /\ [ProgramStep]_allVars => ServerInv'
    <2> SUFFICES ASSUME ServerPcs, ~overlap => ServerExact, [Server!Next]_serverVars, ~overlap'
                 PROVE  ServerExact' /\ ServerPcs'
      BY ServerAlone, ServerPcsStep DEF ServerInv
    <2>1. ServerPcs' /\ ~overlap /\ ServerExact
      BY ServerPcsStep DEF ServerPcs
    <2>2. CASE ServerQuiet
      BY <2>1, <2>2, ServerQuietStep
    <2>3. CASE \/ Server!AllocStore \/ Server!NetNew \/ Server!NetFill \/ Server!NetPush
               \/ Server!ConPop \/ Server!ConCount \/ Server!FreeLink \/ Server!FreeHead
               \/ Server!ConDelete
      BY <2>1, <2>3, ServerAllocStore, ServerNetNew, ServerNetFill, ServerNetPush, ServerConPop,
         ServerConCount, ServerFreeLink, ServerFreeHead, ServerConDelete
    <2>4. CASE UNCHANGED serverVars
      BY <2>1, <2>4 DEF serverVars, ServerExact, ServerFlight, ServerOwners, ServerPool, ServerNumbers,
                        FreeBlocks, Filling, Counting, Flying, HandedOut, Behind
    <2>5. Server!NoWayOn => UNCHANGED serverVars
      BY DEF Server!NoWayOn, Server!vars, serverVars, Server!pool, Server!network,
             Server!consumer, Server!main
    <2> QED BY <2>1, <2>2, <2>3, <2>4, <2>5 DEF Server!Next, Server!NetStep, Server!ConStep, ServerQuiet
  <1> QED BY ServerInit, <1>1, PTL DEF Programs

(* The messages in flight are a sequence without repetitions: the queue    *)
(* with at most one message before it and one after it.                    *)
LEMMA ServerSequence ==
  ASSUME ServerFlight, NEW z, z = Server!InFlight
  PROVE  /\ z \in Seq(Blocks) /\ \A j, l \in 1..Len(z) : z[j] = z[l] => j = l
         /\ \A x : (\E j \in 1..Len(z) : x = z[j]) <=> Flying(x)
  <1>a. PICK o \in {0, 1}, e \in {0, 1} : (o = 1 <=> Filling) /\ (e = 1 <=> Counting)
    BY DEF Filling, Counting
  <1>f. PICK s \in Seq(Blocks) : s = g_queue
    BY DEF ServerFlight
  <1>g. PICK b, c : b = blk /\ c = kmsg
    OBVIOUS
  <1>b. s = g_queue /\ b = blk /\ c = kmsg
    BY <1>f, <1>g
  <1>c. z = (IF o = 1 THEN <<b>> ELSE <<>>) \o s \o (IF e = 1 THEN <<c>> ELSE <<>>)
    BY <1>a, <1>b DEF Server!InFlight, Filling, Counting
  <1>d. /\ \A j, l \in 1..Len(s) : s[j] = s[l] => j = l
        /\ o = 1 => b \in Blocks /\ \A j \in 1..Len(s) : s[j] # b
        /\ e = 1 => c \in Blocks /\ \A j \in 1..Len(s) : s[j] # c
        /\ o = 1 /\ e = 1 => b # c
    BY <1>a, <1>b DEF ServerFlight
  <1>1. PICK n \in Nat : n = Len(s)
    OBVIOUS
  <1>2. /\ z \in Seq(Blocks) /\ Len(z) = o + n + e
        /\ o = 1 => z[1] = b
        /\ \A j \in 1..n : z[o + j] = s[j]
        /\ e = 1 => z[o + n + 1] = c
    <2>1. CASE o = 1 /\ e = 1
      BY <1>1, <1>c, <1>d, <2>1
    <2>2. CASE o = 1 /\ e = 0
      BY <1>1, <1>c, <1>d, <2>2
    <2>3. CASE o = 0 /\ e = 1
      BY <1>1, <1>c, <1>d, <2>3
    <2>4. CASE o = 0 /\ e = 0
      BY <1>1, <1>c, <1>d, <2>4
    <2> QED BY <2>1, <2>2, <2>3, <2>4
  <1>e. 1..Len(z) = 1..o + n + e /\ 1..Len(s) = 1..n
    BY <1>1, <1>2
  <1>3. ASSUME NEW j \in 1..o + n + e
        PROVE  \/ o = 1 /\ j = 1 /\ z[j] = b
               \/ e = 1 /\ j = o + n + 1 /\ z[j] = c
               \/ \E l \in 1..n : j = o + l /\ z[j] = s[l]
    <2>1. (o = 1 /\ j = 1) \/ (e = 1 /\ j = o + n + 1) \/ (j - o \in 1..n /\ j = o + (j - o))
      OBVIOUS
    <2> QED BY <1>2, <2>1
  <1>4. ASSUME NEW j \in 1..o + n + e, NEW l \in 1..o + n + e, z[j] = z[l]
        PROVE  j = l
    <2>1. CASE \E y \in 1..n : j = o + y /\ z[j] = s[y]
      <3>1. \E y \in 1..n : l = o + y /\ z[l] = s[y]
        BY <1>d, <1>e, <1>3, <1>4, <2>1
      <3> QED BY <1>d, <1>e, <1>4, <2>1, <3>1
    <2>2. CASE ~\E y \in 1..n : j = o + y /\ z[j] = s[y]
      <3>1. ~\E y \in 1..n : l = o + y /\ z[l] = s[y]
        BY <1>d, <1>e, <1>3, <1>4, <2>2
      <3> QED BY <1>d, <1>3, <1>4, <2>2, <3>1
    <2> QED BY <2>1, <2>2
  <1>5. ASSUME NEW x
        PROVE  (\E j \in 1..o + n + e : x = z[j])
                 <=> ((o = 1 /\ x = b) \/ (e = 1 /\ x = c) \/ \E j \in 1..n : x = s[j])
    <2>1. \A j \in 1..n : o + j \in 1..o + n + e
      OBVIOUS
    <2>2. (o = 1 => 1 \in 1..o + n + e) /\ (e = 1 => o + n + 1 \in 1..o + n + e)
      OBVIOUS
    <2>3. ASSUME NEW j \in 1..o + n + e, x = z[j]
          PROVE  (o = 1 /\ x = b) \/ (e = 1 /\ x = c) \/ \E l \in 1..n : x = s[l]
      BY <1>3, <2>3
    <2>4. (o = 1 /\ x = b) => \E j \in 1..o + n + e : x = z[j]
      BY <1>2, <2>2
    <2>5. (e = 1 /\ x = c) => \E j \in 1..o + n + e : x = z[j]
      BY <1>2, <2>2
    <2>6. (\E j \in 1..n : x = s[j]) => \E j \in 1..o + n + e : x = z[j]
      BY <1>2, <2>1
    <2> QED BY <2>3, <2>4, <2>5, <2>6
  <1>6. \A j, l \in 1..Len(z) : z[j] = z[l] => j = l
    BY <1>4, <1>e
  <1>7. ASSUME NEW x
        PROVE  (\E j \in 1..Len(z) : x = z[j]) <=> Flying(x)
    <2>1. Flying(x) <=> ((o = 1 /\ x = b) \/ (e = 1 /\ x = c) \/ \E j \in 1..n : x = s[j])
      BY <1>a, <1>b, <1>1 DEF Flying
    <2>2. (\E j \in 1..Len(z) : x = z[j]) <=> (\E j \in 1..o + n + e : x = z[j])
      BY <1>e
    <2> QED BY <1>5, <2>1, <2>2
  <1> QED BY <1>2, <1>6, <1>7

(* What the invariant says of the messages in flight: they are different,  *)
(* and unless alloc is at the head they are the blocks handed out.         *)
LEMMA ServerOwn == ServerInv => Server!OneOwnerUnlessOverlap
  <1> SUFFICES ASSUME ServerPcs, ServerFlight, ServerOwners, ServerPool, ~overlap
               PROVE  Server!Distinct
                      /\ (np \notin {"next", "store"} => Server!Carried = Server!Owned)
    BY DEF ServerInv, ServerExact, Server!OneOwnerUnlessOverlap
  <1>1. PICK z : z = Server!InFlight
    OBVIOUS
  <1>2. /\ z \in Seq(Blocks) /\ \A j, l \in 1..Len(z) : z[j] = z[l] => j = l
        /\ \A x : (\E j \in 1..Len(z) : x = z[j]) <=> Flying(x)
    BY <1>1, ServerSequence
  <1>3. Server!Distinct
    <2>1. Server!Carried = {z[x] : x \in DOMAIN z}
      BY <1>1 DEF Server!Carried
    <2>2. Cardinality({z[x] : x \in DOMAIN z}) = Len(z)
      BY <1>2, DistinctCount
    <2>3. \A S : Server!Cardinality(S) = Cardinality(S)
      BY DEF Server!Cardinality, Cardinality
    <2> QED BY <1>1, <2>1, <2>2, <2>3 DEF Server!Distinct
  <1>4. \A x : x \in Server!Carried <=> x \in Blocks /\ Flying(x)
    <2>1. Server!Carried = {z[x] : x \in 1..Len(z)}
      BY <1>1, <1>2, LenProperties DEF Server!Carried
    <2> QED BY <1>2, <2>1
  <1>5. \A x : x \in Server!Owned <=> x \in Blocks /\ HandedOut(x)
    <2>1. CASE allocator = "new"
      BY <2>1 DEF Server!Owned, HandedOut, ServerOwners
    <2>2. CASE allocator = "pool"
      BY <2>2, FreeListIsChain DEF Server!Owned, HandedOut, ServerPool
    <2> QED BY <2>1, <2>2 DEF ServerPcs
  <1>6. Server!Carried = Server!Owned
    BY <1>4, <1>5 DEF ServerOwners
  <1> QED BY <1>3, <1>6

LEMMA ServerCounts == ServerInv => Server!CountedInOrder
  <1> SUFFICES ASSUME ServerNumbers PROVE \A j \in DOMAIN counted : counted[j] = j - 1
    BY DEF ServerInv, ServerExact, Server!CountedInOrder
  <1> QED BY LenProperties DEF ServerNumbers

----------------------------------------------------------------------------
(* Sequences without repetitions, and what they hold.                      *)

In(s, b) == \E j \in 1..Len(s) : s[j] = b
NoRepeat(s) == \A j, l \in 1..Len(s) : s[j] = s[l] => j = l

LEMMA InAppend ==
  ASSUME NEW S, NEW s \in Seq(S), NEW w \in S, NEW z, z = Append(s, w)
  PROVE  /\ z \in Seq(S) /\ \A b : In(z, b) <=> (In(s, b) \/ b = w)
         /\ NoRepeat(s) /\ ~In(s, w) => NoRepeat(z)
  <1>1. PICK n \in Nat : n = Len(s)
    OBVIOUS
  <1>2. /\ z \in Seq(S) /\ Len(z) = n + 1 /\ z[n + 1] = w
        /\ \A j \in 1..n : z[j] = s[j] /\ j \in 1..n + 1
    BY <1>1
  <1>3. n + 1 \in 1..n + 1 /\ \A j \in 1..n + 1 : j = n + 1 \/ j \in 1..n
    OBVIOUS
  <1>4. \A b : In(z, b) <=> (In(s, b) \/ b = w)
    <2> SUFFICES ASSUME NEW b PROVE In(z, b) <=> (In(s, b) \/ b = w)
      OBVIOUS
    <2>1. In(z, b) => In(s, b) \/ b = w
      BY <1>1, <1>2, <1>3 DEF In
    <2>2. In(s, b) \/ b = w => In(z, b)
      BY <1>1, <1>2, <1>3 DEF In
    <2> QED BY <2>1, <2>2
  <1>5. ASSUME NoRepeat(s), ~In(s, w), NEW j \in 1..n + 1, NEW l \in 1..n + 1, z[j] = z[l]
        PROVE  j = l
    <2>1. \A x, y \in 1..n : s[x] = s[y] => x = y
      BY <1>1, <1>5 DEF NoRepeat
    <2>2. \A x \in 1..n : s[x] # w
      BY <1>1, <1>5 DEF In
    <2>3. CASE j = n + 1
      BY <1>2, <1>3, <1>5, <2>2, <2>3
    <2>4. CASE l = n + 1
      BY <1>2, <1>3, <1>5, <2>2, <2>4
    <2>5. CASE j # n + 1 /\ l # n + 1
      BY <1>2, <1>3, <1>5, <2>1, <2>5
    <2> QED BY <2>3, <2>4, <2>5
  <1> QED BY <1>2, <1>4, <1>5 DEF NoRepeat

LEMMA InTail ==
  ASSUME NEW S, NEW s \in Seq(S), s # <<>>, NoRepeat(s), NEW z, z = Tail(s)
  PROVE  /\ z \in Seq(S) /\ NoRepeat(z) /\ In(s, Head(s)) /\ Head(s) \in S
         /\ \A b : In(z, b) <=> (In(s, b) /\ b # Head(s))
  <1>1. PICK n \in Nat : n = Len(s)
    OBVIOUS
  <1>2. /\ z \in Seq(S) /\ n >= 1 /\ Len(z) = n - 1 /\ Head(s) = s[1] /\ s[1] \in S
        /\ \A j \in 1..n - 1 : z[j] = s[j + 1] /\ j + 1 \in 1..n /\ j + 1 # 1
    <2>1. Len(s) >= 1 /\ z \in Seq(S) /\ Len(z) = Len(s) - 1
      BY Taken
    <2> QED BY <1>1, <2>1
  <1>3. \A j, l \in 1..n : s[j] = s[l] => j = l
    BY <1>1 DEF NoRepeat
  <1>4. ASSUME NEW j \in 1..n - 1, NEW l \in 1..n - 1, z[j] = z[l]
        PROVE  j = l
    <2>1. s[j + 1] = s[l + 1] /\ j + 1 \in 1..n /\ l + 1 \in 1..n
      BY <1>2, <1>4
    <2>2. j + 1 = l + 1
      BY <1>3, <2>1
    <2> QED BY <2>2
  <1>5. ASSUME NEW b
        PROVE  In(z, b) <=> (In(s, b) /\ b # Head(s))
    <2>1. ASSUME NEW j \in 1..n - 1, z[j] = b
          PROVE  In(s, b) /\ b # s[1]
      <3>1. s[j + 1] = b /\ j + 1 \in 1..n /\ 1 \in 1..n /\ j + 1 # 1
        BY <1>2, <2>1
      <3> QED BY <1>1, <1>3, <3>1 DEF In
    <2>2. ASSUME NEW j \in 1..n, s[j] = b, b # s[1]
          PROVE  In(z, b)
      <3>1. j - 1 \in 1..n - 1 /\ (j - 1) + 1 = j
        BY <2>2
      <3>2. z[j - 1] = b
        BY <1>2, <2>2, <3>1
      <3> QED BY <1>2, <3>1, <3>2 DEF In
    <2> QED BY <1>1, <1>2, <2>1, <2>2 DEF In
  <1>6. 1 \in 1..n
    BY <1>2
  <1> QED BY <1>1, <1>2, <1>4, <1>5, <1>6 DEF In, NoRepeat

----------------------------------------------------------------------------
(* double_ring: the buffers of the free and the used ring.                 *)

Producing == n2["producer"] = 1 /\ k2["producer"] = 0
Consuming == n2["consumer"] = 1 /\ k2["consumer"] = 0
FilledBuf == batch["producer"][1]
Drained == batch["consumer"][1]
DoubleTypes ==
  /\ BatchSize \in Nat /\ BatchSize >= 1 /\ RingSize \in Nat /\ RingSize >= 2
  /\ ringMode \in {"single", "single_batch", "double", "double_batch"}
  /\ n2 = [t \in {"producer", "consumer"} |-> n2[t]]
  /\ k2 = [t \in {"producer", "consumer"} |-> k2[t]]
  /\ at2 = [t \in {"producer", "consumer"} |-> at2[t]]
  /\ batch = [t \in {"producer", "consumer", "both"} |-> batch[t]]
  /\ \A t \in {"producer", "consumer", "both"} : batch[t] = [j \in 1..BatchSize |-> batch[t][j]]
(* Without batches a thread has one buffer at most, and none in its loop.  *)
OneEach ==
  \A t \in {"producer", "consumer"} :
    /\ n2[t] \in {0, 1} /\ k2[t] \in {0, 1}
    /\ at2[t] \in {"loop", "left"} => n2[t] = 0
    /\ at2[t] = "push" => n2[t] = 1
    /\ at2[t] # "push" => k2[t] = 0
(* A buffer is in one of four places, and in one only.                     *)
Kept(b) ==
  \/ In(freeRing, b) \/ In(usedRing, b)
  \/ Producing /\ b = FilledBuf
  \/ Consuming /\ b = Drained
DoublePlaces ==
  /\ freeRing \in Seq(1..Double!Room) /\ usedRing \in Seq(1..Double!Room)
  /\ NoRepeat(freeRing) /\ NoRepeat(usedRing)
  /\ \A b \in 1..Double!Room : ~(In(freeRing, b) /\ In(usedRing, b))
  /\ Producing => FilledBuf \in 1..Double!Room /\ ~In(freeRing, FilledBuf) /\ ~In(usedRing, FilledBuf)
  /\ Consuming => Drained \in 1..Double!Room /\ ~In(freeRing, Drained) /\ ~In(usedRing, Drained)
  /\ Producing /\ Consuming => FilledBuf # Drained
  /\ \A b \in 1..Double!Room : Kept(b)
DoubleBuffers == ringMode = "double" => OneEach /\ DoublePlaces
(* The bump allocator runs past the end of its arena by one buffer.        *)
BumpBuffers ==
  Double!Single =>
    /\ offset \in 0..ArenaCap /\ usedRing \in Seq(0..ArenaCap)
    /\ n2["producer"] \in 0..BatchSize /\ k2["producer"] \in 0..BatchSize
    /\ \A j \in 1..BatchSize : batch["producer"][j] \in 0..ArenaCap
DoubleInv == DoubleTypes /\ DoubleBuffers /\ BumpBuffers

LEMMA DoubleAlone ==
  ASSUME [ProgramStep]_allVars
  PROVE  [Double!Next]_doubleVars
  BY DEF ProgramStep, allVars, rings, LockRuns, QueueRuns, LoggerRuns, PoolRuns, WaitFreeRuns,
         CapstoneRuns, RingDemoRuns, DoubleRuns, StackRuns, ServerRuns, ClientsRun, ForkRuns,
         PingRuns

LEMMA DoubleInit == Start => DoubleInv
  <1> SUFFICES ASSUME Double!Init PROVE DoubleInv
    BY DEF Start
  <1>1. /\ ringMode \in {"single", "single_batch", "double", "double_batch"}
        /\ usedRing = <<>> /\ offset = 0
        /\ batch = [t \in {"producer", "consumer", "both"} |-> [j \in 1..BatchSize |-> 0]]
        /\ at2 = [t \in {"producer", "consumer"} |-> "loop"]
        /\ n2 = [t \in {"producer", "consumer"} |-> 0]
        /\ k2 = [t \in {"producer", "consumer"} |-> 0]
    BY DEF Double!Init, Double!P, Double!C
  <1>0. BatchSize \in Nat /\ BatchSize >= 1 /\ RingSize \in Nat /\ RingSize >= 2 /\ ArenaCap \in Nat
    BY RingsAssumption
  <1>2. DoubleTypes
    <2>1. batch = [t \in {"producer", "consumer", "both"} |-> batch[t]]
      BY <1>1
    <2>2. \A t \in {"producer", "consumer", "both"} : batch[t] = [j \in 1..BatchSize |-> batch[t][j]]
      BY <1>1
    <2> QED BY <1>0, <1>1, <2>1, <2>2 DEF DoubleTypes
  <1>3. BumpBuffers
    BY <1>0, <1>1 DEF BumpBuffers
  <1>4. ASSUME ringMode = "double"
        PROVE  OneEach /\ DoublePlaces
    <2>1. freeRing = [j \in 1..Double!Room |-> j] /\ Double!Room \in Nat
      BY <1>0, <1>4 DEF Double!Init, Double!Single, Double!Room
    <2>2. PICK s : s = freeRing
      OBVIOUS
    <2>3. s \in Seq(1..Double!Room) /\ Len(s) = Double!Room /\ \A j \in 1..Double!Room : s[j] = j
      BY <2>1, <2>2
    <2>4. NoRepeat(s) /\ \A b \in 1..Double!Room : In(s, b)
      BY <2>3 DEF NoRepeat, In
    <2>5. NoRepeat(usedRing) /\ \A b : ~In(usedRing, b)
      BY <1>1 DEF NoRepeat, In
    <2>6. ~Producing /\ ~Consuming
      BY <1>1 DEF Producing, Consuming
    <2>7. OneEach
      BY <1>1 DEF OneEach
    <2>8. usedRing \in Seq(1..Double!Room)
      BY <1>1
    <2> QED BY <2>2, <2>3, <2>4, <2>5, <2>6, <2>7, <2>8 DEF DoublePlaces, Kept
  <1> QED BY <1>2, <1>3, <1>4 DEF DoubleInv, DoubleBuffers

LEMMA DoubleTypesStep ==
  ASSUME DoubleTypes, [Double!Next]_doubleVars
  PROVE  DoubleTypes' /\ ringMode' = ringMode
  <1> USE DEF DoubleTypes, Double!P, Double!C, Double!Stay, Double!Goto
  <1>1. CASE UNCHANGED doubleVars \/ Double!Rests
    BY <1>1 DEF doubleVars, Double!Rests, Double!vars
  <1>2. CASE Double!Bump \/ Double!TakeFree \/ Double!Popped
    <2>0. PICK t \in {"producer", "consumer"} : \E buf : Double!Put(t, buf)
      BY <1>2 DEF Double!Bump, Double!TakeFree, Double!Popped
    <2>1. PICK buf : Double!Put(t, buf)
      BY <2>0
    <2>2. Double!Array(t) \in {"producer", "consumer", "both"}
      BY DEF Double!Array
    <2>3. /\ batch' = [batch EXCEPT ![Double!Array(t)] = [@ EXCEPT ![n2[t] + 1] = buf]]
          /\ n2' = [n2 EXCEPT ![t] = @ + 1]
      BY <2>1 DEF Double!Put
    <2>4. UNCHANGED <<ringMode, k2, at2>>
      BY <1>2 DEF Double!Bump, Double!TakeFree, Double!Popped
    <2>5. n2' = [x \in {"producer", "consumer"} |-> n2'[x]]
      BY <2>3
    <2>6. batch' = [x \in {"producer", "consumer", "both"} |-> batch'[x]]
      BY <2>3
    <2>7. ASSUME NEW x \in {"producer", "consumer", "both"}
          PROVE  batch'[x] = [j \in 1..BatchSize |-> batch'[x][j]]
      BY <2>2, <2>3
    <2> QED BY <2>4, <2>5, <2>6, <2>7
  <1>3. CASE Double!Filled \/ Double!Processed \/ Double!Stop
    BY <1>3 DEF Double!Filled, Double!Processed, Double!Stop
  <1>4. CASE \E t \in {"producer", "consumer"} :
               \/ \E to : Double!Enter(t, to)
               \/ Double!PushOne(t) \/ Double!PushAgain(t) \/ Double!Pushed(t)
    <2> PICK t \in {"producer", "consumer"} :
               \/ \E to : Double!Enter(t, to)
               \/ Double!PushOne(t) \/ Double!PushAgain(t) \/ Double!Pushed(t)
      BY <1>4
    <2>1. CASE \E to : Double!Enter(t, to)
      BY <2>1 DEF Double!Enter
    <2>2. CASE Double!PushOne(t)
      <3>1. k2' = [k2 EXCEPT ![t] = @ + 1] /\ UNCHANGED <<batch, at2, n2, ringMode>>
        BY <2>2 DEF Double!PushOne
      <3>2. k2' = [x \in {"producer", "consumer"} |-> k2'[x]]
        BY <3>1
      <3> QED BY <3>1, <3>2
    <2>3. CASE Double!PushAgain(t)
      BY <2>3 DEF Double!PushAgain
    <2>4. CASE Double!Pushed(t)
      BY <2>4 DEF Double!Pushed
    <2> QED BY <2>1, <2>2, <2>3, <2>4
  <1> QED BY <1>1, <1>2, <1>3, <1>4 DEF Double!Next, Double!ProducerStep, Double!ConsumerStep

(* The bump allocator counts up to the end of the arena and starts over.   *)
LEMMA BumpStep ==
  ASSUME DoubleTypes, BumpBuffers, [Double!Next]_doubleVars
  PROVE  BumpBuffers'
  <1>1. BatchSize \in Nat /\ BatchSize >= 1 /\ ArenaCap \in Nat
    BY RingsAssumption
  <1>2. SUFFICES ASSUME Double!Single PROVE BumpBuffers'
    BY DoubleTypesStep DEF BumpBuffers, Double!Single
  <1>3. /\ offset \in 0..ArenaCap /\ usedRing \in Seq(0..ArenaCap)
        /\ n2["producer"] \in 0..BatchSize /\ k2["producer"] \in 0..BatchSize
        /\ \A j \in 1..BatchSize : batch["producer"][j] \in 0..ArenaCap
    BY <1>2 DEF BumpBuffers
  <1> USE DEF Double!P, Double!C, Double!Stay, Double!Goto
  <1>4. ringMode \in {"single", "single_batch"} /\ \A t : Double!Array(t) = t
    BY <1>2 DEF Double!Single, Double!Array
  <1>5. CASE Double!Bump
    <2>1. /\ n2["producer"] < BatchSize
          /\ \E buf \in 0..ArenaCap : Double!Put("producer", buf)
          /\ offset' \in 0..ArenaCap /\ UNCHANGED <<usedRing, k2, ringMode>>
      <3>1. Double!Size \in 1..BatchSize
        BY <1>1 DEF Double!Size
      <3>2. /\ n2["producer"] < Double!Size /\ UNCHANGED <<usedRing, k2, ringMode>>
            /\ offset' = (IF offset >= ArenaCap THEN 0 ELSE offset + 1)
            /\ Double!Put("producer", IF ringMode = "single_batch" /\ offset >= ArenaCap
                                      THEN 0 ELSE offset)
        BY <1>5 DEF Double!Bump
      <3>3. (IF ringMode = "single_batch" /\ offset >= ArenaCap THEN 0 ELSE offset) \in 0..ArenaCap
        BY <1>1, <1>3
      <3>4. offset' \in 0..ArenaCap
        BY <1>1, <1>3, <3>2
      <3>5. n2["producer"] < BatchSize
        BY <1>1, <1>3, <3>1, <3>2
      <3> QED BY <3>2, <3>3, <3>4, <3>5
    <2>2. PICK buf \in 0..ArenaCap : Double!Put("producer", buf)
      BY <2>1
    <2>3. n2' = [n2 EXCEPT !["producer"] = @ + 1]
          /\ batch' = [batch EXCEPT !["producer"] = [@ EXCEPT ![n2["producer"] + 1] = buf]]
      BY <1>4, <2>2 DEF Double!Put
    <2>4. n2'["producer"] \in 0..BatchSize
      BY <1>1, <1>3, <2>1, <2>3 DEF DoubleTypes
    <2>5. \A j \in 1..BatchSize : batch'["producer"][j] \in 0..ArenaCap
      BY <1>3, <2>3 DEF DoubleTypes
    <2> QED BY <1>3, <2>1, <2>4, <2>5 DEF BumpBuffers
  <1>6. CASE Double!Popped
    <2>1. /\ usedRing # <<>> /\ usedRing' = Tail(usedRing) /\ UNCHANGED <<offset, k2>>
          /\ n2' = [n2 EXCEPT !["consumer"] = @ + 1]
          /\ batch' = [batch EXCEPT !["consumer"] = [@ EXCEPT ![n2["consumer"] + 1] = Head(usedRing)]]
      BY <1>4, <1>6 DEF Double!Popped, Double!Put
    <2>2. usedRing' \in Seq(0..ArenaCap)
      BY <1>3, <2>1, Taken
    <2>3. n2'["producer"] = n2["producer"] /\ batch'["producer"] = batch["producer"]
      BY <2>1 DEF DoubleTypes
    <2> QED BY <1>3, <2>1, <2>2, <2>3 DEF BumpBuffers
  <1>7. CASE Double!PushOne("producer")
    <2>1. PICK j \in 1..BatchSize : usedRing' = Append(usedRing, batch["producer"][j])
      <3>1. k2["producer"] + 1 \in 1..BatchSize
        <4>1. k2["producer"] < n2["producer"]
          BY <1>7 DEF Double!PushOne
        <4> QED BY <1>1, <1>3, <4>1
      <3>2. usedRing' = Append(usedRing, batch["producer"][k2["producer"] + 1])
        BY <1>4, <1>7 DEF Double!PushOne, Double!Target
      <3> QED BY <3>1, <3>2
    <2>2. usedRing' \in Seq(0..ArenaCap)
      BY <1>3, <2>1
    <2>3. /\ k2["producer"] < n2["producer"] /\ k2' = [k2 EXCEPT !["producer"] = @ + 1]
          /\ UNCHANGED <<offset, batch, n2>>
      BY <1>7 DEF Double!PushOne
    <2>4. k2'["producer"] \in 0..BatchSize
      BY <1>1, <1>3, <2>3 DEF DoubleTypes
    <2> QED BY <1>3, <2>2, <2>3, <2>4 DEF BumpBuffers
  <1>8. CASE \/ \E t \in {"producer", "consumer"} :
                  (\E to : Double!Enter(t, to)) \/ Double!PushAgain(t) \/ Double!Pushed(t)
             \/ Double!PushOne("consumer")
             \/ Double!Filled \/ Double!Processed \/ Double!Stop
    <2>1. UNCHANGED <<usedRing, offset, batch>>
      BY <1>8 DEF Double!Enter, Double!PushAgain, Double!Pushed, Double!PushOne, Double!Filled,
                  Double!Processed, Double!Stop
    <2>2. n2'["producer"] \in {0, n2["producer"]} /\ k2'["producer"] \in {0, k2["producer"]}
      BY <1>8 DEF Double!Enter, Double!PushAgain, Double!Pushed, Double!PushOne, Double!Filled,
                  Double!Processed, Double!Stop, DoubleTypes
    <2> QED BY <1>1, <1>3, <2>1, <2>2 DEF BumpBuffers
  <1>9. CASE UNCHANGED doubleVars \/ Double!Rests
    BY <1>3, <1>9 DEF doubleVars, Double!Rests, Double!vars, BumpBuffers
  <1> QED BY <1>2, <1>5, <1>6, <1>7, <1>8, <1>9
          DEF Double!Next, Double!ProducerStep, Double!ConsumerStep, Double!TakeFree

(* The steps of the double ring without batches: a buffer goes from a ring *)
(* to a hand, from a hand to a ring, or stays where it is.                 *)
DoubleRests ==
  /\ UNCHANGED <<freeRing, usedRing>>
  /\ (Producing' <=> Producing) /\ (Producing => FilledBuf' = FilledBuf)
  /\ (Consuming' <=> Consuming) /\ (Consuming => Drained' = Drained)
DoubleTakes ==
  /\ freeRing # <<>> /\ freeRing' = Tail(freeRing) /\ usedRing' = usedRing
  /\ ~Producing /\ Producing' /\ FilledBuf' = Head(freeRing)
  /\ (Consuming' <=> Consuming) /\ Drained' = Drained
DoubleGives ==
  /\ usedRing' = Append(usedRing, FilledBuf) /\ freeRing' = freeRing
  /\ Producing /\ ~Producing' /\ (Consuming' <=> Consuming) /\ Drained' = Drained
DoublePops ==
  /\ usedRing # <<>> /\ usedRing' = Tail(usedRing) /\ freeRing' = freeRing
  /\ ~Consuming /\ Consuming' /\ Drained' = Head(usedRing)
  /\ (Producing' <=> Producing) /\ FilledBuf' = FilledBuf
DoubleReturns ==
  /\ freeRing' = Append(freeRing, Drained) /\ usedRing' = usedRing
  /\ Consuming /\ ~Consuming' /\ (Producing' <=> Producing) /\ FilledBuf' = FilledBuf

LEMMA DoubleMoves ==
  ASSUME DoubleTypes, OneEach, ringMode = "double", [Double!Next]_doubleVars
  PROVE  /\ OneEach'
         /\ DoubleRests \/ DoubleTakes \/ DoubleGives \/ DoublePops \/ DoubleReturns
  <1>1. /\ ~Double!Single /\ Double!Size = 1 /\ \A t : Double!Array(t) = t
        /\ BatchSize \in Nat /\ 1 \in 1..BatchSize
    BY DEF Double!Single, Double!Size, Double!Array, DoubleTypes
  <1> USE DEF Double!P, Double!C, Double!Stay, Double!Goto
  <1>2. CASE UNCHANGED doubleVars \/ Double!Rests
    BY <1>2 DEF doubleVars, Double!Rests, Double!vars, OneEach, DoubleRests, Producing, Consuming,
                FilledBuf, Drained
  <1>3. CASE Double!TakeFree
    <2>1. /\ at2["producer"] = "fill" /\ n2["producer"] < 1 /\ freeRing # <<>>
          /\ freeRing' = Tail(freeRing) /\ UNCHANGED <<usedRing, at2, k2>>
          /\ n2' = [n2 EXCEPT !["producer"] = @ + 1]
          /\ batch' = [batch EXCEPT !["producer"] = [@ EXCEPT ![n2["producer"] + 1] = Head(freeRing)]]
      BY <1>1, <1>3 DEF Double!TakeFree, Double!Put
    <2>2. n2["producer"] = 0 /\ k2["producer"] = 0
      BY <2>1 DEF OneEach
    <2>3. /\ n2'["producer"] = 1 /\ n2'["consumer"] = n2["consumer"]
          /\ batch'["producer"][1] = Head(freeRing) /\ batch'["consumer"] = batch["consumer"]
      BY <1>1, <2>1, <2>2 DEF DoubleTypes
    <2>4. OneEach'
      BY <2>1, <2>2, <2>3 DEF OneEach
    <2>5. DoubleTakes
      BY <2>1, <2>2, <2>3 DEF DoubleTakes, Producing, Consuming, FilledBuf, Drained
    <2> QED BY <2>4, <2>5
  <1>4. CASE Double!Popped
    <2>1. /\ at2["consumer"] = "pop" /\ n2["consumer"] < 1 /\ usedRing # <<>>
          /\ usedRing' = Tail(usedRing) /\ UNCHANGED <<freeRing, at2, k2>>
          /\ n2' = [n2 EXCEPT !["consumer"] = @ + 1]
          /\ batch' = [batch EXCEPT !["consumer"] = [@ EXCEPT ![n2["consumer"] + 1] = Head(usedRing)]]
      BY <1>1, <1>4 DEF Double!Popped, Double!Put
    <2>2. n2["consumer"] = 0 /\ k2["consumer"] = 0
      BY <2>1 DEF OneEach
    <2>3. /\ n2'["consumer"] = 1 /\ n2'["producer"] = n2["producer"]
          /\ batch'["consumer"][1] = Head(usedRing) /\ batch'["producer"] = batch["producer"]
      BY <1>1, <2>1, <2>2 DEF DoubleTypes
    <2>4. OneEach'
      BY <2>1, <2>2, <2>3 DEF OneEach
    <2>5. DoublePops
      BY <2>1, <2>2, <2>3 DEF DoublePops, Producing, Consuming, FilledBuf, Drained
    <2> QED BY <2>4, <2>5
  <1>5. CASE Double!PushOne("producer")
    <2>1. /\ at2["producer"] = "push" /\ k2["producer"] < n2["producer"]
          /\ usedRing' = Append(usedRing, batch["producer"][k2["producer"] + 1])
          /\ k2' = [k2 EXCEPT !["producer"] = @ + 1] /\ UNCHANGED <<freeRing, batch, at2, n2>>
      BY <1>1, <1>5 DEF Double!PushOne, Double!Target
    <2>2. n2["producer"] = 1 /\ k2["producer"] = 0
      BY <2>1 DEF OneEach
    <2>3. k2'["producer"] = 1 /\ k2'["consumer"] = k2["consumer"]
          /\ usedRing' = Append(usedRing, batch["producer"][1])
      BY <2>1, <2>2 DEF DoubleTypes
    <2>4. OneEach'
      BY <2>1, <2>2, <2>3 DEF OneEach
    <2>5. DoubleGives
      BY <2>1, <2>2, <2>3 DEF DoubleGives, Producing, Consuming, FilledBuf, Drained
    <2> QED BY <2>4, <2>5
  <1>6. CASE Double!PushOne("consumer")
    <2>1. /\ at2["consumer"] = "push" /\ k2["consumer"] < n2["consumer"]
          /\ freeRing' = Append(freeRing, batch["consumer"][k2["consumer"] + 1])
          /\ k2' = [k2 EXCEPT !["consumer"] = @ + 1] /\ UNCHANGED <<usedRing, batch, at2, n2>>
      BY <1>1, <1>6 DEF Double!PushOne, Double!Target
    <2>2. n2["consumer"] = 1 /\ k2["consumer"] = 0
      BY <2>1 DEF OneEach
    <2>3. k2'["consumer"] = 1 /\ k2'["producer"] = k2["producer"]
          /\ freeRing' = Append(freeRing, batch["consumer"][1])
      BY <2>1, <2>2 DEF DoubleTypes
    <2>4. OneEach'
      BY <2>1, <2>2, <2>3 DEF OneEach
    <2>5. DoubleReturns
      BY <2>1, <2>2, <2>3 DEF DoubleReturns, Producing, Consuming, FilledBuf, Drained
    <2> QED BY <2>4, <2>5
  <1>7. CASE \E t \in {"producer", "consumer"} :
               (\E to \in {"fill", "pop"} : Double!Enter(t, to)) \/ Double!PushAgain(t) \/ Double!Pushed(t)
    <2> PICK t \in {"producer", "consumer"} :
               (\E to \in {"fill", "pop"} : Double!Enter(t, to)) \/ Double!PushAgain(t) \/ Double!Pushed(t)
      BY <1>7
    <2>1. UNCHANGED <<freeRing, usedRing, batch>>
      BY DEF Double!Enter, Double!PushAgain, Double!Pushed
    <2>2. /\ at2' = [at2 EXCEPT ![t] = at2'[t]] /\ at2'[t] \in {"loop", "left", "fill", "pop"}
          /\ n2' = [n2 EXCEPT ![t] = 0] /\ k2' = [k2 EXCEPT ![t] = 0]
          /\ n2[t] = 0 \/ k2[t] = 1
      <3>1. CASE \E to \in {"fill", "pop"} : Double!Enter(t, to)
        BY <3>1 DEF Double!Enter, OneEach, DoubleTypes
      <3>2. CASE Double!Pushed(t)
        BY <3>2 DEF Double!Pushed, OneEach, DoubleTypes
      <3>3. ~Double!PushAgain(t)
        BY DEF Double!PushAgain, OneEach
      <3> QED BY <3>1, <3>2, <3>3
    <2>3. OneEach'
      BY <2>2 DEF OneEach, DoubleTypes
    <2>4. DoubleRests
      <3>1. ASSUME NEW x \in {"producer", "consumer"}
            PROVE  (n2'[x] = 1 /\ k2'[x] = 0) <=> (n2[x] = 1 /\ k2[x] = 0)
        <4>1. x # t => n2'[x] = n2[x] /\ k2'[x] = k2[x]
          BY <2>2 DEF DoubleTypes
        <4>2. n2'[t] = 0 /\ (n2[t] = 0 \/ k2[t] = 1)
          BY <2>2 DEF DoubleTypes
        <4> QED BY <4>1, <4>2
      <3>2. (Producing' <=> Producing) /\ (Consuming' <=> Consuming)
        BY <3>1 DEF Producing, Consuming
      <3> QED BY <2>1, <3>2 DEF DoubleRests, FilledBuf, Drained
    <2> QED BY <2>3, <2>4
  <1>8. CASE Double!Filled \/ Double!Processed \/ Double!Stop
    <2>1. UNCHANGED <<freeRing, usedRing, batch, n2, k2>>
      BY <1>8 DEF Double!Filled, Double!Processed, Double!Stop
    <2>2. OneEach'
      BY <1>1, <1>8 DEF Double!Filled, Double!Processed, Double!Stop, OneEach, DoubleTypes
    <2> QED BY <2>1, <2>2 DEF DoubleRests, Producing, Consuming, FilledBuf, Drained
  <1> QED BY <1>1, <1>2, <1>3, <1>4, <1>5, <1>6, <1>7, <1>8
          DEF Double!Next, Double!ProducerStep, Double!ConsumerStep, Double!Bump

LEMMA DoublePlacesStep ==
  ASSUME DoublePlaces, DoubleRests \/ DoubleTakes \/ DoubleGives \/ DoublePops \/ DoubleReturns
  PROVE  DoublePlaces'
  <1>1. PICK N : N = 1..Double!Room
    OBVIOUS
  <1>2. PICK s \in Seq(N) : s = freeRing
    BY <1>1 DEF DoublePlaces
  <1>3. PICK z \in Seq(N) : z = usedRing
    BY <1>1 DEF DoublePlaces
  <1>4. /\ NoRepeat(s) /\ NoRepeat(z) /\ \A b \in N : ~(In(s, b) /\ In(z, b))
        /\ Producing => FilledBuf \in N /\ ~In(s, FilledBuf) /\ ~In(z, FilledBuf)
        /\ Consuming => Drained \in N /\ ~In(s, Drained) /\ ~In(z, Drained)
        /\ Producing /\ Consuming => FilledBuf # Drained
        /\ \A b \in N : In(s, b) \/ In(z, b) \/ (Producing /\ b = FilledBuf) \/ (Consuming /\ b = Drained)
    BY <1>1, <1>2, <1>3 DEF DoublePlaces, Kept
  <1>5. PICK s2 : s2 = freeRing'
    OBVIOUS
  <1>6. PICK z2 : z2 = usedRing'
    OBVIOUS
  <1>7. SUFFICES
        /\ s2 \in Seq(N) /\ z2 \in Seq(N)
        /\ NoRepeat(s2) /\ NoRepeat(z2) /\ \A b \in N : ~(In(s2, b) /\ In(z2, b))
        /\ Producing' => FilledBuf' \in N /\ ~In(s2, FilledBuf') /\ ~In(z2, FilledBuf')
        /\ Consuming' => Drained' \in N /\ ~In(s2, Drained') /\ ~In(z2, Drained')
        /\ Producing' /\ Consuming' => FilledBuf' # Drained'
        /\ \A b \in N : In(s2, b) \/ In(z2, b) \/ (Producing' /\ b = FilledBuf') \/ (Consuming' /\ b = Drained')
    BY <1>1, <1>5, <1>6 DEF DoublePlaces, Kept, Double!Room
  <1>8. CASE DoubleRests
    BY <1>2, <1>3, <1>4, <1>5, <1>6, <1>8 DEF DoubleRests
  <1>9. CASE DoubleTakes
    <2>1. s # <<>> /\ s2 = Tail(s) /\ z2 = z /\ FilledBuf' = Head(s)
      BY <1>2, <1>3, <1>5, <1>6, <1>9 DEF DoubleTakes
    <2>2. /\ s2 \in Seq(N) /\ NoRepeat(s2) /\ In(s, Head(s)) /\ Head(s) \in N
          /\ \A b : In(s2, b) <=> (In(s, b) /\ b # Head(s))
      BY <1>4, <2>1, InTail
    <2> QED BY <1>4, <1>9, <2>1, <2>2 DEF DoubleTakes
  <1>10. CASE DoublePops
    <2>1. z # <<>> /\ z2 = Tail(z) /\ s2 = s /\ Drained' = Head(z)
      BY <1>2, <1>3, <1>5, <1>6, <1>10 DEF DoublePops
    <2>2. /\ z2 \in Seq(N) /\ NoRepeat(z2) /\ In(z, Head(z)) /\ Head(z) \in N
          /\ \A b : In(z2, b) <=> (In(z, b) /\ b # Head(z))
      BY <1>4, <2>1, InTail
    <2> QED BY <1>4, <1>10, <2>1, <2>2 DEF DoublePops
  <1>11. CASE DoubleGives
    <2>1. z2 = Append(z, FilledBuf) /\ s2 = s /\ FilledBuf \in N /\ ~In(z, FilledBuf)
      BY <1>2, <1>3, <1>4, <1>5, <1>6, <1>11 DEF DoubleGives
    <2>2. PICK w \in N : w = FilledBuf
      BY <2>1
    <2>3. z2 \in Seq(N) /\ NoRepeat(z2) /\ \A b : In(z2, b) <=> (In(z, b) \/ b = w)
      <3>1. z2 = Append(z, w) /\ ~In(z, w) /\ NoRepeat(z)
        BY <1>4, <2>1, <2>2
      <3> QED BY <3>1, InAppend
    <2> QED BY <1>4, <1>11, <2>1, <2>2, <2>3 DEF DoubleGives
  <1>12. CASE DoubleReturns
    <2>1. s2 = Append(s, Drained) /\ z2 = z /\ Drained \in N /\ ~In(s, Drained)
      BY <1>2, <1>3, <1>4, <1>5, <1>6, <1>12 DEF DoubleReturns
    <2>2. PICK w \in N : w = Drained
      BY <2>1
    <2>3. s2 \in Seq(N) /\ NoRepeat(s2) /\ \A b : In(s2, b) <=> (In(s, b) \/ b = w)
      <3>1. s2 = Append(s, w) /\ ~In(s, w) /\ NoRepeat(s)
        BY <1>4, <2>1, <2>2
      <3> QED BY <3>1, InAppend
    <2> QED BY <1>4, <1>12, <2>1, <2>2, <2>3 DEF DoubleReturns
  <1> QED BY <1>8, <1>9, <1>10, <1>11, <1>12

LEMMA DoubleInvariance == Programs => []DoubleInv
  <1>1. DoubleInv /\ [ProgramStep]_allVars => DoubleInv'
    <2> SUFFICES ASSUME DoubleInv, [Double!Next]_doubleVars PROVE DoubleInv'
      BY DoubleAlone
    <2>1. DoubleTypes' /\ BumpBuffers' /\ ringMode' = ringMode
      BY DoubleTypesStep, BumpStep DEF DoubleInv
    <2>2. ASSUME ringMode = "double"
          PROVE  OneEach' /\ DoublePlaces'
      BY <2>2, DoubleMoves, DoublePlacesStep DEF DoubleInv, DoubleBuffers
    <2> QED BY <2>1, <2>2 DEF DoubleInv, DoubleBuffers
  <1> QED BY DoubleInit, <1>1, PTL DEF Programs

(* Each buffer is in one place, and the bump allocator stays in its arena  *)
(* but for one buffer.                                                     *)
LEMMA DoubleOwn == DoubleInv => Double!OneByOneExact
  <1> SUFFICES ASSUME DoubleInv PROVE Double!OneByOneExact
    OBVIOUS
  <1>1. Double!Single => \A j \in DOMAIN usedRing : usedRing[j] <= ArenaCap
    <2> SUFFICES ASSUME usedRing \in Seq(0..ArenaCap), NEW j \in DOMAIN usedRing
                 PROVE  usedRing[j] <= ArenaCap
      BY DEF DoubleInv, BumpBuffers
    <2>1. usedRing[j] \in 0..ArenaCap
      BY ElementOfSeq, LenProperties
    <2> QED BY <2>1
  <1>2. ASSUME ringMode = "double", NEW b \in 1..Double!Room
        PROVE  \E p \in Double!Places(b) : Double!Places(b) = {p}
    <2> DEFINE F == {j \in DOMAIN freeRing : freeRing[j] = b}
               U == {j \in DOMAIN usedRing : usedRing[j] = b}
               H(t) == {j \in k2[t] + 1 .. n2[t] : batch[t][j] = b}
    <2>1. OneEach /\ DoublePlaces
      BY <1>2 DEF DoubleInv, DoubleBuffers
    <2>2. Double!Places(b) = {<<"free", j>> : j \in F} \cup {<<"used", j>> : j \in U}
             \cup {<<"producer", j>> : j \in H("producer")} \cup {<<"consumer", j>> : j \in H("consumer")}
      <3>1. \A t : Double!Array(t) = t
        BY <1>2 DEF Double!Array
      <3> QED BY <3>1 DEF Double!Places, Double!P, Double!C
    <2>3. DOMAIN freeRing = 1..Len(freeRing) /\ DOMAIN usedRing = 1..Len(usedRing)
      BY <2>1, LenProperties DEF DoublePlaces
    <2>4. (F # {} <=> In(freeRing, b)) /\ (U # {} <=> In(usedRing, b))
      BY <2>3 DEF In
    <2>5. (\A j, l \in F : j = l) /\ (\A j, l \in U : j = l)
      BY <2>1, <2>3 DEF DoublePlaces, NoRepeat
    <2>6. ASSUME NEW t \in {"producer", "consumer"}
          PROVE  H(t) = IF n2[t] = 1 /\ k2[t] = 0 /\ batch[t][1] = b THEN {1} ELSE {}
      <3>1. n2[t] \in {0, 1} /\ k2[t] \in {0, 1}
        BY <2>1 DEF OneEach
      <3> QED BY <3>1
    <2>7. /\ H("producer") = IF Producing /\ FilledBuf = b THEN {1} ELSE {}
          /\ H("consumer") = IF Consuming /\ Drained = b THEN {1} ELSE {}
      BY <2>6 DEF Producing, Consuming, FilledBuf, Drained
    <2> HIDE DEF F, U, H
    <2>8. CASE In(freeRing, b)
      <3>1. PICK j : F = {j}
        BY <2>4, <2>5, <2>8
      <3>2. U = {} /\ H("producer") = {} /\ H("consumer") = {}
        BY <2>1, <2>4, <2>7, <2>8 DEF DoublePlaces
      <3>3. Double!Places(b) = {<<"free", j>>}
        BY <2>2, <3>1, <3>2
      <3> QED BY <3>3
    <2>9. CASE In(usedRing, b)
      <3>1. PICK j : U = {j}
        BY <2>4, <2>5, <2>9
      <3>2. F = {} /\ H("producer") = {} /\ H("consumer") = {}
        BY <2>1, <2>4, <2>7, <2>9 DEF DoublePlaces
      <3>3. Double!Places(b) = {<<"used", j>>}
        BY <2>2, <3>1, <3>2
      <3> QED BY <3>3
    <2>10. CASE Producing /\ b = FilledBuf
      <3>1. F = {} /\ U = {} /\ H("producer") = {1} /\ H("consumer") = {}
        BY <2>1, <2>4, <2>7, <2>10 DEF DoublePlaces
      <3>2. Double!Places(b) = {<<"producer", 1>>}
        BY <2>2, <3>1
      <3> QED BY <3>2
    <2>11. CASE Consuming /\ b = Drained
      <3>1. F = {} /\ U = {} /\ H("producer") = {} /\ H("consumer") = {1}
        BY <2>1, <2>4, <2>7, <2>11 DEF DoublePlaces
      <3>2. Double!Places(b) = {<<"consumer", 1>>}
        BY <2>2, <3>1
      <3> QED BY <3>2
    <2> QED BY <2>1, <2>8, <2>9, <2>10, <2>11 DEF DoublePlaces, Kept
  <1> QED BY <1>1, <1>2 DEF Double!OneByOneExact, Double!BuffersExact

(* The stack's list holds the nodes in use that no thread owns; a message  *)
(* of the latency server is in one place and no block is lost unless alloc *)
(* and free have overlapped; a buffer of the double ring is in one place   *)
(* unless batches are used: for any number of threads, nodes, blocks and   *)
(* places in the rings.                                                    *)
THEOREM OneOwnerAtATime == Programs => []OneOwnerEach
  <1>1. StackList => Stack!ListIsExact
    <2> SUFFICES ASSUME StackNodes PROVE Listed = live \ Stack!Owned
      BY FollowIsChain DEF StackList, Stack!ListIsExact
    <2> QED BY DEF StackNodes, Stack!Owned, Pushing
  <1>2. StackList /\ ServerInv /\ DoubleInv => OneOwnerEach
    BY <1>1, ServerOwn, DoubleOwn DEF OneOwnerEach
  <1> QED BY <1>2, StackListInvariance, ServerInvariance, DoubleInvariance, PTL

----------------------------------------------------------------------------
(* ring_demos: the rings count modulo their capacity, the mutex queue does *)
(* not count.                                                              *)

Received == Len(gotten) - (IF cons = "store" THEN 1 ELSE 0)
DemoTypes ==
  /\ demo \in {"market", "mutex", "language"}
  /\ prod \in {"check", "write", "store", "joined"}
  /\ cons \in {"loop", "read", "store", "joined"}
  /\ sentCount \in Nat /\ sentCount <= Messages
  /\ prod \in {"write", "store"} => sentCount < Messages
  /\ slots = [x \in 0..RingCapacity - 1 |-> slots[x]]
DemoOrder ==
  /\ gotten \in Seq(Nat) /\ \A j \in 1..Len(gotten) : gotten[j] = j
  /\ cons = "joined" /\ demo # "language" => Len(gotten) = Messages
(* The two indices are the numbers of messages that went past them, and    *)
(* the slots between them hold the messages in between.                    *)
RingCounts ==
  demo # "mutex" =>
    /\ Received \in Nat /\ Received <= sentCount
    /\ sentCount < Received + RingCapacity
    /\ prod \in {"write", "store"} => sentCount + 1 < Received + RingCapacity
    /\ cons \in {"read", "store"} => Received < sentCount
RingIndices ==
  demo # "mutex" =>
    /\ wr = sentCount % RingCapacity /\ rd = Received % RingCapacity
    /\ \A x \in Received .. sentCount - 1 : slots[x % RingCapacity] = x + 1
    /\ prod = "store" => slots[wr] = sentCount + 1
MutexCounts ==
  demo = "mutex" =>
    /\ prod \in {"check", "joined"} /\ cons \in {"loop", "joined"}
    /\ msgs \in Seq(Nat) /\ sentCount = Len(gotten) + Len(msgs)
    /\ \A j \in 1..Len(msgs) : msgs[j] = Len(gotten) + j
DemoInv == DemoTypes /\ DemoOrder /\ RingCounts /\ RingIndices /\ MutexCounts

LEMMA DemoAlone ==
  ASSUME [ProgramStep]_allVars
  PROVE  [RingDemo!Next]_demoVars
  BY DEF ProgramStep, allVars, rings, LockRuns, QueueRuns, LoggerRuns, PoolRuns, WaitFreeRuns,
         CapstoneRuns, RingDemoRuns, DoubleRuns, StackRuns, ServerRuns, ClientsRun, ForkRuns,
         PingRuns

LEMMA DemoNumbers ==
  RingCapacity \in Nat /\ RingCapacity >= 2 /\ RingCapacity >= 1 /\ Messages \in Nat
  BY RingsAssumption

(* The slot after the one of x, and the slot of x a lap later.             *)
LEMMA DemoSlots ==
  ASSUME NEW x \in Nat
  PROVE  /\ RingDemo!After(x % RingCapacity) = (x + 1) % RingCapacity
         /\ (x + RingCapacity) % RingCapacity = x % RingCapacity
         /\ x % RingCapacity \in 0..RingCapacity - 1
  BY DemoNumbers, LapAdd DEF RingDemo!After

LEMMA DemoInit == Start => DemoInv
  <1> SUFFICES ASSUME RingDemo!Init PROVE DemoInv
    BY DEF Start
  <1>1. /\ demo \in {"market", "mutex", "language"} /\ prod = "check" /\ cons = "loop"
        /\ sentCount = 0 /\ gotten = <<>> /\ msgs = <<>> /\ wr = 0 /\ rd = 0
        /\ slots = [x \in 0..RingCapacity - 1 |-> 0]
    BY DEF RingDemo!Init
  <1>2. 0 % RingCapacity = 0
    <2>1. RingCapacity * 0 + 0 = 0
      BY DemoNumbers
    <2> QED BY <2>1, DemoNumbers, LapUnique
  <1>3. Received = 0 /\ Len(gotten) = 0 /\ Len(msgs) = 0
    BY <1>1 DEF Received
  <1>4. DemoTypes
    BY <1>1, DemoNumbers DEF DemoTypes
  <1>5. DemoOrder /\ MutexCounts
    BY <1>1, <1>3 DEF DemoOrder, MutexCounts
  <1>6. RingCounts /\ RingIndices
    BY <1>1, <1>2, <1>3, DemoNumbers DEF RingCounts, RingIndices
  <1> QED BY <1>4, <1>5, <1>6 DEF DemoInv

(* Steps that move neither an index nor a message. *)
LEMMA DemoQuiet ==
  ASSUME DemoInv, \/ RingDemo!PubCheck \/ RingDemo!PubDone \/ RingDemo!SubLeaves
                  \/ RingDemo!SubCheck \/ RingDemo!StopThreads
  PROVE  DemoInv'
  <1>v. DemoTypes /\ DemoOrder /\ RingCounts /\ RingIndices /\ MutexCounts
    BY DEF DemoInv
  <1>0. UNCHANGED <<demo, slots, wr, rd, msgs, sentCount, gotten>>
    BY DEF RingDemo!PubCheck, RingDemo!PubDone, RingDemo!SubLeaves, RingDemo!SubCheck,
           RingDemo!StopThreads, RingDemo!consumerSide, RingDemo!producerSide, RingDemo!flags
  <1>1. /\ (cons' = "store" <=> cons = "store") /\ (prod' = "store" <=> prod = "store")
        /\ cons' \in {"loop", "read", "store", "joined"} /\ prod' \in {"check", "write", "store", "joined"}
        /\ prod' # prod => RingDemo!PubCheck \/ RingDemo!PubDone
        /\ cons' # cons => RingDemo!SubLeaves \/ RingDemo!SubCheck
    BY <1>v DEF DemoTypes, RingDemo!PubCheck, RingDemo!PubDone, RingDemo!SubLeaves, RingDemo!SubCheck,
           RingDemo!StopThreads, RingDemo!consumerSide, RingDemo!producerSide, RingDemo!flags
  <1>2. Received' = Received
    BY <1>0, <1>1 DEF Received
  <1>3. prod' = "write" => prod = "write" \/ (RingDemo!PubCheck /\ RingDemo!After(wr) # rd)
    BY <1>1 DEF RingDemo!PubCheck, RingDemo!PubDone
  <1>4. DemoTypes'
    BY <1>v, <1>0, <1>1, <1>3 DEF DemoTypes, RingDemo!PubCheck
  <1>5. RingIndices'
    BY <1>v, <1>0, <1>1, <1>2 DEF RingIndices
  <1>6. RingCounts'
    <2> SUFFICES ASSUME demo # "mutex" PROVE RingCounts'
      BY <1>0 DEF RingCounts
    <2>1. PICK r \in Nat : r = Received
      BY <1>v DEF RingCounts
    <2>2. /\ r <= sentCount /\ sentCount < r + RingCapacity /\ sentCount \in Nat
          /\ wr = sentCount % RingCapacity /\ rd = r % RingCapacity
          /\ prod \in {"write", "store"} => sentCount + 1 < r + RingCapacity
          /\ cons \in {"read", "store"} => r < sentCount
      BY <1>v, <2>1 DEF RingCounts, RingIndices, DemoTypes
    <2>3. RingDemo!After(wr) # rd => sentCount + 1 < r + RingCapacity
      <3>1. ASSUME sentCount + 1 = r + RingCapacity
            PROVE  RingDemo!After(wr) = rd
        <4>1. RingDemo!After(sentCount % RingCapacity) = (sentCount + 1) % RingCapacity
          BY <2>2, DemoSlots
        <4>2. (r + RingCapacity) % RingCapacity = r % RingCapacity
          BY DemoSlots
        <4> QED BY <2>2, <3>1, <4>1, <4>2
      <3> QED BY <2>2, <3>1, DemoNumbers
    <2>4. cons' = "read" => cons = "read" \/ rd # wr
      BY <1>1 DEF RingDemo!SubCheck, RingDemo!SubLeaves
    <2>5. rd # wr => r < sentCount
      BY <2>2
    <2>6. prod' = "store" => prod = "store"
      BY <1>1
    <2> QED BY <1>0, <1>1, <1>2, <1>3, <2>1, <2>2, <2>3, <2>4, <2>5, <2>6 DEF RingCounts
  <1>7. MutexCounts'
    <2>1. demo = "mutex" => prod' \in {"check", "joined"} /\ cons' \in {"loop", "joined"}
      BY <1>v, <1>1 DEF MutexCounts, RingDemo!PubCheck, RingDemo!PubDone, RingDemo!SubLeaves,
         RingDemo!SubCheck, RingDemo!Ring
    <2> QED BY <1>v, <1>0, <2>1 DEF MutexCounts
  <1>8. DemoOrder'
    <2>1. cons' = "joined" /\ demo # "language" => Len(gotten) >= Messages \/ cons = "joined"
      BY <1>1 DEF RingDemo!SubLeaves, RingDemo!Leaves, RingDemo!SubCheck
    <2>2. Len(gotten) \in Nat /\ Len(gotten) <= sentCount /\ sentCount \in Nat /\ sentCount <= Messages
      <3>1. CASE demo = "mutex"
        BY <1>v, <3>1 DEF DemoTypes, DemoOrder, MutexCounts
      <3>2. CASE demo # "mutex"
        BY <1>v, <3>2 DEF DemoTypes, DemoOrder, RingCounts, Received
      <3> QED BY <3>1, <3>2
    <2>3. cons' = "joined" /\ demo # "language" => Len(gotten) = Messages
      BY <1>v, <2>1, <2>2, DemoNumbers DEF DemoOrder
    <2> QED BY <1>v, <1>0, <2>3 DEF DemoOrder
  <1> QED BY <1>4, <1>5, <1>6, <1>7, <1>8 DEF DemoInv

(* Two numbers less than a lap apart have different slots. *)
LEMMA DemoApart ==
  ASSUME NEW x \in Nat, NEW y \in Nat, x < y, y < x + RingCapacity
  PROVE  x % RingCapacity # y % RingCapacity
  <1>1. ASSUME x % RingCapacity = y % RingCapacity PROVE FALSE
    <2>0. x <= y /\ RingCapacity \in Nat /\ RingCapacity >= 1
      BY DemoNumbers
    <2>1. x = y
      BY <1>1, <2>0, LapDistinct
    <2> QED BY <2>1
  <1> QED BY <1>1

(* The producer writes a free slot, and then moves its index past it. *)
LEMMA DemoWrite ==
  ASSUME DemoInv, RingDemo!PubWrite
  PROVE  DemoInv'
  <1>v. DemoTypes /\ DemoOrder /\ RingCounts /\ RingIndices /\ MutexCounts
    BY DEF DemoInv
  <1>0. /\ prod = "write" /\ prod' = "store" /\ slots' = [slots EXCEPT ![wr] = sentCount + 1]
        /\ UNCHANGED <<demo, wr, rd, msgs, sentCount, gotten, cons>>
    BY DEF RingDemo!PubWrite, RingDemo!consumerSide
  <1>1. demo # "mutex" /\ Received' = Received
    BY <1>v, <1>0 DEF MutexCounts, Received
  <1>2. PICK r \in Nat : r = Received
    BY <1>v, <1>1 DEF RingCounts
  <1>3. sentCount \in Nat /\ sentCount < r + RingCapacity
    BY <1>v, <1>1, <1>2 DEF RingCounts, DemoTypes
  <1>4. /\ wr = sentCount % RingCapacity /\ rd = r % RingCapacity
        /\ \A x \in r .. sentCount - 1 : slots[x % RingCapacity] = x + 1
        /\ wr \in 0..RingCapacity - 1
    BY <1>v, <1>1, <1>2, <1>3, DemoSlots DEF RingIndices
  <1>5. DemoTypes' /\ DemoOrder' /\ RingCounts' /\ MutexCounts'
    BY <1>v, <1>0, <1>1 DEF DemoTypes, DemoOrder, RingCounts, MutexCounts
  <1>6. slots'[wr] = sentCount + 1
    BY <1>v, <1>0, <1>4 DEF DemoTypes
  <1>7. ASSUME NEW x \in r .. sentCount - 1
        PROVE  slots'[x % RingCapacity] = x + 1
    <2>1. x \in Nat /\ x < sentCount /\ sentCount < x + RingCapacity
      BY <1>2, <1>3, DemoNumbers
    <2>2. x % RingCapacity # wr /\ x % RingCapacity \in 0..RingCapacity - 1
      BY <1>3, <1>4, <2>1, DemoApart, DemoSlots
    <2> QED BY <1>v, <1>0, <1>4, <2>2 DEF DemoTypes
  <1>8. RingIndices'
    BY <1>0, <1>1, <1>2, <1>4, <1>6, <1>7 DEF RingIndices
  <1> QED BY <1>5, <1>8 DEF DemoInv

LEMMA DemoStore ==
  ASSUME DemoInv, RingDemo!PubStore
  PROVE  DemoInv'
  <1>v. DemoTypes /\ DemoOrder /\ RingCounts /\ RingIndices /\ MutexCounts
    BY DEF DemoInv
  <1>0. /\ prod = "store" /\ prod' = "check" /\ sentCount' = sentCount + 1
        /\ wr' = RingDemo!After(wr)
        /\ UNCHANGED <<demo, slots, rd, msgs, gotten, cons>>
    BY DEF RingDemo!PubStore, RingDemo!consumerSide
  <1>1. demo # "mutex" /\ Received' = Received
    BY <1>v, <1>0 DEF MutexCounts, Received
  <1>2. PICK r \in Nat : r = Received
    BY <1>v, <1>1 DEF RingCounts
  <1>3. sentCount \in Nat /\ r <= sentCount
    BY <1>v, <1>1, <1>2 DEF RingCounts, DemoTypes
  <1>4. /\ wr = sentCount % RingCapacity /\ rd = r % RingCapacity
        /\ \A x \in r .. sentCount - 1 : slots[x % RingCapacity] = x + 1
        /\ slots[wr] = sentCount + 1
    BY <1>v, <1>0, <1>1, <1>2 DEF RingIndices
  <1>5. DemoTypes' /\ DemoOrder' /\ RingCounts' /\ MutexCounts'
    BY <1>v, <1>0, <1>1, DemoNumbers DEF DemoTypes, DemoOrder, RingCounts, MutexCounts
  <1>6. ASSUME NEW x \in r .. (sentCount + 1) - 1
        PROVE  slots[x % RingCapacity] = x + 1
    <2>1. x = sentCount \/ x \in r .. sentCount - 1
      BY <1>3
    <2> QED BY <1>4, <2>1
  <1>7. wr' = (sentCount + 1) % RingCapacity
    BY <1>0, <1>3, <1>4, DemoSlots
  <1>8. RingIndices'
    BY <1>0, <1>1, <1>2, <1>4, <1>6, <1>7 DEF RingIndices
  <1> QED BY <1>5, <1>8 DEF DemoInv

(* The consumer takes the oldest message, and then moves its index. *)
LEMMA DemoRead ==
  ASSUME DemoInv, RingDemo!SubRead
  PROVE  DemoInv'
  <1>v. DemoTypes /\ DemoOrder /\ RingCounts /\ RingIndices /\ MutexCounts
    BY DEF DemoInv
  <1>0. /\ cons = "read" /\ cons' = "store" /\ gotten' = Append(gotten, slots[rd])
        /\ UNCHANGED <<demo, slots, wr, rd, msgs, sentCount, prod>>
    BY DEF RingDemo!SubRead, RingDemo!producerSide
  <1>1. demo # "mutex"
    BY <1>v, <1>0 DEF MutexCounts
  <1>2. PICK s \in Seq(Nat) : s = gotten
    BY <1>v DEF DemoOrder
  <1>3. PICK n \in Nat : n = Len(s)
    OBVIOUS
  <1>4. Received = n /\ n < sentCount /\ sentCount \in Nat
    BY <1>v, <1>0, <1>1, <1>2, <1>3 DEF Received, RingCounts, DemoTypes
  <1>5. slots[rd] = n + 1
    <2>1. n \in n .. sentCount - 1
      BY <1>4
    <2> QED BY <1>v, <1>1, <1>4, <2>1 DEF RingIndices
  <1>6. PICK z : z = gotten'
    OBVIOUS
  <1>7. z \in Seq(Nat) /\ Len(z) = n + 1 /\ z[n + 1] = n + 1 /\ \A j \in 1..n : z[j] = s[j]
    BY <1>0, <1>2, <1>3, <1>5, <1>6
  <1>8. Received' = n
    BY <1>0, <1>6, <1>7 DEF Received
  <1>9. DemoOrder'
    <2>1. ASSUME NEW j \in 1..n + 1
          PROVE  z[j] = j
      <3>1. CASE j = n + 1
        BY <1>7, <3>1
      <3>2. CASE j \in 1..n
        BY <1>v, <1>2, <1>3, <1>7, <3>2 DEF DemoOrder
      <3> QED BY <3>1, <3>2
    <2> QED BY <1>0, <1>6, <1>7, <2>1 DEF DemoOrder
  <1>10. DemoTypes' /\ RingCounts' /\ MutexCounts'
    BY <1>v, <1>0, <1>1, <1>4, <1>8 DEF DemoTypes, RingCounts, MutexCounts
  <1>11. RingIndices'
    BY <1>v, <1>0, <1>4, <1>8 DEF RingIndices
  <1> QED BY <1>9, <1>10, <1>11 DEF DemoInv

LEMMA DemoTaken ==
  ASSUME DemoInv, RingDemo!SubStore
  PROVE  DemoInv'
  <1>v. DemoTypes /\ DemoOrder /\ RingCounts /\ RingIndices /\ MutexCounts
    BY DEF DemoInv
  <1>0. /\ cons = "store" /\ cons' = "loop" /\ rd' = RingDemo!After(rd)
        /\ UNCHANGED <<demo, slots, wr, msgs, sentCount, gotten, prod>>
    BY DEF RingDemo!SubStore, RingDemo!producerSide
  <1>1. demo # "mutex"
    BY <1>v, <1>0 DEF MutexCounts
  <1>2. PICK r \in Nat : r = Received
    BY <1>v, <1>1 DEF RingCounts
  <1>3. Received' = r + 1
    BY <1>v, <1>0, <1>2 DEF Received, DemoOrder
  <1>4. /\ sentCount \in Nat /\ r < sentCount /\ sentCount < r + RingCapacity
        /\ prod \in {"write", "store"} => sentCount + 1 < r + RingCapacity
    BY <1>v, <1>0, <1>1, <1>2 DEF RingCounts, DemoTypes
  <1>5. rd' = (r + 1) % RingCapacity
    <2>1. rd = r % RingCapacity
      BY <1>v, <1>1, <1>2 DEF RingIndices
    <2> QED BY <1>0, <2>1, DemoSlots
  <1>6. DemoTypes' /\ DemoOrder' /\ MutexCounts'
    BY <1>v, <1>0, <1>1 DEF DemoTypes, DemoOrder, MutexCounts
  <1>7. RingCounts'
    BY <1>0, <1>3, <1>4, DemoNumbers DEF RingCounts
  <1>8. RingIndices'
    <2>1. \A x \in r + 1 .. sentCount - 1 : x \in r .. sentCount - 1
      BY <1>4
    <2> QED BY <1>v, <1>0, <1>1, <1>2, <1>3, <1>5, <2>1 DEF RingIndices
  <1> QED BY <1>6, <1>7, <1>8 DEF DemoInv

(* The mutex queue: at the back, and from the front. *)
LEMMA DemoLocked ==
  ASSUME DemoInv, RingDemo!PubLocked \/ RingDemo!SubLocked
  PROVE  DemoInv'
  <1>v. DemoTypes /\ DemoOrder /\ RingCounts /\ RingIndices /\ MutexCounts
    BY DEF DemoInv
  <1>0. demo = "mutex" /\ UNCHANGED <<demo, slots, prod, cons>>
    BY DEF RingDemo!PubLocked, RingDemo!SubLocked, RingDemo!consumerSide, RingDemo!producerSide
  <1>1. RingCounts' /\ RingIndices'
    BY <1>0 DEF RingCounts, RingIndices
  <1>2. PICK s \in Seq(Nat) : s = gotten
    BY <1>v DEF DemoOrder
  <1>3. PICK u \in Seq(Nat) : u = msgs
    BY <1>v, <1>0 DEF MutexCounts
  <1>4. PICK n \in Nat, c \in Nat : n = Len(s) /\ c = Len(u)
    OBVIOUS
  <1>5. /\ sentCount = n + c /\ sentCount <= Messages
        /\ \A j \in 1..n : s[j] = j
        /\ \A j \in 1..c : u[j] = n + j
        /\ prod \in {"check", "joined"} /\ cons \in {"loop", "joined"}
    BY <1>v, <1>0, <1>2, <1>3, <1>4 DEF DemoTypes, DemoOrder, MutexCounts
  <1>6. PICK y, z : y = gotten' /\ z = msgs'
    OBVIOUS
  <1>7. CASE RingDemo!PubLocked
    <2>1. sentCount < Messages /\ sentCount' = sentCount + 1 /\ z = Append(u, sentCount + 1)
          /\ gotten' = gotten
      BY <1>3, <1>6, <1>7 DEF RingDemo!PubLocked, RingDemo!consumerSide
    <2>2. z \in Seq(Nat) /\ Len(z) = c + 1 /\ z[c + 1] = n + c + 1 /\ \A j \in 1..c : z[j] = u[j]
      BY <1>4, <1>5, <2>1
    <2>3. ASSUME NEW j \in 1..c + 1
          PROVE  z[j] = n + j
      <3>1. CASE j = c + 1
        BY <2>2, <3>1
      <3>2. CASE j \in 1..c
        BY <1>5, <2>2, <3>2
      <3> QED BY <3>1, <3>2
    <2>4. DemoTypes'
      BY <1>v, <1>0, <1>5, <2>1, DemoNumbers DEF DemoTypes
    <2>5. DemoOrder'
      BY <1>v, <1>0, <2>1 DEF DemoOrder
    <2>6. MutexCounts'
      BY <1>0, <1>2, <1>4, <1>5, <1>6, <2>1, <2>2, <2>3 DEF MutexCounts
    <2> QED BY <1>1, <2>4, <2>5, <2>6 DEF DemoInv
  <1>8. CASE RingDemo!SubLocked
    <2>1. cons = "loop" /\ u # <<>> /\ y = Append(s, Head(u)) /\ z = Tail(u) /\ sentCount' = sentCount
      BY <1>2, <1>3, <1>6, <1>8 DEF RingDemo!SubLocked, RingDemo!producerSide
    <2>2. c >= 1 /\ z \in Seq(Nat) /\ Len(z) = c - 1 /\ Head(u) = n + 1
          /\ \A j \in 1..c - 1 : z[j] = u[j + 1] /\ j + 1 \in 1..c
      <3>1. Len(u) >= 1 /\ z \in Seq(Nat) /\ Len(z) = Len(u) - 1
        BY <2>1, Taken
      <3>2. Head(u) = u[1] /\ 1 \in 1..c
        BY <1>4, <2>1, <3>1
      <3> QED BY <1>4, <1>5, <2>1, <3>1, <3>2
    <2>3. y \in Seq(Nat) /\ Len(y) = n + 1 /\ y[n + 1] = n + 1 /\ \A j \in 1..n : y[j] = s[j]
      BY <1>4, <2>1, <2>2
    <2>4. ASSUME NEW j \in 1..n + 1
          PROVE  y[j] = j
      <3>1. CASE j = n + 1
        BY <2>3, <3>1
      <3>2. CASE j \in 1..n
        BY <1>5, <2>3, <3>2
      <3> QED BY <3>1, <3>2
    <2>5. ASSUME NEW j \in 1..c - 1
          PROVE  z[j] = n + 1 + j
      <3>1. z[j] = u[j + 1] /\ j + 1 \in 1..c
        BY <2>2
      <3>2. u[j + 1] = n + (j + 1)
        BY <1>5, <3>1
      <3> QED BY <3>1, <3>2
    <2>6. DemoTypes'
      BY <1>v, <1>0, <2>1 DEF DemoTypes
    <2>7. DemoOrder'
      BY <1>0, <1>6, <2>1, <2>3, <2>4 DEF DemoOrder
    <2>8. MutexCounts'
      BY <1>0, <1>4, <1>5, <1>6, <2>1, <2>2, <2>3, <2>5 DEF MutexCounts
    <2> QED BY <1>1, <2>6, <2>7, <2>8 DEF DemoInv
  <1> QED BY <1>7, <1>8

LEMMA DemoInvariance == Programs => []DemoInv
  <1>1. DemoInv /\ [ProgramStep]_allVars => DemoInv'
    <2> SUFFICES ASSUME DemoInv, [RingDemo!Next]_demoVars PROVE DemoInv'
      BY DemoAlone
    <2>1. CASE RingDemo!Next
      BY <2>1, DemoQuiet, DemoWrite, DemoStore, DemoRead, DemoTaken, DemoLocked
         DEF RingDemo!Next, RingDemo!Produce, RingDemo!Consume, RingDemo!BothJoined, RingDemo!vars,
             DemoInv, DemoTypes, DemoOrder, RingCounts, RingIndices, MutexCounts, Received
    <2>2. CASE UNCHANGED demoVars
      BY <2>2 DEF demoVars, DemoInv, DemoTypes, DemoOrder, RingCounts, RingIndices, MutexCounts, Received
    <2> QED BY <2>1, <2>2
  <1> QED BY DemoInit, <1>1, PTL DEF Programs

LEMMA DemoReceives == DemoInv => RingDemo!ReceivedInOrder
  <1> SUFFICES ASSUME DemoInv PROVE RingDemo!ReceivedInOrder
    OBVIOUS
  <1>1. \A j \in DOMAIN gotten : gotten[j] = j
    BY LenProperties DEF DemoInv, DemoOrder
  <1>2. ASSUME prod = "write", cons = "read"
        PROVE  wr # rd
    <2>1. demo # "mutex"
      BY <1>2 DEF DemoInv, MutexCounts
    <2>2. PICK r \in Nat : r = Received
      BY <2>1 DEF DemoInv, RingCounts
    <2>3. sentCount \in Nat /\ r < sentCount /\ sentCount < r + RingCapacity
      BY <1>2, <2>1, <2>2 DEF DemoInv, RingCounts, DemoTypes
    <2>4. wr = sentCount % RingCapacity /\ rd = r % RingCapacity
      BY <2>1, <2>2 DEF DemoInv, RingIndices
    <2> QED BY <2>3, <2>4, DemoApart
  <1> QED BY <1>1, <1>2 DEF DemoInv, DemoOrder, RingDemo!ReceivedInOrder

----------------------------------------------------------------------------
(* The logger prints in the order of the calls; the market data and mutex  *)
(* queues and the language ring deliver every message once, in order; the  *)
(* capstone's book moves forward; the servers count what they received in  *)
(* order, unless alloc and free have overlapped; and the stack returns     *)
(* every value once, each pusher's last in first out: for any number of    *)
(* threads, slots and messages.                                            *)
THEOREM OrderSurvives == Programs => []DeliveredInOrder
  <1>1. LoggerOrder => Logger!OutputInOrder
    BY LoggerPrefix
  <1>2. CapstoneInv => Capstone!BookInOrder
    BY DEF CapstoneInv, CapstoneBook, Capstone!BookInOrder
  <1>3. LoggerOrder /\ DemoInv /\ CapstoneInv /\ ServerInv /\ StackList /\ StackValues
          => DeliveredInOrder
    BY <1>1, <1>2, DemoReceives, ServerCounts, PoppedLifo DEF DeliveredInOrder
  <1> QED BY <1>3, LoggerOrderInvariance, DemoInvariance, CapstoneInvariance, ServerInvariance,
             StackListInvariance, StackValuesInvariance, PTL

----------------------------------------------------------------------------
(* The client handlers of v4: the slots of their queue.                   *)

(* Positions that go round at most once. *)
LEMMA Wrap ==
  ASSUME NEW c \in Nat, c >= 1, NEW x \in Nat, x < c + c
  PROVE  (x < c => x % c = x) /\ (x >= c => x % c = x - c)
  <1>1. \A a \in Nat, b \in 0..c - 1 : (c * a + b) % c = b
    BY Z3T(60)
  <1>2. CASE x < c
    <2>1. x \in 0..c - 1 /\ c * 0 + x = x
      BY <1>2
    <2> QED BY <1>1, <1>2, <2>1
  <1>3. CASE x >= c
    <2>1. x - c \in 0..c - 1 /\ c * 1 + (x - c) = x
      BY <1>3
    <2> QED BY <1>1, <1>3, <2>1
  <1> QED BY <1>2, <1>3

LEMMA Slots == QueueSlots \in Nat /\ QueueSlots >= 2 /\ QueueSlots >= 1
  BY HandlersAssumption

(* The slot of the j-th message, and the one that follows a slot. *)
LEMMA SlotAt ==
  ASSUME NEW r \in 0..QueueSlots - 1, NEW j \in 1..QueueSlots
  PROVE  (r + j - 1) % QueueSlots
           = IF r + j <= QueueSlots THEN r + j - 1 ELSE r + j - 1 - QueueSlots
  <1>1. PICK x \in Nat : x = r + j - 1
    BY Slots
  <1>2. x < QueueSlots + QueueSlots
    BY <1>1, Slots
  <1>3. (x < QueueSlots => x % QueueSlots = x) /\ (x >= QueueSlots => x % QueueSlots = x - QueueSlots)
    BY <1>2, Wrap, Slots
  <1> QED BY <1>1, <1>3, Slots
LEMMA SlotAfter ==
  ASSUME NEW r \in 0..QueueSlots - 1
  PROVE  Clients!Following(r) = IF r + 1 = QueueSlots THEN 0 ELSE r + 1
  <1>1. PICK x \in Nat : x = r + 1
    BY Slots
  <1>2. x < QueueSlots + QueueSlots
    BY <1>1, Slots
  <1>3. (x < QueueSlots => x % QueueSlots = x) /\ (x >= QueueSlots => x % QueueSlots = x - QueueSlots)
    BY <1>2, Wrap, Slots
  <1> QED BY <1>1, <1>3, Slots DEF Clients!Following
LEMMA HeldCount ==
  ASSUME NEW r \in 0..QueueSlots - 1, NEW w \in 0..QueueSlots - 1
  PROVE  (w + QueueSlots - r) % QueueSlots = IF w < r THEN w + QueueSlots - r ELSE w - r
  <1>1. PICK x \in Nat : x = w + QueueSlots - r
    BY Slots
  <1>2. x < QueueSlots + QueueSlots
    BY <1>1, Slots
  <1>3. (x < QueueSlots => x % QueueSlots = x) /\ (x >= QueueSlots => x % QueueSlots = x - QueueSlots)
    BY <1>2, Wrap, Slots
  <1> QED BY <1>1, <1>3, Slots

(* The messages are in the slots from ridx on, and widx is the next one.   *)
LEMMA HeldSlots ==
  ASSUME NEW r \in 0..QueueSlots - 1, NEW w \in 0..QueueSlots - 1,
         NEW n, n = (w + QueueSlots - r) % QueueSlots
  PROVE  /\ n \in 0..QueueSlots - 1 /\ (r + (n + 1) - 1) % QueueSlots = w
         /\ \A j \in 1..n : /\ (r + j - 1) % QueueSlots \in 0..QueueSlots - 1
                            /\ (r + j - 1) % QueueSlots # w
  <1>1. n = IF w < r THEN w + QueueSlots - r ELSE w - r
    BY HeldCount
  <1>2. n \in 0..QueueSlots - 1
    BY <1>1, Slots
  <1>3. (r + (n + 1) - 1) % QueueSlots = w
    <2>1. PICK e \in 1..QueueSlots : e = n + 1
      BY <1>2, Slots
    <2>2. (r + e - 1) % QueueSlots = IF r + e <= QueueSlots THEN r + e - 1 ELSE r + e - 1 - QueueSlots
      BY SlotAt
    <2>3. (IF r + e <= QueueSlots THEN r + e - 1 ELSE r + e - 1 - QueueSlots) = w
      BY <1>1, <2>1, Slots
    <2> QED BY <2>1, <2>2, <2>3
  <1>4. ASSUME NEW j \in 1..n
        PROVE  (r + j - 1) % QueueSlots \in 0..QueueSlots - 1 /\ (r + j - 1) % QueueSlots # w
    <2>1. j \in 1..QueueSlots
      BY <1>2, Slots
    <2>2. PICK y : y = IF r + j <= QueueSlots THEN r + j - 1 ELSE r + j - 1 - QueueSlots
      OBVIOUS
    <2>3. y \in 0..QueueSlots - 1 /\ y # w
      BY <1>1, <2>1, <2>2, Slots
    <2> QED BY <2>1, <2>2, <2>3, SlotAt
  <1> QED BY <1>2, <1>3, <1>4

(* A push makes it one message more, ... *)
LEMMA OneMore ==
  ASSUME NEW r \in 0..QueueSlots - 1, NEW w \in 0..QueueSlots - 1, Clients!Following(w) # r,
         NEW n, n = (w + QueueSlots - r) % QueueSlots
  PROVE  /\ Clients!Following(w) \in 0..QueueSlots - 1
         /\ (Clients!Following(w) + QueueSlots - r) % QueueSlots = n + 1
  <1>1. n = IF w < r THEN w + QueueSlots - r ELSE w - r
    BY HeldCount
  <1>2. Clients!Following(w) = IF w + 1 = QueueSlots THEN 0 ELSE w + 1
    BY SlotAfter
  <1>3. PICK z \in 0..QueueSlots - 1 : z = Clients!Following(w)
    BY <1>2, Slots
  <1>4. (z + QueueSlots - r) % QueueSlots = IF z < r THEN z + QueueSlots - r ELSE z - r
    BY HeldCount
  <1>5. (IF z < r THEN z + QueueSlots - r ELSE z - r) = n + 1
    BY <1>1, <1>2, <1>3, Slots
  <1> QED BY <1>3, <1>4, <1>5

(* ... and a pop one message less, from the next slot on. *)
LEMMA OneLess ==
  ASSUME NEW r \in 0..QueueSlots - 1, NEW w \in 0..QueueSlots - 1, r # w,
         NEW n, n = (w + QueueSlots - r) % QueueSlots
  PROVE  /\ n \in Nat /\ n >= 1 /\ (r + 1 - 1) % QueueSlots = r
         /\ Clients!Following(r) \in 0..QueueSlots - 1
         /\ (w + QueueSlots - Clients!Following(r)) % QueueSlots = n - 1
         /\ \A j \in 1..n - 1 :
              (Clients!Following(r) + j - 1) % QueueSlots = (r + (j + 1) - 1) % QueueSlots
  <1>1. n = (IF w < r THEN w + QueueSlots - r ELSE w - r) /\ n \in 1..QueueSlots - 1
    <2>1. n = IF w < r THEN w + QueueSlots - r ELSE w - r
      BY HeldCount
    <2> QED BY <2>1, Slots
  <1>2. Clients!Following(r) = IF r + 1 = QueueSlots THEN 0 ELSE r + 1
    BY SlotAfter
  <1>3. PICK z \in 0..QueueSlots - 1 : z = Clients!Following(r)
    BY <1>2, Slots
  <1>4. (w + QueueSlots - z) % QueueSlots = n - 1
    <2>1. (w + QueueSlots - z) % QueueSlots = IF w < z THEN w + QueueSlots - z ELSE w - z
      BY HeldCount
    <2>2. (IF w < z THEN w + QueueSlots - z ELSE w - z) = n - 1
      BY <1>1, <1>2, <1>3, Slots
    <2> QED BY <2>1, <2>2
  <1>5. (r + 1 - 1) % QueueSlots = r
    <2>1. 1 \in 1..QueueSlots
      BY Slots
    <2>2. (r + 1 - 1) % QueueSlots = IF r + 1 <= QueueSlots THEN r + 1 - 1 ELSE r + 1 - 1 - QueueSlots
      BY <2>1, SlotAt
    <2>3. r + 1 <= QueueSlots /\ r + 1 - 1 = r
      BY Slots
    <2> QED BY <2>2, <2>3
  <1>6. ASSUME NEW j \in 1..n - 1
        PROVE  (z + j - 1) % QueueSlots = (r + (j + 1) - 1) % QueueSlots
    <2>1. PICK e \in 1..QueueSlots : e = j + 1 /\ j \in 1..QueueSlots
      BY <1>1, Slots
    <2>2. /\ (z + j - 1) % QueueSlots
               = IF z + j <= QueueSlots THEN z + j - 1 ELSE z + j - 1 - QueueSlots
          /\ (r + e - 1) % QueueSlots
               = IF r + e <= QueueSlots THEN r + e - 1 ELSE r + e - 1 - QueueSlots
      BY <2>1, SlotAt
    <2>3. (IF z + j <= QueueSlots THEN z + j - 1 ELSE z + j - 1 - QueueSlots)
            = IF r + e <= QueueSlots THEN r + e - 1 ELSE r + e - 1 - QueueSlots
      BY <1>2, <1>3, <2>1, Slots
    <2> QED BY <2>1, <2>2, <2>3
  <1> QED BY <1>1, <1>3, <1>4, <1>5, <1>6, Slots

----------------------------------------------------------------------------
(* The client handlers of v4: the free list.                              *)

(* It has its head, and the next of each of its blocks, ... *)
LEMMA FreeClosed ==
  ASSUME NEW p, NEW m
  PROVE  /\ Clients!FreeFrom(p, m) \subseteq HandlerBlocks /\ (p \in HandlerBlocks => p \in Clients!FreeFrom(p, m))
         /\ \A b \in Clients!FreeFrom(p, m) : m[b] \in HandlerBlocks => m[b] \in Clients!FreeFrom(p, m)
  BY DEF Clients!FreeFrom

(* ... and nothing else. *)
LEMMA FreeLeast ==
  ASSUME NEW p, NEW m, NEW S \in SUBSET HandlerBlocks, p \in HandlerBlocks => p \in S,
         \A b \in S : m[b] \in HandlerBlocks => m[b] \in S
  PROVE  Clients!FreeFrom(p, m) \subseteq S
  BY DEF Clients!FreeFrom

(* It is the head, and the list from the head's link on. *)
LEMMA FreeFirst ==
  ASSUME NEW m, NEW b \in HandlerBlocks
  PROVE  Clients!FreeFrom(b, m) = {b} \cup Clients!FreeFrom(m[b], m)
  <1>1. Clients!FreeFrom(m[b], m) \subseteq Clients!FreeFrom(b, m)
    <2>1. /\ Clients!FreeFrom(b, m) \in SUBSET HandlerBlocks /\ (m[b] \in HandlerBlocks => m[b] \in Clients!FreeFrom(b, m))
          /\ \A x \in Clients!FreeFrom(b, m) : m[x] \in HandlerBlocks => m[x] \in Clients!FreeFrom(b, m)
      BY FreeClosed
    <2> QED BY <2>1, FreeLeast
  <1>2. Clients!FreeFrom(b, m) \subseteq {b} \cup Clients!FreeFrom(m[b], m)
    <2>1. PICK S : S = {b} \cup Clients!FreeFrom(m[b], m)
      OBVIOUS
    <2>2. S \in SUBSET HandlerBlocks /\ b \in S /\ \A x \in S : m[x] \in HandlerBlocks => m[x] \in S
      BY <2>1, FreeClosed
    <2> QED BY <2>1, <2>2, FreeLeast
  <1>3. b \in Clients!FreeFrom(b, m)
    BY FreeClosed
  <1> QED BY <1>1, <1>2, <1>3

(* Writing into a block that is not on it leaves it as it was. *)
LEMMA FreeSame ==
  ASSUME NEW p, NEW m, NEW l, \A b \in Clients!FreeFrom(p, m) : l[b] = m[b]
  PROVE  Clients!FreeFrom(p, l) = Clients!FreeFrom(p, m)
  <1>1. Clients!FreeFrom(p, l) \subseteq Clients!FreeFrom(p, m)
    <2>1. /\ Clients!FreeFrom(p, m) \in SUBSET HandlerBlocks /\ (p \in HandlerBlocks => p \in Clients!FreeFrom(p, m))
          /\ \A b \in Clients!FreeFrom(p, m) : l[b] \in HandlerBlocks => l[b] \in Clients!FreeFrom(p, m)
      BY FreeClosed
    <2> QED BY <2>1, FreeLeast
  <1>2. Clients!FreeFrom(p, m) \subseteq Clients!FreeFrom(p, l)
    <2>1. /\ Clients!FreeFrom(p, l) \in SUBSET HandlerBlocks /\ (p \in HandlerBlocks => p \in Clients!FreeFrom(p, l))
          /\ \A b \in Clients!FreeFrom(p, l) : m[b] \in HandlerBlocks => m[b] \in Clients!FreeFrom(p, l)
      BY <1>1, FreeClosed
    <2> QED BY <2>1, FreeLeast
  <1> QED BY <1>1, <1>2

(* A list from a block of the list on is part of it. *)
LEMMA FreeRest ==
  ASSUME NEW p, NEW m, NEW b \in Clients!FreeFrom(p, m)
  PROVE  Clients!FreeFrom(m[b], m) \subseteq Clients!FreeFrom(p, m)
  <1>1. /\ Clients!FreeFrom(p, m) \in SUBSET HandlerBlocks /\ (m[b] \in HandlerBlocks => m[b] \in Clients!FreeFrom(p, m))
        /\ \A x \in Clients!FreeFrom(p, m) : m[x] \in HandlerBlocks => m[x] \in Clients!FreeFrom(p, m)
    BY FreeClosed
  <1> QED BY <1>1, FreeLeast

(* The list the constructor builds: every block, each linked to one that   *)
(* comes later.                                                            *)
LEMMA FirstFreeAll ==
  /\ Clients!FirstFree[1] \in HandlerBlocks /\ Clients!FreeFrom(Clients!FirstFree[1], Clients!FirstLinks) = HandlerBlocks
  /\ Clients!FirstLinks = [b \in HandlerBlocks |-> Clients!FirstLinks[b]]
  /\ \A b \in HandlerBlocks : /\ Clients!FirstLinks[b] \in HandlerBlocks \cup {Null}
                              /\ b \notin Clients!FreeFrom(Clients!FirstLinks[b], Clients!FirstLinks)
  <1> DEFINE m == Cardinality(HandlerBlocks)
             f == Clients!FirstFree
  <1>1. m \in Nat /\ m >= 1 /\ \E g \in [1..m -> HandlerBlocks] : \A b \in HandlerBlocks : \E x \in 1..m : g[x] = b
    <2>1. m \in Nat /\ m # 0 /\ ExistsBijection(1..m, HandlerBlocks)
      BY HandlersAssumption, FS_CardinalityType, FS_EmptySet
    <2> QED BY <2>1 DEF ExistsBijection, Bijection, Surjection
  <1>2. f \in [1..m -> HandlerBlocks] /\ \A b \in HandlerBlocks : \E x \in 1..m : f[x] = b
    <2>1. f = CHOOSE g \in [1..m -> HandlerBlocks] : \A b \in HandlerBlocks : \E x \in 1..m : g[x] = b
      BY DEF Clients!FirstFree, Clients!Cardinality, Cardinality
    <2> HIDE DEF f, m
    <2> QED BY <1>1, <2>1
  <1>3. \A x, y \in 1..m : f[x] = f[y] => x = y
    <2>1. IsFiniteSet(1..m) /\ Cardinality(1..m) = m /\ f \in Surjection(1..m, HandlerBlocks)
      <3> HIDE DEF f
      <3> QED BY <1>1, <1>2, FS_Interval DEF Surjection
    <2>2. f \in Injection(1..m, HandlerBlocks)
      BY <2>1, HandlersAssumption, FS_Surjection
    <2> HIDE DEF f, m
    <2> QED BY <2>2 DEF Injection, IsInjective
  <1>4. Len(f) = m /\ DOMAIN f = 1..m
    <2> HIDE DEF f, m
    <2>1. f \in Seq(HandlerBlocks) /\ DOMAIN f = 1..m
      BY <1>1, <1>2
    <2>2. Len(f) \in Nat /\ DOMAIN f = 1..Len(f)
      BY <2>1, LenProperties
    <2> QED BY <1>1, <2>1, <2>2
  <1>5. PICK l : l = Clients!FirstLinks
    OBVIOUS
  <1>6. /\ l = [b \in HandlerBlocks |-> l[b]]
        /\ \A x \in 1..m : l[f[x]] = IF x = m THEN Null ELSE f[x + 1]
    <2>1. PICK place : place = [b \in HandlerBlocks |-> CHOOSE j \in DOMAIN f : f[j] = b]
      OBVIOUS
    <2>2. l = [b \in HandlerBlocks |-> IF place[b] = Len(f) THEN Null ELSE f[place[b] + 1]]
      BY <1>5, <2>1 DEF Clients!FirstLinks
    <2> HIDE DEF f, m
    <2>3. \A x \in 1..m : f[x] \in HandlerBlocks /\ place[f[x]] = x
      BY <1>2, <1>3, <1>4, <2>1
    <2> QED BY <1>4, <2>2, <2>3
  <1> HIDE DEF f, m
  <1>7. \A x \in 1..m : (x # m => x + 1 \in 1..m /\ f[x + 1] \in HandlerBlocks) /\ f[x] \in HandlerBlocks
    <2>1. \A x \in 1..m : x # m => x + 1 \in 1..m
      BY <1>1
    <2>2. \A x \in 1..m : f[x] \in HandlerBlocks
      BY <1>2
    <2> QED BY <2>1, <2>2
  <1>8. 1 \in 1..m /\ f[1] \in HandlerBlocks
    BY <1>1, <1>7
  <1>9. Clients!FreeFrom(f[1], l) = HandlerBlocks
    <2>1. PICK S : S = {x \in 1..m : f[x] \in Clients!FreeFrom(f[1], l)}
      OBVIOUS
    <2>2. ASSUME NEW x \in 1..m - 1, x \in S
          PROVE  x + 1 \in S
      <3>1. x \in 1..m /\ x # m /\ x + 1 \in 1..m /\ f[x + 1] \in HandlerBlocks
        BY <1>1, <1>7
      <3>2. l[f[x]] = f[x + 1] /\ f[x] \in Clients!FreeFrom(f[1], l)
        BY <1>6, <2>1, <2>2, <3>1
      <3> QED BY <2>1, <3>1, <3>2, FreeClosed
    <2>3. 1 \in S
      BY <1>8, <2>1, FreeClosed
    <2>4. 1..m \subseteq S
      BY <1>1, <2>2, <2>3, UpTo
    <2>5. Clients!FreeFrom(f[1], l) \subseteq HandlerBlocks
      BY FreeClosed
    <2> QED BY <1>2, <2>1, <2>4, <2>5
  <1>10. ASSUME NEW b \in HandlerBlocks
         PROVE  l[b] \in HandlerBlocks \cup {Null} /\ b \notin Clients!FreeFrom(l[b], l)
    <2>1. PICK x \in 1..m : f[x] = b
      BY <1>2
    <2>2. PICK S : S = {f[y] : y \in x + 1..m}
      OBVIOUS
    <2>3. \A y \in x + 1..m : y \in 1..m /\ y # x /\ (y = m \/ y + 1 \in x + 1..m)
      BY <1>1
    <2>4. b \notin S /\ S \in SUBSET HandlerBlocks
      BY <1>3, <1>7, <2>1, <2>2, <2>3
    <2>5. l[b] \in S \cup {Null} /\ l[b] \in HandlerBlocks \cup {Null}
      <3>1. x # m => x + 1 \in x + 1..m
        BY <1>1
      <3> QED BY <1>6, <1>7, <2>1, <2>2, <3>1
    <2>6. ASSUME NEW c \in S
          PROVE  l[c] \in S \cup {Null}
      <3>1. PICK y \in x + 1..m : c = f[y]
        BY <2>2
      <3> QED BY <1>6, <2>2, <2>3, <3>1
    <2>7. Clients!FreeFrom(l[b], l) \subseteq S
      BY <2>4, <2>5, <2>6, HandlersAssumption, FreeLeast
    <2> QED BY <2>4, <2>5, <2>7
  <1>11. f = Clients!FirstFree
    BY DEF f
  <1>12. l = [b \in HandlerBlocks |-> l[b]]
    BY <1>6
  <1>13. f[1] \in HandlerBlocks
    BY <1>8
  <1> QED BY <1>5, <1>9, <1>10, <1>11, <1>12, <1>13

----------------------------------------------------------------------------
(* The invariant.                                                          *)

(* The program counters, and the domains of the functions. *)
HandlerTypes ==
  /\ raced \in BOOLEAN /\ g_seq \in Nat /\ due \in Seq(Nat)
  /\ hp = [h \in Handlers |-> hp[h]] /\ hblk = [h \in Handlers |-> hblk[h]]
  /\ hnxt = [h \in Handlers |-> hnxt[h]] /\ hw = [h \in Handlers |-> hw[h]]
  /\ hseq \in [Handlers -> Nat]
  /\ pool_mem = [b \in HandlerBlocks |-> pool_mem[b]] /\ ring = [x \in 0..QueueSlots - 1 |-> ring[x]]

Holds(h) == hp[h] \in {"fill", "push", "write", "store"}
Numbered(h) == hp[h] \in {"push", "write", "store"}
ConHolds == con \in {"count", "free", "head"}
ClientCounting == IF con = "count" THEN 1 ELSE 0
InSlot(j) == ring[(ridx + j - 1) % QueueSlots]
Free == Clients!FreeFrom(pool_head, pool_mem)

(* Until two threads meet the one inside push works on the slot that       *)
(* follows the messages in the queue.                                      *)
PushAlone ==
  /\ ~Clients!Meet
  /\ widx \in 0..QueueSlots - 1 /\ ridx \in 0..QueueSlots - 1
  /\ \A h \in Handlers : Clients!InPush(h) => hw[h] = widx /\ Clients!Following(widx) # ridx
  /\ \A h \in Handlers : hp[h] = "store" => ring[widx] = hblk[h]
(* Until then the free list has no cycle, an alloc is at its head, and a   *)
(* free has linked its block to it.                                        *)
ListIntact ==
  /\ pool_head \in HandlerBlocks \cup {Null}
  /\ \A b \in Free : pool_mem[b] \in HandlerBlocks \cup {Null} /\ b \notin Clients!FreeFrom(pool_mem[b], pool_mem)
  /\ \A h \in Handlers : Clients!InAlloc(h) => hblk[h] = pool_head /\ pool_head # Null
  /\ \A h \in Handlers : hp[h] = "unlink" => hnxt[h] = pool_mem[pool_head]
  /\ con = "head" => pool_mem[hmsg] = pool_head
(* Until then every block is free or in one place.                         *)
PlacesApart ==
  /\ \A h \in Handlers : Holds(h) => hblk[h] \in HandlerBlocks \ Free
  /\ \A j \in 1..Clients!Held : InSlot(j) \in HandlerBlocks \ Free
  /\ ConHolds => hmsg \in HandlerBlocks \ Free
  /\ \A g, h \in Handlers : Holds(g) /\ Holds(h) /\ hblk[g] = hblk[h] => g = h
  /\ \A j, l \in 1..Clients!Held : InSlot(j) = InSlot(l) => j = l
  /\ \A h \in Handlers, j \in 1..Clients!Held : Holds(h) => hblk[h] # InSlot(j)
  /\ ConHolds => /\ \A h \in Handlers : Holds(h) => hblk[h] # hmsg
                 /\ \A j \in 1..Clients!Held : InSlot(j) # hmsg
  /\ \A b \in HandlerBlocks \ Free : \/ \E h \in Handlers : Holds(h) /\ hblk[h] = b
                                     \/ \E j \in 1..Clients!Held : InSlot(j) = b
                                     \/ ConHolds /\ hmsg = b
(* Until then what is due is what the blocks in the queue hold.            *)
DueHeld ==
  /\ ~wrong
  /\ \A h \in Handlers : Numbered(h) => pool_mem[hblk[h]] = hseq[h]
  /\ Len(due) = Clients!Held + ClientCounting
  /\ con = "count" => pool_mem[hmsg] = due[1]
  /\ \A j \in 1..Clients!Held : pool_mem[InSlot(j)] = due[j + ClientCounting]
Exact == PushAlone /\ ListIntact /\ PlacesApart /\ DueHeld
HandlersInv == HandlerTypes /\ (~raced => Exact)

LEMMA HandlersInit == Start => HandlersInv
  <1> SUFFICES ASSUME Clients!Init PROVE HandlersInv
    BY DEF Start
  <1>1. /\ hp = [h \in Handlers |-> "none"] /\ hblk = [h \in Handlers |-> Null]
        /\ hnxt = [h \in Handlers |-> Null] /\ hseq = [h \in Handlers |-> 0]
        /\ hw = [h \in Handlers |-> 0] /\ pool_head = Clients!FirstFree[1] /\ pool_mem = Clients!FirstLinks
        /\ ring = [x \in 0..QueueSlots - 1 |-> Null] /\ widx = 0 /\ ridx = 0 /\ g_seq = 0
        /\ con = "loop" /\ raced = FALSE /\ due = <<>> /\ wrong = FALSE
    BY DEF Clients!Init
  <1>2. Free = HandlerBlocks /\ pool_head \in HandlerBlocks /\ pool_mem = [b \in HandlerBlocks |-> pool_mem[b]]
        /\ \A b \in HandlerBlocks : pool_mem[b] \in HandlerBlocks \cup {Null} /\ b \notin Clients!FreeFrom(pool_mem[b], pool_mem)
    BY <1>1, FirstFreeAll DEF Free
  <1>3. HandlerTypes
    <2>0. due \in Seq(Nat)
      BY <1>1
    <2>1. raced \in BOOLEAN /\ g_seq \in Nat /\ hseq \in [Handlers -> Nat]
      BY <1>1
    <2>2. /\ hp = [h \in Handlers |-> hp[h]] /\ hblk = [h \in Handlers |-> hblk[h]]
          /\ hnxt = [h \in Handlers |-> hnxt[h]] /\ hw = [h \in Handlers |-> hw[h]]
          /\ ring = [x \in 0..QueueSlots - 1 |-> ring[x]]
      BY <1>1
    <2> QED BY <1>2, <2>0, <2>1, <2>2 DEF HandlerTypes
  <1>4. 0 \in 0..QueueSlots - 1 /\ Clients!Held = 0
    <2>1. 0 \in 0..QueueSlots - 1
      BY Slots
    <2>2. (0 + QueueSlots - 0) % QueueSlots = IF 0 < 0 THEN 0 + QueueSlots - 0 ELSE 0 - 0
      BY <2>1, HeldCount
    <2> QED BY <1>1, <2>1, <2>2 DEF Clients!Held
  <1>5. PushAlone
    BY <1>1, <1>4 DEF PushAlone, Clients!Meet, Clients!InFree, Clients!InAlloc, Clients!InPush
  <1>6. ListIntact
    BY <1>1, <1>2 DEF ListIntact, Clients!InAlloc
  <1>7. PlacesApart
    BY <1>1, <1>2, <1>4 DEF PlacesApart, Holds, ConHolds
  <1>8. DueHeld
    <2>1. Len(due) = 0 /\ ClientCounting = 0 /\ ~wrong
      BY <1>1 DEF ClientCounting
    <2> QED BY <1>1, <1>4, <2>1 DEF DueHeld, Numbered
  <1> QED BY <1>3, <1>5, <1>6, <1>7, <1>8 DEF HandlersInv, Exact

(* What is due is what the property looks for. *)
LEMMA DueIsWaiting == HandlerTypes /\ Exact => Clients!CountedAsAccepted
  <1> SUFFICES ASSUME HandlerTypes, PushAlone, DueHeld PROVE ~wrong /\ Clients!Waiting = due
    BY DEF Exact, Clients!CountedAsAccepted
  <1>1. PICK s \in Seq(Nat) : s = due
    BY DEF HandlerTypes
  <1>2. PICK n \in Nat : n = Clients!Held
    BY HeldSlots DEF PushAlone, Clients!Held
  <1>3. ~wrong /\ Len(s) = n + ClientCounting /\ \A j \in 1..n : pool_mem[InSlot(j)] = s[j + ClientCounting]
    BY <1>1, <1>2 DEF DueHeld
  <1>4. CASE con = "count"
    <2>1. PICK t : t = [j \in 1..n |-> s[j + 1]]
      OBVIOUS
    <2>2. Len(s) = n + 1 /\ \A j \in 1..n + 1 : s[j] \in Nat
      BY <1>3, <1>4 DEF ClientCounting
    <2>3. t \in Seq(Nat) /\ Len(t) = n /\ s[1] \in Nat
      BY <2>1, <2>2
    <2>4. Clients!Waiting = <<s[1]>> \o t
      <3>1. [j \in 1..Clients!Held |-> pool_mem[ring[(ridx + j - 1) % QueueSlots]]] = t
        BY <1>2, <1>3, <1>4, <2>1 DEF InSlot, ClientCounting
      <3>2. pool_mem[hmsg] = s[1]
        BY <1>1, <1>4 DEF DueHeld
      <3> QED BY <1>4, <3>1, <3>2 DEF Clients!Waiting
    <2>5. <<s[1]>> \in Seq(Nat) /\ Len(<<s[1]>>) = 1 /\ <<s[1]>>[1] = s[1]
      BY <2>3
    <2>6. PICK u \in Seq(Nat) : u = <<s[1]>> \o t
      BY <2>3, <2>5, ConcatProperties
    <2>7. Len(u) = n + 1 /\ \A j \in 1..n + 1 : u[j] = IF j = 1 THEN s[1] ELSE t[j - 1]
      <3>1. PICK r \in Seq(Nat) : r = <<s[1]>> /\ Len(r) = 1 /\ r[1] = s[1]
        BY <2>5
      <3>2. /\ Len(r \o t) = 1 + n
            /\ \A j \in 1..1 + n : (r \o t)[j] = IF j <= 1 THEN r[j] ELSE t[j - 1]
        BY <2>3, <3>1, ConcatProperties
      <3> QED BY <2>6, <3>1, <3>2
    <2>8. \A j \in 1..n + 1 : u[j] = s[j]
      BY <2>1, <2>2, <2>7
    <2>9. u = s
      BY <2>2, <2>7, <2>8, SeqEqual
    <2> QED BY <1>1, <1>3, <2>4, <2>6, <2>9
  <1>5. CASE con # "count"
    <2>1. PICK t : t = [j \in 1..n |-> s[j]]
      OBVIOUS
    <2>2. Len(s) = n
      BY <1>3, <1>5 DEF ClientCounting
    <2>3. t = s
      BY <2>1, <2>2, LenProperties
    <2>4. Clients!Waiting = <<>> \o t
      <3>1. [j \in 1..Clients!Held |-> pool_mem[ring[(ridx + j - 1) % QueueSlots]]] = t
        BY <1>2, <1>3, <1>5, <2>1, <2>2 DEF InSlot, ClientCounting
      <3> QED BY <1>5, <3>1 DEF Clients!Waiting
    <2>5. <<>> \o t = t
      BY <2>3, ConcatEmptySeq
    <2> QED BY <1>1, <1>3, <2>3, <2>4, <2>5
  <1> QED BY <1>4, <1>5

(* Places apart are one holder each. *)
LEMMA ApartIsOneOwner ==
  ASSUME PlacesApart, NEW b \in HandlerBlocks
  PROVE  /\ \A x, y \in Clients!Holders(b) : x = y
         /\ (Clients!Holders(b) = {}) <=> b \in Clients!FreeFrom(pool_head, pool_mem)
  <1>1. /\ \A x : x \in Clients!Holders(b) <=>
             \/ \E h \in Handlers : Holds(h) /\ hblk[h] = b /\ x = <<"handler", h>>
             \/ \E j \in 1..Clients!Held : InSlot(j) = b /\ x = <<"slot", j>>
             \/ ConHolds /\ hmsg = b /\ x = <<"consumer", 0>>
    BY DEF Clients!Holders, Holds, InSlot, ConHolds
  <1>2. ASSUME NEW x \in Clients!Holders(b), NEW y \in Clients!Holders(b)
        PROVE  x = y
    BY <1>1 DEF PlacesApart
  <1>3. ASSUME NEW x \in Clients!Holders(b)
        PROVE  b \notin Free
    BY <1>1, <1>3 DEF PlacesApart
  <1>4. ASSUME b \notin Free
        PROVE  \E x : x \in Clients!Holders(b)
    <2>1. \/ \E h \in Handlers : Holds(h) /\ hblk[h] = b
          \/ \E j \in 1..Clients!Held : InSlot(j) = b
          \/ ConHolds /\ hmsg = b
      BY <1>4 DEF PlacesApart
    <2>2. CASE \E h \in Handlers : Holds(h) /\ hblk[h] = b
      <3> PICK h \in Handlers : Holds(h) /\ hblk[h] = b
        BY <2>2
      <3>1. <<"handler", h>> \in Clients!Holders(b)
        BY <1>1
      <3> QED BY <3>1
    <2>3. CASE \E j \in 1..Clients!Held : InSlot(j) = b
      <3> PICK j \in 1..Clients!Held : InSlot(j) = b
        BY <2>3
      <3>1. <<"slot", j>> \in Clients!Holders(b)
        BY <1>1
      <3> QED BY <3>1
    <2>4. CASE ConHolds /\ hmsg = b
      <3>1. <<"consumer", 0>> \in Clients!Holders(b)
        BY <1>1, <2>4
      <3> QED BY <3>1
    <2> QED BY <2>1, <2>2, <2>3, <2>4
  <1> QED BY <1>2, <1>3, <1>4 DEF Free

----------------------------------------------------------------------------
(* The steps.  What a step leaves alone stays right.                       *)

LEMMA SamePush ==
  ASSUME PushAlone, ~Clients!Meet', UNCHANGED <<ring, widx, ridx>>,
         \A g \in Handlers : /\ Clients!InPush(g)' => Clients!InPush(g) /\ hw'[g] = hw[g]
                             /\ hp'[g] = "store" => hp[g] = "store" /\ hblk'[g] = hblk[g]
  PROVE  PushAlone'
  BY DEF PushAlone, Clients!Following

LEMMA SameList ==
  ASSUME ListIntact, UNCHANGED <<pool_head, pool_mem, hmsg>>, con' = "head" => con = "head",
         \A g \in Handlers : /\ Clients!InAlloc(g)' => Clients!InAlloc(g) /\ hblk'[g] = hblk[g]
                             /\ hp'[g] = "unlink" => hp[g] = "unlink" /\ hnxt'[g] = hnxt[g]
  PROVE  ListIntact' /\ Free' = Free
  BY DEF ListIntact, Free

LEMMA SamePlaces ==
  ASSUME PlacesApart, UNCHANGED <<ring, widx, ridx>>, Free' = Free,
         ConHolds' <=> ConHolds, ConHolds => hmsg' = hmsg,
         \A g \in Handlers : (Holds(g)' <=> Holds(g)) /\ (Holds(g) => hblk'[g] = hblk[g])
  PROVE  PlacesApart'
  <1>1. Clients!Held' = Clients!Held /\ \A j \in 1..Clients!Held : InSlot(j)' = InSlot(j)
    BY DEF Clients!Held, InSlot
  <1> QED BY <1>1 DEF PlacesApart

LEMMA SameDue ==
  ASSUME DueHeld, UNCHANGED <<ring, widx, ridx, due, wrong>>,
         con' = "count" <=> con = "count", con = "count" => hmsg' = hmsg /\ pool_mem'[hmsg] = pool_mem[hmsg],
         \A j \in 1..Clients!Held : pool_mem'[InSlot(j)] = pool_mem[InSlot(j)],
         \A g \in Handlers : Numbered(g)' => /\ Numbered(g) /\ hblk'[g] = hblk[g]
                                             /\ hseq'[g] = hseq[g] /\ pool_mem'[hblk[g]] = pool_mem[hblk[g]]
  PROVE  DueHeld'
  <1>1. Clients!Held' = Clients!Held /\ ClientCounting' = ClientCounting /\ \A j \in 1..Clients!Held : InSlot(j)' = InSlot(j)
    BY DEF Clients!Held, InSlot, ClientCounting
  <1>2. \A j \in 1..Clients!Held : pool_mem'[InSlot(j)'] = due'[j + ClientCounting']
    BY <1>1 DEF DueHeld
  <1>3. \A h \in Handlers : Numbered(h)' => pool_mem'[hblk'[h]] = hseq'[h]
    BY DEF DueHeld
  <1>4. ~wrong' /\ Len(due') = Clients!Held' + ClientCounting' /\ (con' = "count" => pool_mem'[hmsg'] = due'[1])
    BY <1>1 DEF DueHeld
  <1> QED BY <1>1, <1>2, <1>3, <1>4 DEF DueHeld

(* Steps outside push, the pool and the message. *)
Idle == {"none", "loop", "recv", "alloc", "closed"}
LEMMA QuietStep ==
  ASSUME Exact, ~Clients!Meet', UNCHANGED <<hblk, hnxt, hseq, hw, pool_head, pool_mem, ring, widx, ridx, hmsg, due, wrong>>,
         con' = con \/ {con, con'} \subseteq {"loop", "pop", "left"},
         \A g \in Handlers : hp'[g] = hp[g] \/ {hp[g], hp'[g]} \subseteq Idle
  PROVE  Exact'
  <1>1. ListIntact' /\ Free' = Free
    BY SameList DEF Exact, Idle, Clients!InAlloc
  <1>2. PushAlone'
    BY SamePush DEF Exact, Idle, Clients!InPush
  <1>3. PlacesApart'
    BY <1>1, SamePlaces DEF Exact, Idle, Holds, ConHolds
  <1>4. DueHeld'
    BY SameDue DEF Exact, Idle, Numbered
  <1> QED BY <1>1, <1>2, <1>3, <1>4 DEF Exact

(* A function changed at one handler. *)
LEMMA At ==
  ASSUME NEW f, f = [g \in Handlers |-> f[g]], NEW h \in Handlers, NEW z
  PROVE  /\ [f EXCEPT ![h] = z][h] = z
         /\ \A g \in Handlers : g # h => [f EXCEPT ![h] = z][g] = f[g]
         /\ [f EXCEPT ![h] = z] = [g \in Handlers |-> [f EXCEPT ![h] = z][g]]
  OBVIOUS

(* alloc comes to the head, ... *)
LEMMA AllocHeadStep ==
  ASSUME HandlerTypes, Exact, NEW h \in Handlers, Clients!AllocHead(h), ~Clients!Meet'
  PROVE  Exact'
  <1>0. /\ hp[h] = "alloc" /\ hblk' = [hblk EXCEPT ![h] = pool_head]
        /\ hp' = [hp EXCEPT ![h] = IF pool_head = Null THEN "loop" ELSE "next"]
        /\ UNCHANGED <<hnxt, hseq, hw, g_seq, pool_head, pool_mem, ring, widx, ridx, due, con, hmsg, wrong>>
    BY DEF Clients!AllocHead, Clients!To, Clients!OthersRest, Clients!poolVars,
           Clients!queueVars, Clients!consumerVars
  <1>1. /\ hp'[h] = (IF pool_head = Null THEN "loop" ELSE "next") /\ hblk'[h] = pool_head
        /\ \A g \in Handlers : g # h => hp'[g] = hp[g] /\ hblk'[g] = hblk[g]
    BY <1>0, At DEF HandlerTypes
  <1>2. Free' = Free
    BY <1>0 DEF Free
  <1>3. PushAlone'
    BY <1>0, <1>1, SamePush DEF Exact, Clients!InPush
  <1>4. ListIntact'
    <2>1. \A g \in Handlers : Clients!InAlloc(g)' => hblk'[g] = pool_head /\ pool_head # Null
      BY <1>0, <1>1 DEF Exact, ListIntact, Clients!InAlloc
    <2>2. \A g \in Handlers : hp'[g] = "unlink" => hnxt'[g] = pool_mem[pool_head]
      BY <1>0, <1>1 DEF Exact, ListIntact
    <2>3. /\ pool_head \in HandlerBlocks \cup {Null} /\ (con = "head" => pool_mem[hmsg] = pool_head)
          /\ \A b \in Free : pool_mem[b] \in HandlerBlocks \cup {Null} /\ b \notin Clients!FreeFrom(pool_mem[b], pool_mem)
      BY DEF Exact, ListIntact
    <2> QED BY <1>0, <1>2, <2>1, <2>2, <2>3 DEF ListIntact
  <1>5. PlacesApart'
    BY <1>0, <1>1, <1>2, SamePlaces DEF Exact, Holds, ConHolds
  <1>6. DueHeld'
    BY <1>0, <1>1, SameDue DEF Exact, Numbered
  <1> QED BY <1>3, <1>4, <1>5, <1>6 DEF Exact

(* ... reads its link, ... *)
LEMMA AllocNextStep ==
  ASSUME HandlerTypes, Exact, NEW h \in Handlers, Clients!AllocNext(h), ~Clients!Meet'
  PROVE  Exact'
  <1>0. /\ hp[h] = "next" /\ hnxt' = [hnxt EXCEPT ![h] = Clients!AsLink(pool_mem[hblk[h]])]
        /\ hp' = [hp EXCEPT ![h] = "unlink"]
        /\ UNCHANGED <<hblk, hseq, hw, g_seq, pool_head, pool_mem, ring, widx, ridx, due, con, hmsg, wrong>>
    BY DEF Clients!AllocNext, Clients!To, Clients!OthersRest, Clients!poolVars,
           Clients!queueVars, Clients!consumerVars
  <1>1. /\ hp'[h] = "unlink" /\ hnxt'[h] = Clients!AsLink(pool_mem[hblk[h]])
        /\ \A g \in Handlers : g # h => hp'[g] = hp[g] /\ hnxt'[g] = hnxt[g]
    BY <1>0, At DEF HandlerTypes
  <1>2. Free' = Free
    BY <1>0 DEF Free
  <1>3. PushAlone'
    BY <1>0, <1>1, SamePush DEF Exact, Clients!InPush
  <1>4. ListIntact'
    <2>1. hblk[h] = pool_head /\ pool_head \in HandlerBlocks
      BY <1>0 DEF Exact, ListIntact, Clients!InAlloc
    <2>2. pool_head \in Free
      BY <2>1, FreeClosed DEF Free
    <2>3. hnxt'[h] = pool_mem[pool_head]
      BY <1>1, <2>1, <2>2 DEF Exact, ListIntact, Clients!AsLink
    <2>4. \A g \in Handlers : Clients!InAlloc(g)' => hblk'[g] = pool_head /\ pool_head # Null
      BY <1>0, <1>1 DEF Exact, ListIntact, Clients!InAlloc
    <2>5. \A g \in Handlers : hp'[g] = "unlink" => hnxt'[g] = pool_mem[pool_head]
      BY <1>0, <1>1, <2>3 DEF Exact, ListIntact
    <2>6. /\ pool_head \in HandlerBlocks \cup {Null} /\ (con = "head" => pool_mem[hmsg] = pool_head)
          /\ \A b \in Free : pool_mem[b] \in HandlerBlocks \cup {Null} /\ b \notin Clients!FreeFrom(pool_mem[b], pool_mem)
      BY DEF Exact, ListIntact
    <2> QED BY <1>0, <1>2, <2>4, <2>5, <2>6 DEF ListIntact
  <1>5. PlacesApart'
    BY <1>0, <1>1, <1>2, SamePlaces DEF Exact, Holds, ConHolds
  <1>6. DueHeld'
    BY <1>0, <1>1, SameDue DEF Exact, Numbered
  <1> QED BY <1>3, <1>4, <1>5, <1>6 DEF Exact

(* ... and takes the head off the list: the block is the handler's. *)
LEMMA AllocStoreStep ==
  ASSUME HandlerTypes, Exact, NEW h \in Handlers, Clients!AllocStore(h), ~Clients!Meet'
  PROVE  Exact'
  <1>v. PushAlone /\ ListIntact /\ PlacesApart /\ DueHeld
    BY DEF Exact
  <1>0. /\ hp[h] = "unlink" /\ pool_head' = hnxt[h] /\ hp' = [hp EXCEPT ![h] = "fill"]
        /\ hnxt' = [hnxt EXCEPT ![h] = Null]
        /\ UNCHANGED <<hblk, hseq, hw, pool_mem, ring, widx, ridx, due, con, hmsg, wrong>>
    BY DEF Clients!AllocStore, Clients!To, Clients!OthersRest, Clients!queueVars,
           Clients!consumerVars
  <1>1. /\ hp'[h] = "fill" /\ \A g \in Handlers : g # h => hp'[g] = hp[g] /\ hnxt'[g] = hnxt[g]
    BY <1>0, At DEF HandlerTypes
  <1>2. PICK b \in HandlerBlocks : b = pool_head /\ b = hblk[h] /\ pool_head' = pool_mem[b]
    BY <1>v, <1>0 DEF ListIntact, Clients!InAlloc
  <1>3. Free = {b} \cup Free' /\ b \notin Free' /\ b \in Free
    <2>1. Free = {b} \cup Clients!FreeFrom(pool_mem[b], pool_mem) /\ Free' = Clients!FreeFrom(pool_mem[b], pool_mem)
      BY <1>0, <1>2, FreeFirst DEF Free
    <2> QED BY <1>v, <2>1 DEF ListIntact
  <1>4. /\ con # "head"
        /\ \A g \in Handlers : (Clients!InAlloc(g) => g = h) /\ ~Clients!InAlloc(g)'
    BY <1>v, <1>0, <1>1 DEF PushAlone, Clients!Meet, Clients!InFree, Clients!InAlloc
  <1>5. PushAlone'
    BY <1>v, <1>0, <1>1, SamePush DEF Clients!InPush
  <1>6. ListIntact'
    <2>1. pool_head' \in HandlerBlocks \cup {Null}
      BY <1>v, <1>2, <1>3 DEF ListIntact
    <2>2. \A x \in Free' : pool_mem[x] \in HandlerBlocks \cup {Null} /\ x \notin Clients!FreeFrom(pool_mem[x], pool_mem)
      BY <1>v, <1>3 DEF ListIntact
    <2>3. \A g \in Handlers : hp'[g] # "unlink"
      BY <1>4 DEF Clients!InAlloc
    <2> QED BY <1>0, <1>4, <2>1, <2>2, <2>3 DEF ListIntact
  <1>7. PlacesApart'
    <2>1. Clients!Held' = Clients!Held /\ (\A j \in 1..Clients!Held : InSlot(j)' = InSlot(j)) /\ (ConHolds' <=> ConHolds)
      BY <1>0 DEF Clients!Held, InSlot, ConHolds
    <2>2. \A g \in Handlers : (Holds(g)' <=> Holds(g) \/ g = h) /\ ~Holds(h)
      BY <1>0, <1>1 DEF Holds
    <2>3. \A g \in Handlers : Holds(g) => hblk[g] # b
      BY <1>v, <1>3 DEF PlacesApart
    <2>4. (\A j \in 1..Clients!Held : InSlot(j) # b) /\ (ConHolds => hmsg # b)
      BY <1>v, <1>3 DEF PlacesApart
    <2>5. \A x : x \in HandlerBlocks \ Free' <=> x \in HandlerBlocks \ Free \/ x = b
      BY <1>3
    <2>6. /\ \A g \in Handlers : Holds(g)' => hblk'[g] \in HandlerBlocks \ Free'
          /\ \A j \in 1..Clients!Held' : InSlot(j)' \in HandlerBlocks \ Free'
          /\ ConHolds' => hmsg' \in HandlerBlocks \ Free'
      BY <1>v, <1>0, <1>2, <2>1, <2>2, <2>5 DEF PlacesApart
    <2>7. /\ \A f, g \in Handlers : Holds(f)' /\ Holds(g)' /\ hblk'[f] = hblk'[g] => f = g
          /\ \A j, l \in 1..Clients!Held' : InSlot(j)' = InSlot(l)' => j = l
      BY <1>v, <1>0, <1>2, <2>1, <2>2, <2>3 DEF PlacesApart
    <2>8. /\ \A g \in Handlers, j \in 1..Clients!Held' : Holds(g)' => hblk'[g] # InSlot(j)'
          /\ ConHolds' => /\ \A g \in Handlers : Holds(g)' => hblk'[g] # hmsg'
                          /\ \A j \in 1..Clients!Held' : InSlot(j)' # hmsg'
      BY <1>v, <1>0, <1>2, <2>1, <2>2, <2>4 DEF PlacesApart
    <2>9. \A x \in HandlerBlocks \ Free' : \/ \E g \in Handlers : Holds(g)' /\ hblk'[g] = x
                                           \/ \E j \in 1..Clients!Held' : InSlot(j)' = x
                                           \/ ConHolds' /\ hmsg' = x
      BY <1>v, <1>0, <1>2, <2>1, <2>2, <2>5 DEF PlacesApart
    <2> QED BY <2>6, <2>7, <2>8, <2>9 DEF PlacesApart
  <1>8. DueHeld'
    BY <1>v, <1>0, <1>1, SameDue DEF Numbered
  <1> QED BY <1>5, <1>6, <1>7, <1>8 DEF Exact

(* Writing into a block that is not free leaves the free list alone. *)
LEMMA WriteHeld ==
  ASSUME ListIntact, pool_mem = [x \in HandlerBlocks |-> pool_mem[x]], NEW b \in HandlerBlocks, b \notin Free, NEW z,
         pool_head' = pool_head, pool_mem' = [pool_mem EXCEPT ![b] = z]
  PROVE  /\ Free' = Free /\ pool_mem'[b] = z /\ \A x \in HandlerBlocks \ {b} : pool_mem'[x] = pool_mem[x]
         /\ \A x \in Free : /\ pool_mem'[x] = pool_mem[x] /\ pool_mem'[x] \in HandlerBlocks \cup {Null}
                            /\ x \notin Clients!FreeFrom(pool_mem'[x], pool_mem')
  <1>1. pool_mem'[b] = z /\ \A x \in HandlerBlocks \ {b} : pool_mem'[x] = pool_mem[x]
    OBVIOUS
  <1>2. Free \subseteq HandlerBlocks /\ \A x \in Free : pool_mem'[x] = pool_mem[x]
    BY <1>1, FreeClosed DEF Free
  <1>3. Free' = Free
    BY <1>2, FreeSame DEF Free
  <1>4. ASSUME NEW x \in Free
        PROVE  Clients!FreeFrom(pool_mem[x], pool_mem') = Clients!FreeFrom(pool_mem[x], pool_mem)
    <2>1. Clients!FreeFrom(pool_mem[x], pool_mem) \subseteq Free
      BY FreeRest DEF Free
    <2> QED BY <1>2, <2>1, FreeSame
  <1> QED BY <1>1, <1>2, <1>3, <1>4 DEF ListIntact

(* The handler numbers its message. *)
LEMMA FillStep ==
  ASSUME HandlerTypes, Exact, NEW h \in Handlers, Clients!HandlerFill(h), ~Clients!Meet'
  PROVE  Exact'
  <1>v. PushAlone /\ ListIntact /\ PlacesApart /\ DueHeld
    BY DEF Exact
  <1>0. /\ hp[h] = "fill" /\ hp' = [hp EXCEPT ![h] = "push"]
        /\ hseq' = [hseq EXCEPT ![h] = g_seq] /\ pool_mem' = [pool_mem EXCEPT ![hblk[h]] = g_seq]
        /\ UNCHANGED <<hblk, hnxt, hw, pool_head, ring, widx, ridx, due, con, hmsg, wrong>>
    BY DEF Clients!HandlerFill, Clients!To, Clients!OthersRest, Clients!queueVars,
           Clients!consumerVars
  <1>1. /\ hp'[h] = "push" /\ hseq'[h] = g_seq
        /\ \A g \in Handlers : g # h => hp'[g] = hp[g] /\ hseq'[g] = hseq[g]
    BY <1>0, At DEF HandlerTypes
  <1>2. PICK b \in HandlerBlocks : b = hblk[h] /\ b \notin Free
    BY <1>v, <1>0 DEF PlacesApart, Holds
  <1>3. /\ Free' = Free /\ pool_mem'[b] = g_seq /\ \A x \in HandlerBlocks \ {b} : pool_mem'[x] = pool_mem[x]
        /\ \A x \in Free : /\ pool_mem'[x] = pool_mem[x] /\ pool_mem'[x] \in HandlerBlocks \cup {Null}
                           /\ x \notin Clients!FreeFrom(pool_mem'[x], pool_mem')
    BY <1>v, <1>0, <1>2, WriteHeld DEF HandlerTypes
  <1>4. PushAlone'
    BY <1>v, <1>0, <1>1, SamePush DEF Clients!InPush
  <1>5. ListIntact'
    <2>1. pool_head \in HandlerBlocks => pool_mem'[pool_head] = pool_mem[pool_head]
      BY <1>3, FreeClosed DEF Free
    <2>2. \A g \in Handlers : Clients!InAlloc(g)' => hblk'[g] = pool_head /\ pool_head # Null
      BY <1>v, <1>0, <1>1 DEF ListIntact, Clients!InAlloc
    <2>3. \A g \in Handlers : hp'[g] = "unlink" => hnxt'[g] = pool_mem'[pool_head]
      BY <1>v, <1>0, <1>1, <2>1 DEF ListIntact, Clients!InAlloc
    <2>4. con = "head" => pool_mem'[hmsg] = pool_head
      <3>1. con = "head" => hmsg \in HandlerBlocks /\ hmsg # b
        BY <1>v, <1>0, <1>2 DEF PlacesApart, ConHolds, Holds
      <3> QED BY <1>v, <1>3, <3>1 DEF ListIntact
    <2>5. pool_head \in HandlerBlocks \cup {Null}
      BY <1>v DEF ListIntact
    <2> QED BY <1>0, <1>3, <2>2, <2>3, <2>4, <2>5 DEF ListIntact
  <1>6. PlacesApart'
    BY <1>v, <1>0, <1>1, <1>3, SamePlaces DEF Holds, ConHolds
  <1>7. DueHeld'
    <2>1. \A j \in 1..Clients!Held : InSlot(j) \in HandlerBlocks /\ InSlot(j) # b
      BY <1>v, <1>0, <1>2 DEF PlacesApart, Holds
    <2>2. con = "count" => hmsg \in HandlerBlocks /\ hmsg # b
      BY <1>v, <1>0, <1>2 DEF PlacesApart, Holds, ConHolds
    <2>3. \A g \in Handlers : Holds(g) /\ g # h => hblk[g] \in HandlerBlocks /\ hblk[g] # b
      BY <1>v, <1>0, <1>2 DEF PlacesApart, Holds
    <2>4. Clients!Held' = Clients!Held /\ ClientCounting' = ClientCounting /\ \A j \in 1..Clients!Held : InSlot(j)' = InSlot(j)
      BY <1>0 DEF Clients!Held, InSlot, ClientCounting
    <2>5. \A g \in Handlers : Numbered(g)' => pool_mem'[hblk'[g]] = hseq'[g]
      <3> SUFFICES ASSUME NEW g \in Handlers, Numbered(g)' PROVE pool_mem'[hblk'[g]] = hseq'[g]
        OBVIOUS
      <3>1. CASE g = h
        BY <1>0, <1>1, <1>2, <1>3, <3>1
      <3>2. CASE g # h
        <4>1. Numbered(g) /\ Holds(g)
          BY <1>1, <3>2 DEF Numbered, Holds
        <4> QED BY <1>v, <1>0, <1>1, <1>3, <2>3, <3>2, <4>1 DEF DueHeld
      <3> QED BY <3>1, <3>2
    <2>6. \A j \in 1..Clients!Held' : pool_mem'[InSlot(j)'] = due'[j + ClientCounting']
      BY <1>v, <1>0, <1>3, <2>1, <2>4 DEF DueHeld
    <2>7. ~wrong' /\ Len(due') = Clients!Held' + ClientCounting' /\ (con' = "count" => pool_mem'[hmsg'] = due'[1])
      BY <1>v, <1>0, <1>3, <2>2, <2>4 DEF DueHeld
    <2> QED BY <2>5, <2>6, <2>7 DEF DueHeld
  <1> QED BY <1>4, <1>5, <1>6, <1>7 DEF Exact

(* push finds a slot free, ... *)
LEMMA PushCheckStep ==
  ASSUME HandlerTypes, Exact, NEW h \in Handlers, Clients!PushCheck(h), ~Clients!Meet'
  PROVE  Exact'
  <1>v. PushAlone /\ ListIntact /\ PlacesApart /\ DueHeld
    BY DEF Exact
  <1>0. /\ hp[h] = "push" /\ Clients!Following(widx) # ridx /\ hp' = [hp EXCEPT ![h] = "write"]
        /\ hw' = [hw EXCEPT ![h] = widx]
        /\ UNCHANGED <<hblk, hnxt, hseq, pool_head, pool_mem, ring, widx, ridx, due, con, hmsg, wrong>>
    BY DEF Clients!PushCheck, Clients!To, Clients!OthersRest, Clients!poolVars,
           Clients!queueVars, Clients!consumerVars
  <1>1. /\ hp'[h] = "write" /\ hw'[h] = widx
        /\ \A g \in Handlers : g # h => hp'[g] = hp[g] /\ hw'[g] = hw[g]
    BY <1>0, At DEF HandlerTypes
  <1>2. ListIntact' /\ Free' = Free
    BY <1>v, <1>0, <1>1, SameList DEF Clients!InAlloc
  <1>3. PushAlone'
    <2>1. \A g \in Handlers : Clients!InPush(g)' => hw'[g] = widx
      BY <1>v, <1>1 DEF PushAlone, Clients!InPush
    <2>2. \A g \in Handlers : hp'[g] = "store" => ring[widx] = hblk[g]
      BY <1>v, <1>1 DEF PushAlone
    <2>3. widx \in 0..QueueSlots - 1 /\ ridx \in 0..QueueSlots - 1
      BY <1>v DEF PushAlone
    <2> QED BY <1>0, <2>1, <2>2, <2>3 DEF PushAlone, Clients!Following
  <1>4. PlacesApart'
    BY <1>v, <1>0, <1>1, <1>2, SamePlaces DEF Holds, ConHolds
  <1>5. DueHeld'
    BY <1>v, <1>0, <1>1, SameDue DEF Numbered
  <1> QED BY <1>2, <1>3, <1>4, <1>5 DEF Exact

(* ... writes it, ... *)
LEMMA PushWriteStep ==
  ASSUME HandlerTypes, Exact, NEW h \in Handlers, Clients!PushWrite(h), ~Clients!Meet'
  PROVE  Exact'
  <1>v. PushAlone /\ ListIntact /\ PlacesApart /\ DueHeld
    BY DEF Exact
  <1>0. /\ hp[h] = "write" /\ hp' = [hp EXCEPT ![h] = "store"]
        /\ ring' = [ring EXCEPT ![hw[h]] = hblk[h]]
        /\ UNCHANGED <<hblk, hnxt, hseq, hw, pool_head, pool_mem, widx, ridx, due, con, hmsg, wrong>>
    BY DEF Clients!PushWrite, Clients!To, Clients!OthersRest, Clients!poolVars,
           Clients!consumerVars
  <1>1. hp'[h] = "store" /\ \A g \in Handlers : g # h => hp'[g] = hp[g]
    BY <1>0, At DEF HandlerTypes
  <1>2. hw[h] = widx /\ widx \in 0..QueueSlots - 1 /\ \A g \in Handlers : Clients!InPush(g) => g = h
    BY <1>v, <1>0 DEF PushAlone, Clients!Meet, Clients!InPush
  <1>3. ring'[widx] = hblk[h] /\ \A x \in 0..QueueSlots - 1 : x # widx => ring'[x] = ring[x]
    BY <1>0, <1>2 DEF HandlerTypes
  <1>4. ListIntact' /\ Free' = Free
    BY <1>v, <1>0, <1>1, SameList DEF Clients!InAlloc
  <1>5. PushAlone'
    <2>1. \A g \in Handlers : Clients!InPush(g)' => hw'[g] = widx /\ Clients!Following(widx) # ridx
      BY <1>v, <1>0, <1>1 DEF PushAlone, Clients!InPush
    <2>2. \A g \in Handlers : hp'[g] = "store" => ring'[widx] = hblk[g]
      BY <1>1, <1>2, <1>3 DEF Clients!InPush
    <2>3. widx \in 0..QueueSlots - 1 /\ ridx \in 0..QueueSlots - 1
      BY <1>v DEF PushAlone
    <2> QED BY <1>0, <2>1, <2>2, <2>3 DEF PushAlone, Clients!Following
  <1>6. Clients!Held' = Clients!Held /\ \A j \in 1..Clients!Held : InSlot(j)' = InSlot(j)
    <2>1. Clients!Held' = Clients!Held
      BY <1>0 DEF Clients!Held
    <2>2. \A j \in 1..Clients!Held : /\ (ridx + j - 1) % QueueSlots \in 0..QueueSlots - 1
                                     /\ (ridx + j - 1) % QueueSlots # widx
      BY <1>v, HeldSlots DEF PushAlone, Clients!Held
    <2> QED BY <1>0, <1>3, <2>1, <2>2 DEF InSlot
  <1>7. PlacesApart'
    <2>1. \A g \in Handlers : Holds(g)' <=> Holds(g)
      BY <1>0, <1>1 DEF Holds
    <2>2. ConHolds' <=> ConHolds
      BY <1>0 DEF ConHolds
    <2> QED BY <1>v, <1>0, <1>4, <1>6, <2>1, <2>2 DEF PlacesApart
  <1>8. DueHeld'
    <2>1. \A g \in Handlers : Numbered(g)' <=> Numbered(g)
      BY <1>0, <1>1 DEF Numbered
    <2>2. ClientCounting' = ClientCounting
      BY <1>0 DEF ClientCounting
    <2> QED BY <1>v, <1>0, <1>6, <2>1, <2>2 DEF DueHeld
  <1> QED BY <1>4, <1>5, <1>7, <1>8 DEF Exact

(* ... and makes it one more that is due. *)
LEMMA PushStoreStep ==
  ASSUME HandlerTypes, Exact, NEW h \in Handlers, Clients!PushStore(h), ~Clients!Meet'
  PROVE  Exact'
  <1>v. PushAlone /\ ListIntact /\ PlacesApart /\ DueHeld
    BY DEF Exact
  <1>0. /\ hp[h] = "store" /\ hp' = [hp EXCEPT ![h] = "loop"] /\ widx' = Clients!Following(hw[h])
        /\ due' = Append(due, hseq[h]) /\ hw' = [hw EXCEPT ![h] = 0]
        /\ hseq' = [hseq EXCEPT ![h] = 0] /\ hblk' = [hblk EXCEPT ![h] = Null]
        /\ UNCHANGED <<hnxt, pool_head, pool_mem, ring, ridx, con, hmsg, wrong>>
    BY DEF Clients!PushStore, Clients!To, Clients!OthersRest, Clients!poolVars,
           Clients!consumerVars
  <1>1. /\ hp'[h] = "loop"
        /\ \A g \in Handlers : g # h => /\ hp'[g] = hp[g] /\ hw'[g] = hw[g]
                                        /\ hseq'[g] = hseq[g] /\ hblk'[g] = hblk[g]
    BY <1>0, At DEF HandlerTypes
  <1>2. /\ hw[h] = widx /\ widx \in 0..QueueSlots - 1 /\ ridx \in 0..QueueSlots - 1
        /\ Clients!Following(widx) # ridx /\ ring[widx] = hblk[h] /\ \A g \in Handlers : Clients!InPush(g) => g = h
    BY <1>v, <1>0 DEF PushAlone, Clients!Meet, Clients!InPush
  <1>3. PICK n \in Nat : n = Clients!Held
    BY <1>2, HeldSlots DEF Clients!Held
  <1>4. widx' \in 0..QueueSlots - 1 /\ Clients!Held' = n + 1
    BY <1>0, <1>2, <1>3, OneMore DEF Clients!Held
  <1>5. (\A j \in 1..n : InSlot(j)' = InSlot(j)) /\ InSlot(n + 1)' = hblk[h]
    <2>1. (ridx + (n + 1) - 1) % QueueSlots = widx
      BY <1>2, <1>3, HeldSlots DEF Clients!Held
    <2> QED BY <1>0, <1>2, <2>1 DEF InSlot
  <1>6. PushAlone'
    <2>1. \A g \in Handlers : ~Clients!InPush(g)' /\ hp'[g] # "store"
      BY <1>1, <1>2 DEF Clients!InPush
    <2> QED BY <1>0, <1>2, <1>4, <2>1 DEF PushAlone
  <1>7. ListIntact' /\ Free' = Free
    BY <1>v, <1>0, <1>1, SameList DEF Clients!InAlloc
  <1>8. Holds(h) /\ Numbered(h) /\ ~Holds(h)' /\ (ConHolds' <=> ConHolds)
        /\ \A g \in Handlers : g # h => (Holds(g)' <=> Holds(g)) /\ (Numbered(g)' <=> Numbered(g))
    BY <1>0, <1>1 DEF Holds, Numbered, ConHolds
  <1>9. \A j \in 1..n + 1 : j \in 1..n \/ j = n + 1
    OBVIOUS
  <1>10. PlacesApart'
    <2>1. PICK b \in HandlerBlocks \ Free : b = hblk[h]
      BY <1>v, <1>8 DEF PlacesApart
    <2>2. /\ \A g \in Handlers : g # h /\ Holds(g) => hblk[g] # b
          /\ \A j \in 1..n : InSlot(j) # b
          /\ ConHolds => hmsg # b
      BY <1>v, <1>3, <1>8, <2>1 DEF PlacesApart
    <2>3. \A j \in 1..n + 1 : InSlot(j)' = IF j = n + 1 THEN b ELSE InSlot(j)
      BY <1>5, <1>9, <2>1
    <2>4. /\ \A g \in Handlers : Holds(g)' => hblk'[g] \in HandlerBlocks \ Free
          /\ \A j \in 1..n + 1 : InSlot(j)' \in HandlerBlocks \ Free
          /\ ConHolds' => hmsg' \in HandlerBlocks \ Free
      BY <1>v, <1>0, <1>1, <1>3, <1>8, <1>9, <2>1, <2>3 DEF PlacesApart
    <2>5. /\ \A f, g \in Handlers : Holds(f)' /\ Holds(g)' /\ hblk'[f] = hblk'[g] => f = g
          /\ \A j, l \in 1..n + 1 : InSlot(j)' = InSlot(l)' => j = l
      BY <1>v, <1>1, <1>3, <1>8, <1>9, <2>2, <2>3 DEF PlacesApart
    <2>6. /\ \A g \in Handlers, j \in 1..n + 1 : Holds(g)' => hblk'[g] # InSlot(j)'
          /\ ConHolds' => /\ \A g \in Handlers : Holds(g)' => hblk'[g] # hmsg'
                          /\ \A j \in 1..n + 1 : InSlot(j)' # hmsg'
      BY <1>v, <1>0, <1>1, <1>3, <1>8, <1>9, <2>2, <2>3 DEF PlacesApart
    <2>7. ASSUME NEW x \in HandlerBlocks \ Free
          PROVE  \/ \E g \in Handlers : Holds(g)' /\ hblk'[g] = x
                 \/ \E j \in 1..n + 1 : InSlot(j)' = x
                 \/ ConHolds' /\ hmsg' = x
      <3>1. CASE x = b
        <4>1. PICK e \in 1..n + 1 : e = n + 1
          OBVIOUS
        <4>2. InSlot(e)' = x
          BY <1>5, <2>1, <3>1, <4>1
        <4> QED BY <4>2
      <3>2. CASE x # b
        <4>1. \/ \E g \in Handlers : g # h /\ Holds(g) /\ hblk[g] = x
              \/ \E j \in 1..n : InSlot(j) = x
              \/ ConHolds /\ hmsg = x
          BY <1>v, <1>3, <2>1, <3>2 DEF PlacesApart
        <4>2. \A j \in 1..n : j \in 1..n + 1
          OBVIOUS
        <4> QED BY <1>0, <1>1, <1>5, <1>8, <4>1, <4>2
      <3> QED BY <3>1, <3>2
    <2> QED BY <1>4, <1>7, <2>4, <2>5, <2>6, <2>7 DEF PlacesApart
  <1>11. DueHeld'
    <2>1. PICK s \in Seq(Nat), z \in Nat : s = due /\ z = hseq[h]
      BY DEF HandlerTypes
    <2>2. PICK c \in 0..1 : c = ClientCounting /\ c = ClientCounting'
      BY <1>0 DEF ClientCounting
    <2>3. PICK t : t = due'
      OBVIOUS
    <2>4. Len(s) = n + c /\ Len(t) = n + 1 + c /\ t[n + 1 + c] = z /\ \A j \in 1..n + c : t[j] = s[j]
      <3>1. Len(s) = n + c
        BY <1>v, <1>3, <2>1, <2>2 DEF DueHeld
      <3>2. t = Append(s, z)
        BY <1>0, <2>1, <2>3
      <3> QED BY <3>1, <3>2, AppendProperties
    <2>5. pool_mem'[hblk[h]] = z
      BY <1>v, <1>0, <1>8, <2>1 DEF DueHeld
    <2>6. ASSUME NEW j \in 1..n + 1
          PROVE  pool_mem'[InSlot(j)'] = t[j + c]
      <3>1. CASE j = n + 1
        BY <1>5, <2>4, <2>5, <3>1
      <3>2. CASE j \in 1..n
        <4>1. j + c \in 1..n + c
          <5>1. j \in Nat /\ 1 <= j /\ j <= n
            BY <3>2
          <5> QED BY <5>1
        <4>2. pool_mem[InSlot(j)] = s[j + c]
          BY <1>v, <1>3, <2>1, <2>2, <3>2 DEF DueHeld
        <4> QED BY <1>0, <1>5, <2>4, <3>2, <4>1, <4>2
      <3> QED BY <1>9, <3>1, <3>2
    <2>7. con = "count" => pool_mem'[hmsg] = t[1]
      <3>1. con = "count" => c = 1 /\ 1 \in 1..n + c /\ pool_mem[hmsg] = s[1]
        BY <1>v, <2>1, <2>2 DEF ClientCounting, DueHeld
      <3> QED BY <1>0, <2>4, <3>1
    <2>8. \A g \in Handlers : Numbered(g)' => pool_mem'[hblk'[g]] = hseq'[g]
      <3>1. ~Numbered(h)'
        BY <1>1 DEF Numbered
      <3> QED BY <1>v, <1>0, <1>1, <1>8, <3>1 DEF DueHeld
    <2>9. ~wrong'
      BY <1>v, <1>0 DEF DueHeld
    <2> QED BY <1>0, <1>4, <2>2, <2>3, <2>4, <2>6, <2>7, <2>8, <2>9 DEF DueHeld
  <1> QED BY <1>6, <1>7, <1>10, <1>11 DEF Exact

(* The consumer takes the message that was pushed first, ... *)
LEMMA PopStep ==
  ASSUME HandlerTypes, Exact, Clients!Pop, ~Clients!Meet'
  PROVE  Exact'
  <1>v. PushAlone /\ ListIntact /\ PlacesApart /\ DueHeld
    BY DEF Exact
  <1>0. /\ con = "pop"
        /\ UNCHANGED <<hp, hblk, hnxt, hseq, hw, pool_head, pool_mem, ring, widx, wrong, due>>
    BY DEF Clients!Pop, Clients!handlerVars, Clients!poolVars
  <1>1. CASE ridx = widx /\ con' = "loop" /\ UNCHANGED <<ridx, hmsg>>
    <2>1. con' = con \/ {con, con'} \subseteq {"loop", "pop", "left"}
      BY <1>0, <1>1
    <2> QED BY <1>0, <1>1, <2>1, QuietStep
  <1>2. CASE /\ ridx # widx /\ ridx' = Clients!Following(ridx) /\ hmsg' = ring[ridx]
             /\ con' = IF ring[ridx] = Null THEN "loop" ELSE "count"
    <2>1. widx \in 0..QueueSlots - 1 /\ ridx \in 0..QueueSlots - 1
      BY <1>v DEF PushAlone
    <2>2. PICK n : n = Clients!Held
      OBVIOUS
    <2>3. /\ n \in Nat /\ n >= 1 /\ (ridx + 1 - 1) % QueueSlots = ridx
          /\ ridx' \in 0..QueueSlots - 1 /\ Clients!Held' = n - 1
          /\ \A j \in 1..n - 1 : (ridx' + j - 1) % QueueSlots = (ridx + (j + 1) - 1) % QueueSlots
      BY <1>0, <1>2, <2>1, <2>2, OneLess DEF Clients!Held
    <2>4. /\ \A j \in 1..n - 1 : InSlot(j)' = InSlot(j + 1)
          /\ InSlot(1) = hmsg'
      BY <1>0, <1>2, <2>3 DEF InSlot
    <2>5. 1 \in 1..n /\ \A j \in 1..n - 1 : j + 1 \in 1..n /\ j + 1 # 1
      BY <2>3
    <2>6. PICK b \in HandlerBlocks \ Free : b = InSlot(1) /\ hmsg' = b /\ con' = "count"
      <3>1. InSlot(1) \in HandlerBlocks \ Free
        BY <1>v, <2>2, <2>5 DEF PlacesApart
      <3> QED BY <1>2, <2>4, <3>1, HandlersAssumption
    <2>7. ListIntact' /\ Free' = Free
      BY <1>v, <1>0, <2>6 DEF ListIntact, Free, Clients!InAlloc
    <2>8. PushAlone'
      <3>1. \A g \in Handlers : Clients!InPush(g)' => hw'[g] = widx /\ Clients!Following(widx) # ridx'
        <4> SUFFICES ASSUME NEW g \in Handlers, Clients!InPush(g)' PROVE hw'[g] = widx /\ Clients!Following(widx) # ridx'
          OBVIOUS
        <4>1. hw'[g] = widx
          BY <1>v, <1>0 DEF PushAlone, Clients!InPush
        <4>2. /\ Clients!Following(widx) = (IF widx + 1 = QueueSlots THEN 0 ELSE widx + 1)
              /\ Clients!Following(ridx) = (IF ridx + 1 = QueueSlots THEN 0 ELSE ridx + 1)
          BY <2>1, SlotAfter
        <4>3. Clients!Following(widx) # Clients!Following(ridx)
          BY <1>2, <2>1, <4>2, Slots
        <4> QED BY <1>2, <4>1, <4>3
      <3>2. \A g \in Handlers : hp'[g] = "store" => ring'[widx] = hblk'[g]
        BY <1>v, <1>0 DEF PushAlone
      <3> QED BY <1>0, <2>1, <2>3, <3>1, <3>2 DEF PushAlone, Clients!Following
    <2>9. (\A g \in Handlers : Holds(g)' <=> Holds(g)) /\ ConHolds' /\ ~ConHolds
      BY <1>0, <2>6 DEF Holds, ConHolds
    <2>10. PlacesApart'
      <3>1. /\ \A g \in Handlers : Holds(g) => hblk[g] # b
            /\ \A j \in 1..n - 1 : InSlot(j)' # b
        BY <1>v, <2>2, <2>4, <2>5, <2>6 DEF PlacesApart
      <3>2. /\ \A g \in Handlers : Holds(g)' => hblk'[g] \in HandlerBlocks \ Free
            /\ \A j \in 1..n - 1 : InSlot(j)' \in HandlerBlocks \ Free
        BY <1>v, <1>0, <2>2, <2>4, <2>5, <2>9 DEF PlacesApart
      <3>3. /\ \A f, g \in Handlers : Holds(f)' /\ Holds(g)' /\ hblk'[f] = hblk'[g] => f = g
            /\ \A g \in Handlers, j \in 1..n - 1 : Holds(g)' => hblk'[g] # InSlot(j)'
        BY <1>v, <1>0, <2>2, <2>4, <2>5, <2>9 DEF PlacesApart
      <3>4. ASSUME NEW j \in 1..n - 1, NEW l \in 1..n - 1, InSlot(j)' = InSlot(l)'
            PROVE  j = l
        <4>1. j + 1 \in 1..n /\ l + 1 \in 1..n /\ InSlot(j + 1) = InSlot(l + 1)
          BY <2>4, <2>5, <3>4
        <4>2. j + 1 = l + 1
          BY <1>v, <2>2, <4>1 DEF PlacesApart
        <4> QED BY <2>3, <4>2
      <3>5. ASSUME NEW x \in HandlerBlocks \ Free
            PROVE  \/ \E g \in Handlers : Holds(g)' /\ hblk'[g] = x
                   \/ \E j \in 1..n - 1 : InSlot(j)' = x
                   \/ hmsg' = x
        <4>1. CASE \E g \in Handlers : Holds(g) /\ hblk[g] = x
          BY <1>0, <2>9, <4>1
        <4>2. CASE \E j \in 1..n : InSlot(j) = x
          <5>1. PICK j \in 1..n : InSlot(j) = x
            BY <4>2
          <5>2. CASE j = 1
            BY <2>6, <5>1, <5>2
          <5>3. CASE j # 1
            <6>1. PICK l \in 1..n - 1 : j = l + 1
              <7>1. j - 1 \in 1..n - 1 /\ j = (j - 1) + 1
                BY <2>3, <5>3
              <7> QED BY <7>1
            <6> QED BY <2>4, <5>1, <6>1
          <5> QED BY <5>2, <5>3
        <4> QED BY <1>v, <2>2, <2>9, <4>1, <4>2 DEF PlacesApart
      <3> QED BY <1>0, <2>3, <2>6, <2>7, <2>9, <3>1, <3>2, <3>3, <3>4, <3>5 DEF PlacesApart
    <2>11. DueHeld'
      <3>1. ClientCounting = 0 /\ ClientCounting' = 1
        BY <1>0, <2>6 DEF ClientCounting
      <3>2. Len(due) = n /\ \A j \in 1..n : pool_mem[InSlot(j)] = due[j]
        <4>1. Len(due) = n + 0 /\ \A j \in 1..n : pool_mem[InSlot(j)] = due[j + 0]
          BY <1>v, <2>2, <3>1 DEF DueHeld
        <4>2. \A j \in 1..n : j + 0 = j
          OBVIOUS
        <4> QED BY <2>3, <4>1, <4>2
      <3>3. pool_mem'[hmsg'] = due'[1]
        BY <1>0, <2>5, <2>6, <3>2
      <3>4. \A j \in 1..n - 1 : pool_mem'[InSlot(j)'] = due'[j + 1]
        BY <1>0, <2>4, <2>5, <3>2
      <3>5. Len(due') = (n - 1) + 1
        BY <1>0, <2>3, <3>2
      <3>6. ~wrong' /\ \A g \in Handlers : Numbered(g)' => pool_mem'[hblk'[g]] = hseq'[g]
        BY <1>v, <1>0 DEF DueHeld, Numbered
      <3> QED BY <2>3, <3>1, <3>3, <3>4, <3>5, <3>6 DEF DueHeld
    <2> QED BY <2>7, <2>8, <2>10, <2>11 DEF Exact
  <1> QED BY <1>1, <1>2 DEF Clients!Pop

(* ... counts it, ... *)
LEMMA CountStep ==
  ASSUME HandlerTypes, Exact, Clients!Count, ~Clients!Meet'
  PROVE  Exact'
  <1>v. PushAlone /\ ListIntact /\ PlacesApart /\ DueHeld
    BY DEF Exact
  <1>0. /\ con = "count" /\ con' = "free"
        /\ wrong' = (wrong \/ due = <<>> \/ pool_mem[hmsg] # Head(due))
        /\ due' = IF due = <<>> THEN <<>> ELSE Tail(due)
        /\ UNCHANGED <<hp, hblk, hnxt, hseq, hw, pool_head, pool_mem, ring, widx, ridx, hmsg>>
    BY DEF Clients!Count, Clients!handlerVars, Clients!poolVars, Clients!queueVars
  <1>1. ListIntact' /\ Free' = Free
    BY <1>v, <1>0, SameList DEF Clients!InAlloc
  <1>2. PushAlone'
    BY <1>v, <1>0, SamePush DEF Clients!InPush
  <1>3. PlacesApart'
    BY <1>v, <1>0, <1>1, SamePlaces DEF Holds, ConHolds
  <1>4. DueHeld'
    <2>1. PICK n \in Nat : n = Clients!Held
      BY <1>v, HeldSlots DEF PushAlone, Clients!Held
    <2>2. PICK s \in Seq(Nat) : s = due
      BY DEF HandlerTypes
    <2>3. ClientCounting = 1 /\ ClientCounting' = 0 /\ Clients!Held' = n
      BY <1>0, <2>1 DEF ClientCounting, Clients!Held
    <2>4. Len(s) = n + 1 /\ pool_mem[hmsg] = s[1] /\ \A j \in 1..n : pool_mem[InSlot(j)] = s[j + 1]
      BY <1>v, <1>0, <2>1, <2>2, <2>3 DEF DueHeld
    <2>5. s # <<>> /\ Head(s) = s[1]
      BY <2>4, LenProperties
    <2>6. PICK t : t = Tail(s)
      OBVIOUS
    <2>7. Len(t) = n /\ \A j \in 1..n : t[j] = s[j + 1]
      BY <2>4, <2>5, <2>6, HeadTailProperties
    <2>8. due' = t /\ ~wrong'
      BY <1>v, <1>0, <2>2, <2>4, <2>5, <2>6 DEF DueHeld
    <2>9. \A j \in 1..n : pool_mem'[InSlot(j)'] = t[j + 0]
      <3>1. \A j \in 1..n : InSlot(j)' = InSlot(j) /\ j + 0 = j
        BY <1>0 DEF InSlot
      <3> QED BY <1>0, <2>4, <2>7, <3>1
    <2>10. \A g \in Handlers : Numbered(g)' => pool_mem'[hblk'[g]] = hseq'[g]
      BY <1>v, <1>0 DEF DueHeld, Numbered
    <2>11. Len(t) = n + 0
      BY <2>7
    <2> QED BY <1>0, <2>3, <2>8, <2>9, <2>10, <2>11 DEF DueHeld
  <1> QED BY <1>1, <1>2, <1>3, <1>4 DEF Exact

(* ... links its block to the head of the free list, ... *)
LEMMA FreeLinkStep ==
  ASSUME HandlerTypes, Exact, Clients!FreeLink, ~Clients!Meet'
  PROVE  Exact'
  <1>v. PushAlone /\ ListIntact /\ PlacesApart /\ DueHeld
    BY DEF Exact
  <1>0. /\ con = "free" /\ con' = "head" /\ pool_mem' = [pool_mem EXCEPT ![hmsg] = pool_head]
        /\ UNCHANGED <<hp, hblk, hnxt, hseq, hw, pool_head, ring, widx, ridx, hmsg, wrong, due>>
    BY DEF Clients!FreeLink, Clients!handlerVars, Clients!queueVars
  <1>1. PICK b \in HandlerBlocks : b = hmsg /\ b \notin Free
    BY <1>v, <1>0 DEF PlacesApart, ConHolds
  <1>2. /\ Free' = Free /\ pool_mem'[b] = pool_head /\ \A x \in HandlerBlocks \ {b} : pool_mem'[x] = pool_mem[x]
        /\ \A x \in Free : /\ pool_mem'[x] = pool_mem[x] /\ pool_mem'[x] \in HandlerBlocks \cup {Null}
                           /\ x \notin Clients!FreeFrom(pool_mem'[x], pool_mem')
    BY <1>v, <1>0, <1>1, WriteHeld DEF HandlerTypes
  <1>3. PushAlone'
    BY <1>v, <1>0, SamePush DEF Clients!InPush
  <1>4. ListIntact'
    <2>1. \A g \in Handlers : ~Clients!InAlloc(g)' /\ hp'[g] # "unlink"
      BY <1>0 DEF Clients!Meet, Clients!InFree, Clients!InAlloc
    <2>2. pool_head' \in HandlerBlocks \cup {Null}
      BY <1>v, <1>0 DEF ListIntact
    <2> QED BY <1>0, <1>1, <1>2, <2>1, <2>2 DEF ListIntact
  <1>5. PlacesApart'
    BY <1>v, <1>0, <1>2, SamePlaces DEF Holds, ConHolds
  <1>6. DueHeld'
    <2>1. \A j \in 1..Clients!Held : InSlot(j) \in HandlerBlocks \ {b}
      BY <1>v, <1>0, <1>1 DEF PlacesApart, ConHolds
    <2>2. \A g \in Handlers : Numbered(g) => hblk[g] \in HandlerBlocks \ {b}
      BY <1>v, <1>0, <1>1 DEF PlacesApart, ConHolds, Holds, Numbered
    <2>3. \A g \in Handlers : Numbered(g)' <=> Numbered(g)
      BY <1>0 DEF Numbered
    <2> QED BY <1>v, <1>0, <1>2, <2>1, <2>2, <2>3, SameDue
  <1> QED BY <1>3, <1>4, <1>5, <1>6 DEF Exact

(* ... and makes it the head. *)
LEMMA FreeHeadStep ==
  ASSUME HandlerTypes, Exact, Clients!FreeHead, ~Clients!Meet'
  PROVE  Exact'
  <1>v. PushAlone /\ ListIntact /\ PlacesApart /\ DueHeld
    BY DEF Exact
  <1>0. /\ con = "head" /\ con' = "loop" /\ pool_head' = hmsg /\ hmsg' = Null
        /\ UNCHANGED <<hp, hblk, hnxt, hseq, hw, pool_mem, ring, widx, ridx, wrong, due>>
    BY DEF Clients!FreeHead, Clients!handlerVars, Clients!queueVars
  <1>1. PICK b \in HandlerBlocks : b = hmsg /\ b \notin Free /\ pool_mem[b] = pool_head
    BY <1>v, <1>0 DEF PlacesApart, ConHolds, ListIntact
  <1>2. Free' = {b} \cup Free
    BY <1>0, <1>1, FreeFirst DEF Free
  <1>3. PushAlone'
    BY <1>v, <1>0, SamePush DEF Clients!InPush
  <1>4. ListIntact'
    <2>1. \A g \in Handlers : ~Clients!InAlloc(g)' /\ hp'[g] # "unlink"
      BY <1>v, <1>0 DEF PushAlone, Clients!Meet, Clients!InFree, Clients!InAlloc
    <2>2. \A x \in Free' : pool_mem[x] \in HandlerBlocks \cup {Null} /\ x \notin Clients!FreeFrom(pool_mem[x], pool_mem)
      BY <1>v, <1>1, <1>2 DEF ListIntact, Free
    <2> QED BY <1>0, <1>1, <2>1, <2>2 DEF ListIntact
  <1>5. PlacesApart'
    <2>1. /\ Clients!Held' = Clients!Held /\ \A j \in 1..Clients!Held : InSlot(j)' = InSlot(j)
          /\ \A g \in Handlers : Holds(g)' <=> Holds(g)
          /\ ConHolds /\ ~ConHolds'
      BY <1>0 DEF Clients!Held, InSlot, Holds, ConHolds
    <2>2. \A x : x \in HandlerBlocks \ Free' <=> x \in HandlerBlocks \ Free /\ x # b
      BY <1>2
    <2> QED BY <1>v, <1>0, <1>1, <2>1, <2>2 DEF PlacesApart
  <1>6. DueHeld'
    BY <1>v, <1>0, SameDue DEF Numbered
  <1> QED BY <1>3, <1>4, <1>5, <1>6 DEF Exact

(* The domains stay. *)
LEMMA TypesStep ==
  ASSUME HandlerTypes, Clients!Next
  PROVE  HandlerTypes'
  <1>1. raced' \in BOOLEAN
    BY DEF HandlerTypes, Clients!Next, Clients!Rests, Clients!vars, Clients!Noted
  <1>2. /\ hp' = [h \in Handlers |-> hp'[h]] /\ hblk' = [h \in Handlers |-> hblk'[h]]
        /\ hnxt' = [h \in Handlers |-> hnxt'[h]] /\ hw' = [h \in Handlers |-> hw'[h]]
        /\ hseq' \in [Handlers -> Nat] /\ g_seq' \in Nat
    <2>1. CASE \E h \in Handlers : Clients!Connect(h) \/ Clients!Handler(h)
      <3> PICK h \in Handlers : Clients!Connect(h) \/ Clients!Handler(h)
        BY <2>1
      <3>1. /\ \E z : hp' = [hp EXCEPT ![h] = z]
            /\ hblk' = hblk \/ \E z : hblk' = [hblk EXCEPT ![h] = z]
            /\ hnxt' = hnxt \/ \E z : hnxt' = [hnxt EXCEPT ![h] = z]
            /\ hw' = hw \/ \E z : hw' = [hw EXCEPT ![h] = z]
            /\ hseq' = hseq \/ \E z \in {0, g_seq} : hseq' = [hseq EXCEPT ![h] = z]
            /\ g_seq' = g_seq \/ g_seq' = g_seq + 1
        BY DEF Clients!Connect, Clients!Handler, Clients!HandlerLoop, Clients!HandlerRecv,
               Clients!AllocHead, Clients!AllocNext, Clients!AllocStore, Clients!HandlerFill,
               Clients!PushCheck, Clients!PushWrite, Clients!PushStore, Clients!To
      <3>2. /\ hp' = [g \in Handlers |-> hp'[g]] /\ hblk' = [g \in Handlers |-> hblk'[g]]
            /\ hnxt' = [g \in Handlers |-> hnxt'[g]] /\ hw' = [g \in Handlers |-> hw'[g]]
        BY <3>1, At DEF HandlerTypes
      <3>3. hseq' \in [Handlers -> Nat] /\ g_seq' \in Nat
        BY <3>1 DEF HandlerTypes
      <3> QED BY <3>2, <3>3
    <2>2. CASE UNCHANGED Clients!handlerVars
      BY <2>2 DEF Clients!handlerVars, HandlerTypes
    <2> QED BY <2>1, <2>2 DEF Clients!Next, Clients!Rests, Clients!vars, Clients!NetStep,
                   Clients!Listen, Clients!NetLoop, Clients!CallAccept, Clients!AcceptFails,
                   Clients!Consumer, Clients!ConLoop, Clients!Pop, Clients!Count,
                   Clients!FreeLink, Clients!FreeHead, Clients!Stop, Clients!Close, Clients!Join
  <1>3. due' \in Seq(Nat)
    <2>1. CASE \E h \in Handlers : Clients!PushStore(h)
      <3> PICK h \in Handlers : Clients!PushStore(h)
        BY <2>1
      <3>1. due \in Seq(Nat) /\ hseq[h] \in Nat /\ due' = Append(due, hseq[h])
        BY DEF Clients!PushStore, HandlerTypes
      <3> QED BY <3>1, AppendProperties
    <2>2. CASE Clients!Count
      <3>1. due \in Seq(Nat) /\ due' = IF due = <<>> THEN <<>> ELSE Tail(due)
        BY <2>2 DEF Clients!Count, HandlerTypes
      <3> QED BY <3>1, HeadTailProperties
    <2>3. CASE due' = due
      BY <2>3 DEF HandlerTypes
    <2> QED BY <2>1, <2>2, <2>3 DEF Clients!Next, Clients!Rests, Clients!vars, Clients!NetStep,
                   Clients!Listen, Clients!NetLoop, Clients!CallAccept, Clients!AcceptFails,
                   Clients!Consumer, Clients!ConLoop, Clients!Pop, Clients!FreeLink,
                   Clients!FreeHead, Clients!Stop, Clients!Close, Clients!Join, Clients!Connect,
                   Clients!Handler, Clients!HandlerLoop, Clients!HandlerRecv, Clients!AllocHead,
                   Clients!AllocNext, Clients!AllocStore, Clients!HandlerFill,
                   Clients!PushCheck, Clients!PushWrite
  <1>4. pool_mem' = [b \in HandlerBlocks |-> pool_mem'[b]]
    <2>1. pool_mem' = pool_mem \/ \E b, z : pool_mem' = [pool_mem EXCEPT ![b] = z]
      BY DEF Clients!Next, Clients!Rests, Clients!vars, Clients!poolVars, Clients!NetStep,
             Clients!Listen, Clients!NetLoop, Clients!CallAccept, Clients!AcceptFails,
             Clients!Consumer, Clients!ConLoop, Clients!Pop, Clients!Count, Clients!FreeLink,
             Clients!FreeHead, Clients!Stop, Clients!Close, Clients!Join, Clients!Connect,
             Clients!Handler, Clients!HandlerLoop, Clients!HandlerRecv, Clients!AllocHead,
             Clients!AllocNext, Clients!AllocStore, Clients!HandlerFill, Clients!PushCheck,
             Clients!PushWrite, Clients!PushStore
    <2> QED BY <2>1 DEF HandlerTypes
  <1>5. ring' = [x \in 0..QueueSlots - 1 |-> ring'[x]]
    <2>1. ring' = ring \/ \E x, z : ring' = [ring EXCEPT ![x] = z]
      BY DEF Clients!Next, Clients!Rests, Clients!vars, Clients!queueVars, Clients!NetStep,
             Clients!Listen, Clients!NetLoop, Clients!CallAccept, Clients!AcceptFails,
             Clients!Consumer, Clients!ConLoop, Clients!Pop, Clients!Count, Clients!FreeLink,
             Clients!FreeHead, Clients!Stop, Clients!Close, Clients!Join, Clients!Connect,
             Clients!Handler, Clients!HandlerLoop, Clients!HandlerRecv, Clients!AllocHead,
             Clients!AllocNext, Clients!AllocStore, Clients!HandlerFill, Clients!PushCheck,
             Clients!PushWrite, Clients!PushStore
    <2> QED BY <2>1 DEF HandlerTypes
  <1> QED BY <1>1, <1>2, <1>3, <1>4, <1>5 DEF HandlerTypes

(* Two threads that meet are noted; before that every step keeps it exact. *)
LEMMA ExactStep ==
  ASSUME HandlerTypes, Exact, Clients!Next, ~Clients!Meet'
  PROVE  Exact'
  <1>1. CASE Clients!Rests
    BY <1>1 DEF Clients!Rests, Clients!vars, Clients!handlerVars, Clients!poolVars,
           Clients!queueVars, Clients!consumerVars, Exact, PushAlone, ListIntact, PlacesApart,
           DueHeld, Clients!Held, InSlot, ClientCounting, Holds, Numbered, ConHolds, Free,
           Clients!InPush, Clients!InAlloc, Clients!Following
  <1>2. CASE Clients!NetStep \/ Clients!ConLoop \/ Clients!Stop \/ Clients!Close \/ Clients!Join
    <2>1. UNCHANGED <<hp, hblk, hnxt, hseq, hw, pool_head, pool_mem, ring, widx, ridx, hmsg, due, wrong>>
      BY <1>2 DEF Clients!handlerVars, Clients!poolVars, Clients!queueVars,
             Clients!consumerVars, Clients!NetStep, Clients!Listen, Clients!NetLoop,
             Clients!CallAccept, Clients!AcceptFails, Clients!ConLoop, Clients!Stop,
             Clients!Close, Clients!Join
    <2>2. con' = con \/ {con, con'} \subseteq {"loop", "pop", "left"}
      BY <1>2 DEF Clients!consumerVars, Clients!NetStep, Clients!Listen, Clients!NetLoop,
             Clients!CallAccept, Clients!AcceptFails, Clients!ConLoop, Clients!Stop,
             Clients!Close, Clients!Join
    <2> QED BY <2>1, <2>2, QuietStep
  <1>3. CASE \E h \in Handlers : Clients!Connect(h) \/ Clients!HandlerLoop(h) \/ Clients!HandlerRecv(h)
    <2> PICK h \in Handlers : Clients!Connect(h) \/ Clients!HandlerLoop(h) \/ Clients!HandlerRecv(h)
      BY <1>3
    <2>1. /\ UNCHANGED <<hblk, hnxt, hseq, hw, pool_head, pool_mem, ring, widx, ridx, hmsg, due, wrong, con>>
          /\ hp[h] \in Idle /\ \E to \in Idle : hp' = [hp EXCEPT ![h] = to]
      BY DEF Clients!poolVars, Clients!queueVars, Clients!consumerVars, Clients!OthersRest,
             Clients!Connect, Clients!HandlerLoop, Clients!HandlerRecv, Clients!To, Idle
    <2>2. \A g \in Handlers : hp'[g] = hp[g] \/ {hp[g], hp'[g]} \subseteq Idle
      BY <2>1, At DEF HandlerTypes
    <2> QED BY <2>1, <2>2, QuietStep
  <1>4. CASE \E h \in Handlers : \/ Clients!AllocHead(h) \/ Clients!AllocNext(h) \/ Clients!AllocStore(h) \/ Clients!HandlerFill(h)
                                 \/ Clients!PushCheck(h) \/ Clients!PushWrite(h) \/ Clients!PushStore(h)
    BY <1>4, AllocHeadStep, AllocNextStep, AllocStoreStep, FillStep, PushCheckStep, PushWriteStep,
       PushStoreStep
  <1>5. CASE Clients!Pop \/ Clients!Count \/ Clients!FreeLink \/ Clients!FreeHead
    BY <1>5, PopStep, CountStep, FreeLinkStep, FreeHeadStep
  <1> QED BY <1>1, <1>2, <1>3, <1>4, <1>5 DEF Clients!Next, Clients!Handler, Clients!Consumer

LEMMA ClientsAlone ==
  ASSUME [ProgramStep]_allVars
  PROVE  [Clients!Next]_clientVars
  BY DEF ProgramStep, allVars, others, LockRuns, QueueRuns, LoggerRuns, PoolRuns, WaitFreeRuns,
         CapstoneRuns, RingDemoRuns, DoubleRuns, StackRuns, ServerRuns, ClientsRun, ForkRuns,
         PingRuns

LEMMA HandlersInvariance == Programs => []HandlersInv
  <1>1. HandlersInv /\ [ProgramStep]_allVars => HandlersInv'
    <2> SUFFICES ASSUME HandlersInv, [Clients!Next]_clientVars PROVE HandlersInv'
      BY ClientsAlone
    <2>1. CASE UNCHANGED clientVars
      <3>1. UNCHANGED <<hp, hblk, hnxt, hseq, hw, g_seq, pool_head, pool_mem, ring, widx, ridx, con, hmsg,
                        due, wrong, raced>>
        BY <2>1 DEF clientVars
      <3>2. HandlerTypes'
        BY <3>1 DEF HandlersInv, HandlerTypes
      <3>3. Exact => Exact'
        <4>1. PushAlone => ~Clients!Meet'
          BY <3>1 DEF PushAlone, Clients!Meet, Clients!InPush, Clients!InAlloc, Clients!InFree
        <4> QED BY <3>1, <4>1, QuietStep DEF Exact
      <3> QED BY <3>1, <3>2, <3>3 DEF HandlersInv
    <2>2. CASE Clients!Rests
      BY <2>1, <2>2 DEF Clients!Rests, Clients!vars, Clients!handlerVars, Clients!poolVars,
                        Clients!queueVars, Clients!consumerVars, Clients!mainVars, clientVars
    <2>3. CASE Clients!Next /\ Clients!Noted
      <3>1. HandlerTypes'
        BY <2>3, TypesStep DEF HandlersInv
      <3>2. ~raced' => ~raced /\ ~Clients!Meet'
        BY <2>3 DEF Clients!Noted
      <3>3. ~raced' => Exact'
        BY <2>3, <3>2, ExactStep DEF HandlersInv
      <3> QED BY <3>1, <3>3 DEF HandlersInv
    <2> QED BY <2>1, <2>2, <2>3 DEF Clients!Next
  <1> QED BY HandlersInit, <1>1, PTL DEF Programs

(* Until two connections push, or two threads are in the pool, at once,    *)
(* the consumer of v4 counts what its connections accepted, in order and   *)
(* as written, and a block is free or in one place: for any number of      *)
(* connections, blocks, slots and messages.                                *)
THEOREM ServedUntilTheyMeet == Programs => []ServedUnlessRaced
  <1>1. HandlersInv /\ ~raced => Clients!CountedAsAccepted
    BY DueIsWaiting DEF HandlersInv
  <1>2. HandlersInv /\ ~raced => Clients!OneOwner
    BY ApartIsOneOwner DEF HandlersInv, Exact, Clients!OneOwner
  <1>3. HandlersInv => ServedUnlessRaced
    BY <1>1, <1>2 DEF ServedUnlessRaced, Clients!ServedUnlessRaced
  <1> QED BY <1>3, HandlersInvariance, PTL
=============================================================================
