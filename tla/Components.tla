----------------------------- MODULE Components -----------------------------
(***************************************************************************)
(* The data structures and algorithms of the repository that stand alone.  *)
(* component says which one a behaviour is about; the others stay as they  *)
(* were created, for one choice of their inputs.                           *)
(***************************************************************************)
EXTENDS Integers, Sequences

CONSTANTS Elements, MaxSize,                          \* SmartContainer
          Keys, Vals, cap_,                           \* LRUCache, and the keys of the hash table
          BlockSize, MaxBlocks,                       \* FreeListPool
          Capacities, Hashes,                         \* OpenAddressingHashTable
          Prices, Quantities, MaxOrders,              \* OrderBook
          Rate, Token, capacity_, MaxAge,             \* TokenBucket
          Slots, Delays, MaxTicks, MaxCallbacks,      \* TimerWheel
          Numbers, MaxLength,                         \* ClassicAlgorithms
          Arguments, MaxArgs,                         \* FactorSearch
          MaxFds, MaxConns                            \* DescriptorTable

ASSUME SizesAssumption ==
  /\ {MaxSize, cap_, BlockSize, MaxBlocks, Slots, MaxFds, Rate, Token} \subseteq Nat \ {0}
  /\ {MaxOrders, MaxAge, MaxTicks, MaxCallbacks, MaxLength, MaxArgs, MaxConns} \subseteq Nat
ASSUME ValuesAssumption ==                 \* 0 stands for a default, an empty cell or no price
  0 \notin Elements \cup Vals \cup Prices \cup Quantities \cup Numbers
ASSUME CapacitiesAssumption == Capacities \subseteq Nat \ {0} /\ 0 \in Hashes /\ Hashes \subseteq Nat
ASSUME BookAssumption == Prices \subseteq Int /\ Quantities \subseteq Nat
ASSUME NumbersAssumption == Numbers \subseteq Int
ASSUME BucketAssumption == capacity_ \in Nat /\ capacity_ >= Token
ASSUME DelaysAssumption == Delays \subseteq Nat
ASSUME ArgumentsAssumption == Arguments \subseteq Nat \ {0, 1}

VARIABLES component,
          nontrivial, obj, it, undefined, leaked, plain,
          list_, map_, recent,
          free_list_, chunk, blocks, held,
          hasher_, table_, size_, contents,
          bids_, asks_, order, fill, sent,
          tokens_, since, rp, age, sum, raced, meter,
          slots_, current_slot_, slot, tp, to_run, now, cbs,
          alg, input, target, nums, i, j, k, result,
          args, async, computed, collected, factors, common_factors, phase,
          server, conn, waiting, table, pc, pos, ret, told, seen, junk

containerVars == <<nontrivial, obj, it, undefined, leaked, plain>>
cacheVars == <<list_, map_, recent>>
poolVars == <<free_list_, chunk, blocks, held>>
tableVars == <<hasher_, table_, size_, contents>>
bookVars == <<bids_, asks_, order, fill, sent>>
bucketVars == <<tokens_, since, rp, age, sum, raced, meter>>
wheelVars == <<slots_, current_slot_, slot, tp, to_run, now, cbs>>
algorithmVars == <<alg, input, target, nums, i, j, k, result>>
searchVars == <<args, async, computed, collected, factors, common_factors, phase>>
serverVars == <<server, conn, waiting, table, pc, pos, ret, told, seen, junk>>
storage == <<containerVars, cacheVars, poolVars, tableVars>>
services == <<bookVars, bucketVars, wheelVars>>
programs == <<algorithmVars, searchVars, serverVars>>
vars == <<component, storage, services, programs>>

Container == INSTANCE SmartContainer WITH Values <- Elements
Cache == INSTANCE LRUCache
Pool == INSTANCE FreeListPool
Table == INSTANCE OpenAddressingHashTable
Book == INSTANCE OrderBook
Bucket == INSTANCE TokenBucket
Wheel == INSTANCE TimerWheel
Algorithm ==
  INSTANCE ClassicAlgorithms
    WITH Algorithms <- {"BinarySearch", "BinarySearchInsertion", "twoSumHashTable",
                        "selectionSort", "bubbleSort", "insertionSort"}
Search == INSTANCE FactorSearch WITH Numbers <- Arguments
Server == INSTANCE DescriptorTable WITH i <- pos

Names == {"SmartContainer", "LRUCache", "FreeListPool", "OpenAddressingHashTable", "OrderBook",
          "TokenBucket", "TimerWheel", "ClassicAlgorithms", "FactorSearch", "DescriptorTable"}
Idle(name) == component # name

Init ==
  /\ component \in Names
  /\ Container!Init /\ (Idle("SmartContainer") => plain /\ nontrivial)
  /\ Cache!Init
  /\ Pool!Init /\ (Idle("FreeListPool") => blocks = 1)
  /\ Table!Init /\ (Idle("OpenAddressingHashTable") =>
                      hasher_ = [x \in Keys |-> 0] /\ \A n \in Capacities : n <= Len(table_))
  /\ Book!Init /\ Bucket!Init /\ Wheel!Init
  /\ Search!Init /\ (Idle("FactorSearch") => async /\ \A x \in DOMAIN args, a \in Arguments : args[x] <= a)
  /\ Server!Init /\ (Idle("DescriptorTable") => server = "echo")
  /\ Algorithm!Init /\ (Idle("ClassicAlgorithms") =>
                          input = <<>> /\ alg = "bubbleSort" /\ \A x \in Numbers : target <= x)

UseContainer ==
  /\ component = "SmartContainer" /\ Container!Next
  /\ UNCHANGED <<component, cacheVars, poolVars, tableVars, services, programs>>
UseCache ==
  /\ component = "LRUCache" /\ Cache!Next
  /\ UNCHANGED <<component, containerVars, poolVars, tableVars, services, programs>>
UsePool ==
  /\ component = "FreeListPool" /\ Pool!Next
  /\ UNCHANGED <<component, containerVars, cacheVars, tableVars, services, programs>>
UseTable ==
  /\ component = "OpenAddressingHashTable" /\ Table!Next
  /\ UNCHANGED <<component, containerVars, cacheVars, poolVars, services, programs>>
UseBook ==
  /\ component = "OrderBook" /\ Book!Next
  /\ UNCHANGED <<component, storage, bucketVars, wheelVars, programs>>
UseBucket ==
  /\ component = "TokenBucket" /\ Bucket!Next
  /\ UNCHANGED <<component, storage, bookVars, wheelVars, programs>>
UseWheel ==
  /\ component = "TimerWheel" /\ Wheel!Next
  /\ UNCHANGED <<component, storage, bookVars, bucketVars, programs>>
RunAlgorithm ==
  /\ component = "ClassicAlgorithms" /\ Algorithm!Next
  /\ UNCHANGED <<component, storage, services, searchVars, serverVars>>
RunSearch ==
  /\ component = "FactorSearch" /\ Search!Next
  /\ UNCHANGED <<component, storage, services, algorithmVars, serverVars>>
RunServer ==
  /\ component = "DescriptorTable" /\ Server!Next
  /\ UNCHANGED <<component, storage, services, algorithmVars, searchVars>>
Next ==
  \/ UseContainer \/ UseCache \/ UsePool \/ UseTable \/ UseBook \/ UseBucket \/ UseWheel
  \/ RunAlgorithm \/ RunSearch \/ RunServer

Spec == Init /\ [][Next]_vars

----------------------------------------------------------------------------
(* SmartContainer: the two containers are sequences of values whatever     *)
(* they do to their buffers, and an operation on one leaves the other be.  *)
ImplementsSequences == Container!ImplementsSequences

(* SmartContainer: with the operations that respect the lifetime of the    *)
(* elements no object is destroyed twice, leaked or used when it is gone.  *)
PlainUseIsSafe == Container!PlainUseIsSafe

(* SmartContainer: "Remains valid after operations that don't change       *)
(* capacity" (SmartContainer.h:488), swaps and moves included.             *)
IteratorsSurvive == Container!IteratorsSurvive

(* lru_cache: the list and the map hold the keys used last, with their     *)
(* last values.                                                            *)
HoldsMostRecent == Cache!HoldsMostRecent

(* fixed_size_memory_pool, slab_allocator: the free list is exactly what   *)
(* no client holds, after any sequence of allocations and returns.         *)
FreeListIntact == Pool!FreeListIntact

(* cache_friendly_hash_table: the table is a map for every hash function.  *)
TableIsMap == Table!TableIsMap

(* order_book_matching_engine: never crossed between orders, as much       *)
(* bought as sold over the whole history of partial fills.                 *)
BookIsSound == Book!BookIsSound

(* order_book_matching_engine: nobody is overtaken at his price or at a    *)
(* better one.                                                             *)
PriceTimePriority == Book!PriceTimePriority

(* rate_limiter_token_bucket: over any stretch of time exactly the rate    *)
(* and the burst are granted, unless an unlocked refill overlaps.          *)
RateIsExact == Bucket!RateIsExact

(* timer_wheel: a callback runs once and on time; one whose scheduling     *)
(* races with a tick is a round early or late and never lost.              *)
TimersOnTime == Wheel!TimersOnTime

(* classic_algorithms: what the functions return is right, and a binary    *)
(* search that has not returned still has its target within its bounds.    *)
AlgorithmsRight == Algorithm!AlgorithmsRight

(* parallel_math: whatever order the threads finish in, the factors        *)
(* printed for every pair multiply up to its greatest common divisor.      *)
PrintsGcds == Search!PrintsGcds

(* tcp_echo_server_nonblocking, v5_poll_pool_lockfree: the table of        *)
(* connections is exact and a round passes nobody over.                    *)
ConnectionsExact == Server!ConnectionsExact
=============================================================================
