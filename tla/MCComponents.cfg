\* Small enough to exhaust, large enough that containers grow twice, the
\* cache evicts, the pool and the table grow, a fill empties a level and part
\* of the next, the wheel goes round and descriptors come back.
SPECIFICATION Spec
CONSTANTS
  Elements = {1, 2}
  MaxSize = 3
  Keys = {1, 2, 3, 4}
  Vals = {1, 2}
  cap_ = 3
  BlockSize = 2
  MaxBlocks = 2
  Capacities = {1, 4}
  Hashes = {0, 1, 3}
  Prices = {1, 2, 3}
  Quantities = {1, 2}
  MaxOrders = 4
  Rate = 2
  Token = 3
  capacity_ = 9
  MaxAge = 2
  Slots = 3
  Delays = {0, 3, 4}
  MaxTicks = 5
  MaxCallbacks = 2
  Numbers = {1, 2, 3, 4}
  MaxLength = 4
  Arguments = {4, 6, 12}
  MaxArgs = 3
  MaxFds = 3
  MaxConns = 5
CHECK_DEADLOCK FALSE
INVARIANTS
  PlainUseIsSafe
  HoldsMostRecent
  FreeListIntact
  TableIsMap
  BookIsSound
  PriceTimePriority
  RateIsExact
  TimersOnTime
  AlgorithmsRight
  PrintsGcds
  ConnectionsExact
PROPERTIES
  ImplementsSequences
  IteratorsSurvive
