\* Three consumers and a poller; two loggers whose messages may be empty;
\* as many workers as tasks, one of which submits another; rings of two or
\* three places, filled several times over; a node for every push; a queue
\* of two and four blocks, so that as with the 1024 blocks of the source
\* only the race of alloc and free can run the pool dry, and for v4 one of
\* one and three blocks.  Both connections of v4 may be past the last recv
\* that its bound allows, which makes it two messages.
SPECIFICATION Programs
CONSTANTS
  Readers = {r1, r2}
  Writers = {w1, w2}
  Rounds = 2
  Consumers = {c1, c2, c3}
  Pollers = {t1}
  Items = 6
  Loggers = {t1, t2}
  Logs = 2
  Workers = {w1, w2, w3}
  Main = Main
  Submitted = 3
  Spawners = {3}
  Capacity = 3
  Offered = 10
  Pushers = {t1, t2}
  M = 2
  Poppers = {Main}
  Nodes = {n1, n2, n3, n4}
  Null = Null
  qcap = 4
  total = 8
  MaxDropped = 2
  Blocks = {b1, b2, b3, b4}
  Wild = Wild
  QueueSize = 2
  MaxRecv = 4
  HandlerBlocks = {b1, b2, b3}
  Handlers = {t1, t2}
  QueueSlots = 2
  MaxMessages = 1
  ITERS = 3
  RingCapacity = 3
  Messages = 7
  RingSize = 4
  ArenaCap = 2
  BatchSize = 2
  MaxTaken = 6
INVARIANTS
  Exclusion
  NoMissedTurn
  NoLostWakeup
  ShutdownLosesNothing
  DeliveredInOrder
  OneOwnerEach
  ServedUnlessRaced
  LossOnlyInDrain
  HandedOver
  SlotRaceFree
PROPERTIES
  QueuesAreFifo
  ProgramEnds
