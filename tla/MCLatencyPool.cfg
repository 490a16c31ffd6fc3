\* A queue of two and four blocks: one more in each thread's hands, so as
\* with the 1024 blocks of the source only the race can run the pool dry.
SPECIFICATION Spec
CONSTANTS
  Blocks = {b1, b2, b3, b4}
  Null = Null
  Wild = Wild
  Allocators = {"pool"}
  QueueSize = 2
  MaxRecv = 5
INVARIANT
  OneOwner
