\* A pusher and two poppers, and no more addresses than values pushed.
SPECIFICATION Spec
CONSTANTS
  Pushers = {t1}
  M = 3
  Poppers = {c1, c2}
  Nodes = {n1, n2, n3}
  Null = Null
  Concurrent = TRUE
INVARIANTS
  AbaSafe
