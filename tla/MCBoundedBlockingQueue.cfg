\* More threads than places on either side, so that both variables have
\* several waiters.
SPECIFICATION Spec
CONSTANTS
  Producers = {p1, p2, p3}
  Consumers = {c1, c2, c3}
  MaxSize = 2
  Pushes = 2
  Pops = 2
INVARIANTS
  TypeOK
  NoLostWakeup
PROPERTIES
  Termination
  ImplementsFifo
