\* A ring of a few slots, filled more than twice over.
SPECIFICATION Spec
CONSTANTS
  qcap = 4
  total = 8
  MaxDropped = 2
INVARIANTS
  EveryUpdateReachesBook
