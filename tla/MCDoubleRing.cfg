\* Rings of three places, filled more than twice over.
SPECIFICATION Spec
CONSTANTS
  Modes = {"double_batch"}
  RingSize = 4
  ArenaCap = 2
  BatchSize = 2
  MaxTaken = 8
INVARIANTS
  BuffersExact
