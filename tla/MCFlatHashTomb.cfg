SPECIFICATION Spec
CONSTANTS
  Ids = {1, 2}
  Feeds = {One, Two}
  Values = {p, q}
  NoExec = NoExec
  NoEvent = NoEvent
  Window = 2
  MaxTs = 5
  MaxLate = 0
  max_id = 2
  tick_mod = 4
  expected_ids = 2
  Hashes <- MCHashes
INVARIANT
  ClassesAgree
