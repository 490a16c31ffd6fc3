SPECIFICATION Spec
CONSTANTS
  Ids = {2, 3}
  Feeds = {One, Two}
  Values = {p, q}
  NoExec = NoExec
  NoEvent = NoEvent
  Window = 2
  MaxTs = 5
  MaxLate = 2
  max_id = 3
  tick_mod = 4
  expected_ids = 2
  Hashes <- MCHashes
SYMMETRY Symm
INVARIANTS
  NoExpiredEntry
  FlushedAtEnd
  BoundedAge
  ClassesAgree
  ExpiryCoversEntries
  TablesSearchable
