\* A ring of Capacity slots and a producer that fills it more than twice.
SPECIFICATION Spec
CONSTANTS
  Capacity = 4
  N = 9
INVARIANTS
  DataRaceFree
  NoLossAtExit
  IndInv
PROPERTIES
  Termination
  ImplementsFifo
