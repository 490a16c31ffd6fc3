\* Two containers with room for two elements between them.
SPECIFICATION Spec
CONSTANTS
  Values = {1, 2}
  MaxSize = 2
INVARIANTS
  LifetimesExact
