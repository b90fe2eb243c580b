SPECIFICATION Spec
CONSTANTS
  Limit = 40
  ThreadsCount = 3
INVARIANTS
  NoPrimeMarked
  LostOnlyOnBorder
PROPERTY Finishes
