SPECIFICATION Spec
CONSTANTS
  Limit = 16
  ThreadsCount = 2
INVARIANT PrintsPrimes
