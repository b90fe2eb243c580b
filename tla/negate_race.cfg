SPECIFICATION Spec
CONSTANTS
  N = 10
  M = 2
INVARIANT PrintsPrimes
