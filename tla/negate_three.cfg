SPECIFICATION Spec
CONSTANTS
  N = 10
  M = 3
INVARIANTS
  NoPrimeZeroed
  OnlyWalkedOverComeBack
PROPERTY Finishes
