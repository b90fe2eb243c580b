SPECIFICATION Spec
CONSTANTS
  Numbers = {1, 2}
  Rounds = 8
INVARIANTS
  NothingLost
PROPERTIES
  EndStands
  BothEnd
