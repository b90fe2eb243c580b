SPECIFICATION Spec
CONSTANTS
  c1 = c1
  c2 = c2
  Clients = {c1, c2}
  Free = Free
  COLL_USERS = 2
  Exit = 3
  Sends <- BothTalk
CHECK_DEADLOCK FALSE
INVARIANTS
  NoEcho
  InOrder
PROPERTIES
  SlotsStand
  Delivered
