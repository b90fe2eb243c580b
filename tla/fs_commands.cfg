SPECIFICATION Spec
CONSTANTS
  a = a
  b = b
  Torn = Torn
  Paths <- Nested
  HostSizes = {5, 6}
  BlocksCount = 3
  BlockSize = 4
  StaleMounts = FALSE
INVARIANTS
  TypeOK
  BlocksAgree
PROPERTIES
  RefinesStore
  WritesOnlyFree
  CommandEnds
