SPECIFICATION Spec
CONSTANTS
  N = 26
  M = 3
  NoThread = NoThread
INVARIANTS
  TypeOK
  NoPrimeCrossed
  NoSharedNumber
  NothingForgotten
  ReportsPrimes
PROPERTIES
  RefinesSieve
  Finishes
