SPECIFICATION Spec
CONSTANTS
  task1 = task1
  task2 = task2
  task3 = task3
  Tasks <- ThreeTasks
  Arrival <- ThreeArrivals
  TaskTables <- SmallTables
  Quant = 2
  MaxCounts = 40
  MaxListItems = 3
INVARIANTS
  TypeOK
  NoTaskLostOrDoubled
  WorkConserving
  QuantumAccounting
  BoundedWait
  NeverAheadOfClock
  BurstEndsInTime
PROPERTIES
  RefinesLifecycle
  AllTasksFinish
