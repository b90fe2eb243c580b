SPECIFICATION Spec
CONSTANTS
  task1 = task1
  task2 = task2
  task3 = task3
  Tasks <- ThreeTasks
  Arrival <- ThreeArrivals
  TaskTables <- OverlappingTables
  Quant = 10
  MaxCounts = 40
  MaxListItems = 3
PROPERTY
  FinishedBurstLeavesIo
