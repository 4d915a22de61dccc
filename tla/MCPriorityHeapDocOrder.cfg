CONSTANTS
  Tasks <- MCTasks
  NoTask = NoTask
  MaxSize = 5
  InitialCapacity = 2
SPECIFICATION Spec
PROPERTY HighestPriorityFirst
