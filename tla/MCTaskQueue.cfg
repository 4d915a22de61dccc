CONSTANTS
  Tasks <- MCTasks
  Consumers = {c1, c2, c3}
SPECIFICATION Spec
INVARIANTS NoLostWakeup EachTaskOnce
PROPERTIES EveryTaskReceived ConsumersEnd
CHECK_DEADLOCK FALSE
