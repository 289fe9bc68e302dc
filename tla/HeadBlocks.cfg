SPECIFICATION Spec
CONSTANTS
  Ranks = 1
  MaxTasks = 4
  TaskId = {1, 2, 3, 4}
  Batch = 4
  LocalMax = 4
  Buffer = 1
PROPERTY AllReported
CHECK_DEADLOCK FALSE
