SPECIFICATION MessagingSpec
CONSTANTS
  Ranks = 1
  MaxTasks = 0
  TaskId = {}
  Batch = 1
  LocalMax = 1
  Buffer = 1
  Worker = {1, 2}
  MAX_WORKERS = 2
  ZmqSends = 1
  MpiSends = 0
  MaxFaults = 0
PROPERTY BroadcastReturns
CHECK_DEADLOCK FALSE
