SPECIFICATION MessagingSpec
CONSTANTS
  Ranks = 2
  MaxTasks = 5
  TaskId = {1, 2, 3, 4, 5}
  Batch = 3
  LocalMax = 3
  Buffer = 1
  Worker = {1, 2}
  MAX_WORKERS = 2
  ZmqSends = 3
  MpiSends = 2
  MaxFaults = 1
INVARIANTS
  MessagingTypeOK InOnePlace
  ReceivedAsSent MisdirectedPerFault
PROPERTIES
  EveryRankStops Delivered
CHECK_DEADLOCK FALSE
