SPECIFICATION RuntimeSpec
CONSTANTS
  Thread = {t1, t2, t3}
  TaskId = {1, 2, 3}
  MaxSize = 2
  AllowDuplicates = FALSE
  MaxEnqueued = 3
  Loop = loop
  Client = {c1, c2}
  TaskLimits = {0, 1, 2, 4}
  TaskWord = 4
  MemLimits = {0, 1}
  MaxMem = 1
  QueueSize = 2
  ClientTasks = 1
  Main = main
  Other = {o1, o2}
  FatalSignal = {segv, abrt}
  Nobody = nobody
INVARIANTS
  TypeOK HighPrefix WithinLimits
  NoLostWakeup ShutdownWakes BlockedMatches
  RunningMatches
  OneReporter ReportWhole LogUsedOpen
PROPERTIES
  ImplementsFifo NoStrandedSleeper
  Admission AllProcessed
  FaultKills
CHECK_DEADLOCK FALSE
