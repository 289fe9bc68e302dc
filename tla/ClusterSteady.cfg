SPECIFICATION FairSpec
CONSTANTS
  Worker = {w1, w2}
  Nobody = nobody
  Crashable = {}
  TaskId = {1, 2}
  Lossy = FALSE
  Suspicious = TRUE
  QueueMax = 3
  LocalMax = 3
  Batch = 1
  MaxWorkers = 2
  MaxKnown = 2
  MaxTracked = 3
  Word = 3
  MaxInFlight = 2
INVARIANT LoadIsReal
PROPERTY AllCompleted
