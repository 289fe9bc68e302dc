SPECIFICATION FairSpec
CONSTANTS
  Worker = {w1, w2}
  Nobody = nobody
  Crashable = {w1}
  TaskId = {1, 2}
  Lossy = FALSE
  Suspicious = FALSE
  QueueMax = 3
  LocalMax = 3
  Batch = 2
  MaxWorkers = 2
  MaxKnown = 2
  MaxTracked = 3
  Word = 3
  MaxInFlight = 1
PROPERTY SurvivesCrash
