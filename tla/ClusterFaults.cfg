SPECIFICATION Spec
CONSTANTS
  Worker = {w1, w2}
  Nobody = nobody
  Crashable = {w1, w2}
  TaskId = {t1, t2, t3}
  Lossy = TRUE
  Suspicious = TRUE
  QueueMax = 2
  LocalMax = 2
  Batch = 2
  MaxWorkers = 2
  MaxKnown = 2
  MaxTracked = 2
  Word = 3
  MaxInFlight = 1
SYMMETRY ClusterSymmetry
INVARIANTS AtMostOnce NothingForgotten LoadIsPending ResultsAttributed
