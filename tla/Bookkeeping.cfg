SPECIFICATION BookkeepingSpec
CONSTANTS
  NULL = NULL
  Node = {n1, n2, n3}
  Thread = {t1}
  TaskId = {1, 2, 3}
  MaxSize = 3
  WorkerId = {w1, w2}
  TrackId = {1}
  MaxWorkers = 2
  MaxTracked = 2
  Word = 3
  Timeout = 0
  MaxBatch = 1
  MaxLoad = 2
  PlainEntry <- PlainEntries
  InfoTask = {1}
  ExperimentId <- Experiments
  MaxRun = 2
  Faulty = TRUE
  MaxFaults = 2
  ResultFile <- Files
  SignBit = 3
  UserData = {"/output/data", "state"}
  MaxWork = 4
  MaxRows = 2
  MaxLapses = 1
SYMMETRY BookkeepingSymmetry
INVARIANTS
  ListIntact
  SchedulerTypeOK StatsMatch
  AckedIsRead TaskUnmixed
  ResultFound DatasetRowsTrue
PROPERTIES
  ImplementsFifo
  EmptiedIsReleased HistoryKept
