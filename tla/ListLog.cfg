SPECIFICATION Spec
CONSTANTS
  NULL = NULL
  Node = {n1, n2}
  Thread = {t1, t2}
  TaskId = {1, 2}
  MaxSize = 2
INVARIANT LogReadsLiveNode
