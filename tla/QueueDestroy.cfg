SPECIFICATION Spec
CONSTANTS
  Thread = {t1, t2}
  TaskId = {1}
  MaxSize = 2
  AllowDuplicates = TRUE
  MaxEnqueued = 2
INVARIANT FreedUnused
CHECK_DEADLOCK FALSE
