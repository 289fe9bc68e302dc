SPECIFICATION Spec
CONSTANT TaskFile = TRUE
INVARIANT LoadsIntoLiveQueue
CHECK_DEADLOCK FALSE
