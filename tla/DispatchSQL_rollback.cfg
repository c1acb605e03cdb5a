CONSTANTS
  nThreads = 2
  QueueSize = 2
  MaxLines = 1
  Errors = {"other"}
  MaxMsg = 2
  MaxFaults = 0
SPECIFICATION Spec
INVARIANT SuccessIsKept
CHECK_DEADLOCK FALSE
