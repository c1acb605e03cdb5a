CONSTANTS
  Client = {c1, c2}
  rxMaxConnections = 2
  LineLen = 2
  MaxBytes = 4
  Brief = {c2}
SPECIFICATION RxSpec
INVARIANT MessageIsLine
CHECK_DEADLOCK FALSE
