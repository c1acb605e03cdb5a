CONSTANTS
  nThreads = 1
  QueueSize = 2
  MaxLines = 2
  Errors = {"data", "other"}
  MaxMsg = 3
  MaxFaults = 2
  Peer = {p1, p2}
  maxClients = 1
  Room = 1
  NoPeer = NoPeer
  Cut = Cut
  BrowserQueueSize = 2
  MaxOnline = 3
  publishInterval = 2
  resetInterval = 1
  maxHistory = 1
  StatsMessage <- SomeMessages
  Undefined = Undefined
  MaxTime = 3
  MaxCounted = 2
  StatsPeer = {p1}
  maxmess = 2
  MaxClicks = 3
  MaxNested = 1
  MaxBrowse = 2
  MaxBreaks = 2
  MaxDepth = 3
  Alarm = {a1}
  loopTimeout = 2
  offT = 4
  retry = 1
  maxRetry = 3
  MaxDelay = 2
  MaxMatching = 3
  MaxAlertBreaks = 3
SPECIFICATION DispatchSpec
INVARIANT TransactionCounted
INVARIANT RowsInOrder
INVARIANT StoredOnce
INVARIANT StreamUnbroken
INVARIANT WindowsTile
INVARIANT HistoryKept
INVARIANT ListsAgree
PROPERTY QueueDrains
PROPERTY TransactionEnds
PROPERTY BrowserDrains
PROPERTY StaysConnected
PROPERTY AlertsEnd
CHECK_DEADLOCK FALSE
