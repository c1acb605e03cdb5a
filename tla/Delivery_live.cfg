CONSTANTS
  Client = {c1}
  Link = {1, 2}
  Slot = {1}
  QueueLength = 2
  OutputLength = 1
  AckMaxFiles = 1
  MaxMsg = 3
  MaxFaults = 2
  Reader = {r1}
  Writer = {w1, w2}
  Element = {a, b}
  size = 2
  NULL = NULL
  bufferChunkSize = 3
  bufferMaxSize = 7
  MaxBytes = 6
  Size = 2
  MaxStored = 5
  MaxEnds = 2
  Kills = {"idle", "clean", "save"}
SPECIFICATION DeliverySpec
INVARIANT NoLostWakeUp
INVARIANT LinesInOrder
PROPERTY AllAcknowledged
PROPERTY ImplementsBoundedQueue
PROPERTY ImplementsQueue
PROPERTY PendingDrains
CHECK_DEADLOCK FALSE
