CONSTANTS
  Size = 2
  MaxMsg = 2
  MaxEnds = 2
  Kills = {"ack"}
SPECIFICATION FairSpec
PROPERTY PendingDrains
CHECK_DEADLOCK FALSE
