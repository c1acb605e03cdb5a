CONSTANTS
  Size = 2
  MaxMsg = 3
  MaxEnds = 1
  Kills = {"torn"}
SPECIFICATION FairSpec
PROPERTY PendingDrains
CHECK_DEADLOCK FALSE
