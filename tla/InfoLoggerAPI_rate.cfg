CONSTANTS
  flood_maxmsg_sec = 2
  flood_maxmsg_min = 4
  flood_maxmsg_file = 2
  flood_maxmsg_reset = 2
  MinuteLength = 2
  MaxPush = 8
  MaxNow = 3
  KeepChoice = {1}
  RotateChoice = {FALSE}
  FilterChoice = {{"detected"}}
SPECIFICATION APISpec
INVARIANT DocumentedRate
CHECK_DEADLOCK FALSE
