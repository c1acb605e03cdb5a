CONSTANTS
  Client = {c1, c2}
  Link = {1, 2, 3}
  Slot = {1}
  QueueLength = 2
  OutputLength = 1
  AckMaxFiles = 1
  MaxMsg = 2
  MaxFaults = 2
  flood_maxmsg_sec = 2
  flood_maxmsg_min = 3
  flood_maxmsg_file = 2
  flood_maxmsg_reset = 2
  MinuteLength = 2
  MaxPush = 8
  MaxNow = 7
  KeepChoice = {1}
  RotateChoice = {FALSE}
  FilterChoice = {{"detected"}}
  maxMsg = 2
  interval = 2
  MaxMuteCalls = 8
  MaxSteady = 8
  MaxPrints = 3
  MaxLogs = 2
  MaxSwitches = 2
  Character <- SomeCharacters
  Headers <- SomeHeaders
  Texts <- SomeTexts
  BufferSizes = {5, 7, 8, 9, 10, 11, 13, 14, 16}
SPECIFICATION SendingSpec
SYMMETRY Symmetry
INVARIANT ProtocolInStep
INVARIANT AcksInOrder
INVARIANT AckedWasProcessed
INVARIANT FirstsInOrder
INVARIANT QueueIsUnacked
INVARIANT FloodAccounts
 
INVARIANT MuteAccounts
INVARIANT RedirectedOnce
INVARIANT EncodeRoundTrip
CHECK_DEADLOCK FALSE
