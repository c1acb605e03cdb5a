CONSTANTS
  Caller = {t1, t2}
  maxMessagesBuffered = 2
  MaxSends = 5
  MaxCloses = 2
  Closes = {"not flushing", "flushing"}
SPECIFICATION ClientFairSpec
PROPERTY WillReconnect
CHECK_DEADLOCK FALSE
