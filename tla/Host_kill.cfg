CONSTANTS
  Size = 2
  MaxMsg = 6
  MaxEnds = 3
  Kills = {"idle", "clean", "save", "torn", "ack"}
  Client = {c1, c2, c3}
  rxMaxConnections = 2
  LineLen = 2
  MaxBytes = 3
  Brief = {c2, c3}
  Caller = {t1, t2}
  maxMessagesBuffered = 2
  MaxSends = 5
  MaxCloses = 2
  Closes = {"not flushing"}
SPECIFICATION HostSpec
INVARIANT TypeOK
INVARIANT NumbersInOrder
INVARIANT AckedNeverAgain
INVARIANT PollsItsOwn
INVARIANT BytesInOrder
INVARIANT SentInOrder
INVARIANT OneThread
PROPERTY NothingSkipped
PROPERTY ConnectAnswered
PROPERTY WritesRead
PROPERTY CallsReturn
PROPERTY WillReconnect
CHECK_DEADLOCK FALSE
