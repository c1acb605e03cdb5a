CONSTANTS
  Alarm = {a1}
  loopTimeout = 2
  offT = 4
  retry = 1
  maxRetry = 3
  MaxDelay = 2
  MaxMatching = 2
  MaxAlertBreaks = 1
SPECIFICATION AlertSpec
PROPERTY AlertsReported
CHECK_DEADLOCK FALSE
