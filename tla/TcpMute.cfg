SPECIFICATION FairSpec
CONSTANTS
  Messages = {m1}
  HeartBeat = PING
  CloseRequest = CloseRequest
  MaxConnects = 1
  MaxReconnects = 0
  MaxDisconnects = 0
  MaxCloses = 0
  MaxIdleUpdates = 0
  MaxFailures = 1
  MaxLines = 0
  MaxBeats = 1
PROPERTY WrittenIsSent
CHECK_DEADLOCK FALSE
