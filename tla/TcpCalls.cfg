SPECIFICATION FairSpec
CONSTANTS
  Messages = {m1}
  HeartBeat = PING
  CloseRequest = CloseRequest
  MaxConnects = 2
  MaxReconnects = 1
  MaxDisconnects = 1
  MaxCloses = 1
  MaxIdleUpdates = 1
  MaxFailures = 2
  MaxLines = 1
  MaxBeats = 1
INVARIANTS OneWriteInFlight SentInOrder OneEffort KeptAlive
PROPERTIES ReconnectSparesConnection EffortConnects QueueDrains
CHECK_DEADLOCK FALSE
