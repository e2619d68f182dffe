SPECIFICATION FairSpec
CONSTANTS
  Requests = {r1, r2}
  SyncRequests = {}
  UnknownRequests = {}
  SilentRequests = {}
  StatusCodes <- MCOneStatusCode
  MaxWorkers = 3
  MaxDestroys = 1
  NoRequest = NoRequest
INVARIANTS DeliveredInOrder QueueHasOneThread
PROPERTIES SleepingThreadQuits
CHECK_DEADLOCK FALSE
