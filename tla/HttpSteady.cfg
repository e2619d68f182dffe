SPECIFICATION FairSpec
CONSTANTS
  Requests = {r1, r2, r3}
  SyncRequests = {s1}
  UnknownRequests = {r3}
  SilentRequests = {r2}
  StatusCodes <- MCStatusCodes
  MaxWorkers = 1
  MaxDestroys = 0
  NoRequest = NoRequest
INVARIANTS FlowInOrder NoFaultBeforeDestroy VerdictMatchesAnswer
PROPERTIES AwakeThreadDelivers ImplementsAsyncService
