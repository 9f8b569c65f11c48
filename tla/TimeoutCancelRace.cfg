SPECIFICATION Spec
CONSTANTS
  MaxCalls = 1
  WorkerCrash = FALSE
  WatchdogLoss = FALSE
INVARIANT TimeoutCancelsQuery
