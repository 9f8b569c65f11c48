SPECIFICATION FairSpec
CONSTANTS
  MaxCalls = 2
  WorkerCrash = TRUE
  WatchdogLoss = TRUE
INVARIANT NoUnexpectedEvent
INVARIANT ReturnedCallIsOver
INVARIANT RuntimeOfLatestCall
PROPERTY OnlyTimeoutCancels
PROPERTY ImplementsTimedExecution
PROPERTY CallReturnsUnlessWorkerDied
CHECK_DEADLOCK FALSE
