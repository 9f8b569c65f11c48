SPECIFICATION Spec
CONSTANTS
  NQueries = 2
  WorkloadReps = 2
  QueryReps = 2
  Configs <- AllConfigs
CHECK_DEADLOCK FALSE
INVARIANTS
  FrameIsComplete
  RowsBelongToTheirRun
  
  FeedbackIsExact
  LogTellsTheEnd
