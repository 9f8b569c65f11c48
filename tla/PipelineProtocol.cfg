SPECIFICATION Spec
CONSTANTS
  StagesFor <- MCStagesFor
  DefaultFor <- MCDefaultFor
  ChecksOfUsers <- MCChecksOfUsers
  Supported <- MCSupported
  Queries <- MCQueries
  MaxSteps = 2
INVARIANTS
  PlansRespectStages
  PlansComeFromBuiltConfiguration
  
