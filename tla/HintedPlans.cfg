SPECIFICATION Spec
CONSTANTS
  None = None
  Unknown = Unknown
  Infinite = Infinite
  GeqoThreshold = 2
  Tables <- MCTables
  JoinGraphs <- MCJoinGraphs
  MaxPlannedTables = 3
  CteTable = "d"
  TableSize <- MCTableSize
  ScanTypes <- MCScanTypes
  JoinTypes <- MCJoinTypes
  InnerTypes <- MCInnerTypes
  TopTypes <- MCTopTypes
  ScanChoices <- MCScanChoices
  JoinChoices <- MCJoinChoices
  MaxEdits = 1
  MaxEditedNodes = 5
INVARIANTS
  JoinOrdersAreExact
  CanonicalPlanIsTheSamePlan
  HintsForceThePlan
  EditsReachTheHints
  RebuiltPlanIsThePlan
CHECK_DEADLOCK FALSE
