SPECIFICATION FairSpec
CONSTANT MaxCalls = 3
INVARIANTS
  RowsAreOfTheCall
  RuntimeIsOfTheCall
PROPERTIES
  ImplementsTimedExecution
  CallReturnsUnlessInterruptMissed
CHECK_DEADLOCK FALSE
