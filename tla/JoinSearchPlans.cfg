CONSTANTS
  Tables = {1, 2, 3, 4}
  ColumnNames <- MCColumnNames
  Queries <- MCQueries
SPECIFICATION Spec
INVARIANTS PathsAreTrees PlanIsNearlyOptimal NotWorseThanTextbook
