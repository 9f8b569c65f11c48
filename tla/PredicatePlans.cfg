CONSTANTS
  Null = Null
  Depth = 8
  Tables = {"a", "b", "c"}
  Queries <- MCQueries
  Columns <- MCColumns
  Values <- MCValues
SPECIFICATION PlanSpec
INVARIANTS SimplePredicatesAreApplied RewritesKeepRows EquivalentColumnsAreJoined PlansMatchFragments PlansReturnTheQuery
CHECK_DEADLOCK FALSE
