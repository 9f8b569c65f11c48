CONSTANTS
  Null = Null
  Depth = 8
  Subqueries <- MCSubqueries
  Schema <- MCSchema
  Queries <- MCQueries
  Databases <- MCDatabases
  NewPredicates <- MCNewPredicates
  MaxChanges <- MCMaxChanges
SPECIFICATION Spec
INVARIANTS AlgebraReturnsTheQuery AlgebraIsLinked MutationIsExact
CHECK_DEADLOCK FALSE
