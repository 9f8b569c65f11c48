CONSTANTS
  Null = Null
  Depth = 8
  Subqueries <- MCSubqueries
  Schema <- MCSchema
  Queries <- MCQueries
  Databases <- MCDatabases
  Replacements <- MCReplacements
  Renamings <- MCRenamings
  Target = "z"
SPECIFICATION Spec
INVARIANTS RewritesReturnTheAnswer FragmentsCoverTheQuery
CHECK_DEADLOCK FALSE
