CONSTANTS
  SortKeys = {{"a"}, {"b"}}
  Costs = {100, 101, 103}
  MaxOffers = 3
  MaxPartialOffers = 2
SPECIFICATION Spec
INVARIANTS CheapestIsNearlyOptimal
PROPERTY SortedPathsAreOnlyUnderbid
