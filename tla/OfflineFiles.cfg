SPECIFICATION Spec
CONSTANTS
  p1 = p1
  p2 = p2
  count = count
  average = average
  NoFile = NoFile
  Processes = {p1, p2}
  Queries = {count, average}
  Slow = {average}
  NotJson = {average}
  Programs <- MCPrograms
  MaxStarts = 2
  MaxStores = 2
SYMMETRY MCSymmetry
CHECK_DEADLOCK FALSE
INVARIANT NothingIsLost
PROPERTY AnswersAreStable
