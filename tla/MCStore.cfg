CONSTANTS
  Problems = {p1, p2}
  Subs = {s1}
  Handlers = {h1, h2}
  Limits = {1, 3}
  DefaultLimit = 2
  Orders = {0, 1}
  Nothing = Nothing
  MaxCases = 3
  MaxBadReads = 1
SPECIFICATION StoreSpec
CHECK_DEADLOCK FALSE
SYMMETRY Symmetry
INVARIANTS StoreTypeOK StoreInv RowsHaveProblems LimitsOfTheProblem
PROPERTIES ShownCaseIsFailed
