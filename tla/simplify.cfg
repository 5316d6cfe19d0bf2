CONSTANTS
  NumVars = 4
  NumClauses = 3
  Problems <- MCProblems
  TouchedClauses <- MCTouchedClauses
  TouchedLits <- MCTouchedLits
SPECIFICATION Spec
INVARIANTS LookupExact ProblemCleaned ProofKeepsClauses
PROPERTIES RangeStable
CHECK_DEADLOCK FALSE
