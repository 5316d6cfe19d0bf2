CONSTANTS
  NumVars = 4
  NumClauses = 3
  Problems <- MCCertificateProblems
  TouchedClauses <- MCTouchedClauses
  TouchedLits <- MCTouchedLits
SPECIFICATION Spec
PROPERTIES AddedLinesAreAT
CHECK_DEADLOCK FALSE
