CONSTANTS
  NumVars = 6
  ClauseSets <- MCClauseSets
  SizeBound = 30
  LBDBound = 2
  MaxStamp = 3
  MaxIndex = 11
  Formulas <- MCFormulas
  SystemLits <- MCSystemLits
  ApproxSize = 2
  LBDUpdates = 1
  MaxConflicts = 2
SPECIFICATION CWSpec
INVARIANTS StampsFresh CounterExact LemmaAsDefined
CHECK_DEADLOCK FALSE
