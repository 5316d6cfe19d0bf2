CONSTANTS
  NumVars = 4
  ClauseSets <- MCClauseSets
  SizeBound = 30
  LBDBound = 2
  Inputs <- MCInputs
  Assumptions <- MCAssumptions
  Scripts <- MCLivenessScripts
  CheckInterval = 2
  MaxReductions = 1
SPECIFICATION MCFairSpec
PROPERTIES SolveReturns
