CONSTANTS
  NumVars = 4
  ClauseSets <- MCClauseSets
  SizeBound = 30
  LBDBound = 2
  Inputs <- MCInputs
  Assumptions <- MCAssumptions
  CheckInterval = 2
  Scripts <- MCCoreScripts
  MaxReductions = 1
SPECIFICATION MCSpec
INVARIANTS FailedAssumptionsAreCore
