CONSTANTS
  NumVars = 4
  ClauseSets <- MCClauseSets
  SizeBound = 30
  LBDBound = 2
  Inputs <- MCInputs
  Assumptions <- MCAssumptions
  CheckInterval = 2
  Scripts <- MCScripts
  MaxReductions = 1
SPECIFICATION MCSpec
INVARIANTS SearchTypeOK VerdictSound ProblemPreserved StoreImplied LemmaAsserting LemmaNew BackjumpRight ConflictsOnLevel DecisionPossible FailedAssumptionsValid
