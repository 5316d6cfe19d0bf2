CONSTANTS
  NumVars = 4
  Clauses <- MCClauses
  NoClause = NoClause
  Formulas <- MCFormulas
  Lemmas = {}
  MaxLevel = 0
SPECIFICATION OptimizingClientSpec
INVARIANTS FixpointInv
