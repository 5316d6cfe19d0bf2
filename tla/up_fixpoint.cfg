CONSTANTS
  NumVars = 3
  Clauses <- MCClauses
  NoClause = NoClause
  Formulas <- MCFormulas
  Lemmas = {"c1"}
  MaxLevel = 2
SPECIFICATION ClientSpec
VIEW View
INVARIANTS FixpointInv
PROPERTIES ImplementsUnitPropagation
