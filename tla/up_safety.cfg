CONSTANTS
  NumVars = 3
  Clauses = {"c1", "c2", "c3"}
  NoClause = NoClause
  Formulas <- MCChain
  Lemmas = {"c2"}
  MaxLevel = 2
  MaxEdits = 1
SPECIFICATION MCSpec
VIEW View
INVARIANTS TypeOK TrailInv TwoWatchers ReasonInv ConflictInv ReasonsRecognised
