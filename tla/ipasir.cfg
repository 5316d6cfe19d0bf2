CONSTANTS
  Lits = {1, 2}
  MaxCallbacks = 2
SPECIFICATION FairSpec
INVARIANTS KillThreadSafe BuffersOfThisCall
PROPERTIES KillThreadServes
CHECK_DEADLOCK FALSE
