CONSTANTS
  LargestKey = 3
  Calls <- MCCalls
  MaxFacts = 1
  MaxLevel = 2
  Limit = 2
  Factor = 2
  Growth = 2
SPECIFICATION Spec
INVARIANTS VSIDSTypeOK IndexInv HeapOrder NothingLost PickIsBest DecisionFound
VIEW MCView
