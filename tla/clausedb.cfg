CONSTANTS
  RegionSize = 6
  Header = 1
  Align = 2
  Lengths <- MCLengths
  MaxClauses = 4
SPECIFICATION Spec
INVARIANTS DBTypeOK IterationExact CopiesFit SpareAvailable
PROPERTIES ImplementsStore
