SPECIFICATION Spec
CONSTANTS
  a = a
  b = b
  Selectors <- TwoSelectors
  MaxImpls = 3
  MaxSets = 2
  MaxHandles = 2
CHECK_DEADLOCK FALSE
INVARIANT MostRecentIsUsed
