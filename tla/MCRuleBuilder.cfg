SPECIFICATION Spec
CONSTANTS
  a = a
  b = b
  Selectors <- TwoSelectors
  MaxImpls = 4
  MaxSets = 3
  MaxHandles = 2
CHECK_DEADLOCK FALSE
INVARIANTS NoneLostOrDoubled LandsWhereGiven WholeBuilders
PROPERTY AllDelivered
