SPECIFICATION Spec
CONSTANTS
  a = a
  b = b
  c = c
  s = s
  Files <- TwoFiles
  Setting = s
  Library <- TwoRules
  SearchPath <- ByName
  MaxLoads = 2
CHECK_DEADLOCK FALSE
INVARIANTS TypeOK NoReentry InProgressIsStack
PROPERTIES ImplementsAbstract LoadEnds
