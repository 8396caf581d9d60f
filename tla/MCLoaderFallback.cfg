SPECIFICATION Spec
CONSTANTS
  a = a
  b = b
  c = c
  s = s
  Files <- ThreeFiles
  Setting = s
  Library <- OneRule
  SearchPath <- WithFallback
  MaxLoads = 1
CHECK_DEADLOCK FALSE
PROPERTY AddsOnlyWithoutErrors
