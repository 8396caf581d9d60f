SPECIFICATION Spec
CONSTANTS
  Tokens <- NameTokens
  ValueTokens <- TestedValues
  MaxStack = 10
  MaxSelector = 3
CHECK_DEADLOCK FALSE
INVARIANT EmptyStringsAreStrings
