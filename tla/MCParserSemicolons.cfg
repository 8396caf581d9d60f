SPECIFICATION Spec
CONSTANTS
  Tokens <- RuleTokens
  ValueTokens <- TestedValues
  MaxStack = 10
  MaxSelector = 3
CHECK_DEADLOCK FALSE
INVARIANT SemicolonsSeparateRules
