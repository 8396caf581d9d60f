SPECIFICATION Spec
CONSTANTS
  Tokens <- AllTokens
  ValueTokens <- TestedValues
  MaxStack = 14
  MaxSelector = 6
CHECK_DEADLOCK FALSE
INVARIANTS FollowsGrammar FollowsPrecedence
