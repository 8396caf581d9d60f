SPECIFICATION Spec
CONSTANTS
  a = a
  b = b
  Names <- TwoNames
  Values = {}
  PropNames = {}
  FirstRules <- Written
  MoreRules <- Simple
  MaxRules = 2
  Chains <- FourSteps
CHECK_DEADLOCK FALSE
INVARIANTS
  MeansWhatItSays
  ShapedForSearch
  RulesAreShared
