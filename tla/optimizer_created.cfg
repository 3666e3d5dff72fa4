SPECIFICATION Spec
CONSTANTS
  NULL = NULL
  Tables <- MCTables
  Alphabet <- MCAlphabet
  Sources <- CreatedSources
  RuleOrders <- DefaultOrder
  MaxOptimizeIters = 5
PROPERTY PushBelowProjectIsSafe
CHECK_DEADLOCK FALSE
