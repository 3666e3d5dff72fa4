CONSTANTS
  NULL = NULL
  Tables <- MCTables
  Alphabet <- MCAlphabet
  Sources <- MCSources
  RuleOrders <- MCRuleOrders
  MaxOptimizeIters = 5
SPECIFICATION Spec
INVARIANTS
  Equivalent
  SchemaTold
  PredicateReachesScan
  ScanIsNarrow
CHECK_DEADLOCK FALSE
