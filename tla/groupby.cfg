SPECIFICATION Spec
CONSTANTS
  Inputs <- MCInputs
  BatchSizes <- MCBatchSizes
  Unit = 12
  Saturates = FALSE
INVARIANTS
  PathsAgree
  OrdersAgree
  AggregatesAsDefined
CHECK_DEADLOCK FALSE
