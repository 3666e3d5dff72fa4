CONSTANTS
  NULL = NULL
  Tables <- MCTables
  Runs <- ShiftRuns
  BatchRows = 2
SPECIFICATION Spec
INVARIANTS
  ShiftedByOneRow
CHECK_DEADLOCK FALSE
