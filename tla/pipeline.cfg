CONSTANTS
  NULL = NULL
  Tables <- MCTables
  Runs <- MCRuns
  BatchRows = 2
SPECIFICATION Spec
INVARIANTS
  MatchesRaw
  FailsForACause
  NothingLeft
CHECK_DEADLOCK FALSE
