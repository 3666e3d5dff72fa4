SPECIFICATION Spec
CONSTANTS
  Calls <- MCCalls
  Tokens <- MCTokens
  Scenarios <- MCScenarios
  DefaultCleanup = "catalog"
  External <- MCExternal
  PollInterval = 1
  PollMax = 2
  MaxPollDuration = 1
  MaxFaults = 1
  MaxCloses = 1
INVARIANTS
  TablesAccounted
  AnswersAreTrue
  FailsForACause
  CloseKeepsItsWord
PROPERTIES
  CallsEnd
CHECK_DEADLOCK FALSE
