SPECIFICATION Spec
CONSTANTS
  Calls <- MCCalls
  Tokens <- MCTokens
  Scenarios <- MCForced
  DefaultCleanup = "catalog"
  External <- MCExternal
  PollInterval = 1
  PollMax = 2
  MaxPollDuration = 1
  MaxFaults = 1
  MaxCloses = 0
INVARIANT ForcedFormatKept
CHECK_DEADLOCK FALSE
