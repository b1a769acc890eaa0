SPECIFICATION QueueSpec
CONSTANTS
  MaxUpdates = 2
  PollLimit = 2
  RetryLimit = 1
  MaxDeaths = 0
INVARIANTS UpdateKept
CHECK_DEADLOCK FALSE
