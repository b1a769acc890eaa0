SPECIFICATION MessagesSpec
CONSTANTS
  N = 2
  Limit = 2
  MaxAttempts = 2
  MaxPosts = 1
  MaxLost = 1
  MaxCrashes = 1
  MaxUpdates = 4
  PollLimit = 2
  RetryLimit = 1
  MaxDeaths = 2
INVARIANTS DeliveryInv NothingLost HandledOnce
PROPERTIES EveryMessageSettles EveryUpdateSettles
