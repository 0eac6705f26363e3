SPECIFICATION FairSpec
CONSTANTS
  Ids = {1}
  Dispatchers = {d1, d2}
  NoId = NoId
  Poll = 2
  Timeout = 1
  Batch = 2
  MaxAttempts = 2
  Backoff <- MCBackoff
  Retention = 1
  ClockSkew = 1
  MaxStall = 3
  Poison = {}
  AttemptCap = 4
  MaxOverdue = 1
  MaxFaults = 1
  MaxReplays = 1
INVARIANT DeliveredWasReceived
PROPERTIES TerminalStays ImplementsQueue EventuallySettled
