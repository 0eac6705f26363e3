SPECIFICATION FairSpec
CONSTANTS
  Ids = {1}
  Dispatchers = {d1}
  NoId = NoId
  Poll = 2
  Timeout = 1
  Batch = 2
  MaxAttempts = 2
  Backoff <- MCBackoff
  Retention = 1
  ClockSkew = 0
  MaxStall = 0
  Poison = {1}
  AttemptCap = 4
  MaxOverdue = 1
  MaxFaults = 0
  MaxReplays = 1
PROPERTY PoisonIsParked
