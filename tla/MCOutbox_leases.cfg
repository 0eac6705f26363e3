SPECIFICATION Spec
CONSTANTS
  Ids = {1, 2}
  Dispatchers = {d1, d2}
  NoId = NoId
  Poll = 2
  Timeout = 1
  Batch = 2
  MaxAttempts = 2
  Backoff <- MCBackoff
  Retention = 0
  ClockSkew = 1
  MaxStall = 1
  Poison = {2}
  AttemptCap = 3
  MaxOverdue = 1
  MaxFaults = 1
  MaxReplays = 1
SYMMETRY Symmetry
INVARIANTS ClaimsExclusive AttemptsAccounted FullBudget
