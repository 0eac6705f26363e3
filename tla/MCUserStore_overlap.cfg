SPECIFICATION FairSpec
CONSTANTS
  u1 = u1
  u2 = u2
  u3 = u3
  n1 = n1
  n2 = n2
  Requests = {r1, r2}
  UserIds = {u1, u2, u3}
  Names = {n1, n2, n3}
  JunkId = junk
  Absent = Absent
  None = None
  Seeds <- MCSeeds
  MaxFaults = 1
INVARIANTS TrailMatchesRows BeforeWasCommitted OnceOrNever
PROPERTIES EventuallyAnswered
CHECK_DEADLOCK FALSE
