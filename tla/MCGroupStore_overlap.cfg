SPECIFICATION FairSpec
CONSTANTS
  g1 = g1
  g2 = g2
  n1 = n1
  n2 = n2
  m1 = m1
  Requests = {r1, r2}
  GroupIds = {g1, g2, g3}
  JunkId = junk
  Names = {n1, n2}
  Users = {m1}
  Stranger = stranger
  Seeds <- MCTwo
  Ops = {"create", "replace", "delete", "set", "rename"}
  Absent = Absent
  None = None
  Skew = 1
  MaxFaults = 1

INVARIANTS TrailMatchesGroups OnceOrNever DeletedForGood DeletedStaysDeleted
PROPERTY EventuallyAnswered
CHECK_DEADLOCK FALSE
