SPECIFICATION Spec
CONSTANTS
  g1 = g1
  g2 = g2
  n1 = n1
  n2 = n2
  m1 = m1
  Requests = {r1, r2, r3}
  GroupIds = {g1}
  JunkId = junk
  Names = {n1, n2}
  Users = {m1, m2}
  Stranger = stranger
  Seeds <- MCOne
  Ops = {"delete", "add", "remove", "rename"}
  Absent = Absent
  None = None
  Skew = 0
  MaxFaults = 1
SYMMETRY Symmetry
INVARIANTS TrailIsAChain DeletedOnce
PROPERTY PatchKeepsOthers
CHECK_DEADLOCK FALSE
