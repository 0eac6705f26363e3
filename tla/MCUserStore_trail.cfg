SPECIFICATION Spec
CONSTANTS
  u1 = u1
  u2 = u2
  u3 = u3
  n1 = n1
  n2 = n2
  Requests = {r1, r2, r3}
  UserIds = {u1, u2}
  Names = {n1, n2}
  JunkId = junk
  Absent = Absent
  None = None
  Seeds <- MCOne
  MaxFaults = 1
SYMMETRY Symmetry
INVARIANTS TrailIsAChain NewestIsCurrent
PROPERTIES DeactivationAnnounced PatchKeepsOthers
CHECK_DEADLOCK FALSE
