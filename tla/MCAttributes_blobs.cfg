SPECIFICATION Spec
CONSTANTS
  Requests = {r1, r2, r3}
  Order <- MCOrder
  Lower <- MCLower
  CoreKey = "name"
  SubPaths = {"name.givenname"}
  Values = {"v", "w"}
  Refused = {"w"}
  Jobs <- MCJobs
  Rows0 <- MCRows
  Absent = Absent
  Unset = Unset
  None = None
  MaxFaults = 1
SYMMETRY Symmetry
INVARIANTS TypeOK CoreNeverShadowed CapturedWhileRegistered PatchIsSequential
PROPERTY UnnamedSurvive
CHECK_DEADLOCK FALSE
