SPECIFICATION Spec
CONSTANTS
  t1 = t1
  t2 = t2
  n1 = n1
  n2 = n2
  k1 = k1
  k2 = k2
  c1 = c1
  c2 = c2
  Requests = {r1, r2, r3}
  TenantIds = {t1, t2}
  Names = {n1, n2}
  ScimKeys = {k1, k2}
  ConsoleKeys = {c1, c2}
  System = system
  Jobs <- MCJobs
  Tenants0 <- MCTenants
  Tokens0 <- MCTokens
  Absent = Absent
  None = None
  Rate = 2
  Burst = 1
  MaxTime = 1
  MaxFaults = 1
SYMMETRY Symmetry
INVARIANTS DeadTokensOpenNothing TenantsStayApart AdminLogIsExact RateBound
CHECK_DEADLOCK FALSE
