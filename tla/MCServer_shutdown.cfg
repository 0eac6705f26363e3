SPECIFICATION FairSpec
CONSTANTS
  Scim = {r1, r2}
  Console = {k1}
  Conns = {c1, c2}
  Dispatcher = dispatcher
  None = None
  Deadline = 1
  ReadyTimeout = 1
  Grace = 2
  Prompt = FALSE
  MaxFaults = 1
INVARIANTS NothingLeaks DrainedBeforeClose
PROPERTIES EventuallyAnswered EventuallyExits
CHECK_DEADLOCK FALSE
