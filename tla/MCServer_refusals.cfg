SPECIFICATION Spec
CONSTANTS
  Scim = {r1, r2}
  Console = {}
  Conns = {c1, c2}
  Dispatcher = dispatcher
  None = None
  Deadline = 1
  ReadyTimeout = 1
  Grace = 2
  Prompt = TRUE
  MaxFaults = 0
INVARIANT RefusalsRecorded
CHECK_DEADLOCK FALSE
