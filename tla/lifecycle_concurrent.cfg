SPECIFICATION Spec
CONSTANTS
  TTL = 2
  Horizon = 3
  None = None
  Token = {t1}
  Request = {r1, r2}
  Handler = {h1, h2}
  Saver = {h1, h2}
  Secret = {}
  Quota = {1, 2}
  Workload = {"capture", "view", "update", "delete"}
  Crashes = TRUE
SYMMETRY Symmetry
INVARIANTS TablesSafe
PROPERTIES CollectedOnlyWhenIdle ImplementsInbox
CHECK_DEADLOCK FALSE
