SPECIFICATION Spec
CONSTANTS
  TTL = 2
  Horizon = 3
  None = None
  Token = {t1}
  Request = {r1}
  Handler = {h1, h2}
  Saver = {h1, h2}
  Secret = {}
  Quota = {1}
  Workload = {"update"}
  Crashes = FALSE
PROPERTIES PersistenceByOwner
CHECK_DEADLOCK FALSE
