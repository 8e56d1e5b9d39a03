SPECIFICATION FairSpec
CONSTANTS
  TTL = 1
  Horizon = 2
  None = None
  Token = {t1}
  Request = {r1}
  Handler = {h1, h2}
  Saver = {h1}
  Secret = {s1, s2}
  Quota = {1}
  Workload = {"capture", "remove", "clear", "update", "rotate", "delete"}
  Crashes = TRUE
INVARIANTS NeverStranded SecretHonoured
PROPERTIES PersistenceByOwner EventuallyDrained StoredIsDispatched
CHECK_DEADLOCK FALSE
