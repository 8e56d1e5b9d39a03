SPECIFICATION Spec
CONSTANTS
  Email = {e1, e2}
  Subject = {s1, s2}
  Handler = {h1, h2}
  None = None
  Users = 2
  Logins = 2
  Now = 2
  Duration = 1
SYMMETRY Symmetry
INVARIANTS TypeOK SignedInWhile OneAccountPerIdentity
PROPERTIES OnlyFirstIsAdmin RoleAsAsked ReachesOwnAccount
CHECK_DEADLOCK FALSE
