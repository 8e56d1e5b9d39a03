SPECIFICATION Spec
CONSTANTS
  Handler = {h1, h2}
  PerPage = 2
  Buffer = 2
  Requests = 3
  Second <- HalfSeconds
  Filters = {{1, 2, 3}, {1, 3}}
  Updates = 2
SYMMETRY Symmetry
INVARIANTS TypeOK NoDuplicates SettingsFaithful RequestsFaithful
CHECK_DEADLOCK FALSE
