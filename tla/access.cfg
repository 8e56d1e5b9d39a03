SPECIFICATION Spec
CONSTANTS
  User = {u1, u2}
  Handler = {h1, h2}
  None = None
SYMMETRY Symmetry
INVARIANTS RightHeld NothingDangles OwnerNeedsNoGrant
PROPERTIES PublicAsAsked
CHECK_DEADLOCK FALSE
