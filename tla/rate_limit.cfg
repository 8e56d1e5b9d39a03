SPECIFICATION Spec
CONSTANTS
  Request = {r1, r2, r3}
  Client = {c1, c2}
  Limits = {0, 1, 2}
  Windows = 1
SYMMETRY Symmetry
INVARIANTS CountersSafe WithinLimit RefusedForCause
CHECK_DEADLOCK FALSE
