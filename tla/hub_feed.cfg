SPECIFICATION Spec
CONSTANTS
  None = None
  Topic = {t1, t2}
  Stream = {s1, s2}
  Publisher = {p1, p2}
  Cap = 2
  Events = 2
SYMMETRY Symmetry
INVARIANTS InOrder NothingMissed
PROPERTIES ImplementsFeed
CHECK_DEADLOCK FALSE
