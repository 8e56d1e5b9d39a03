SPECIFICATION FairSpec
CONSTANTS
  None = None
  Topic = {t1}
  Stream = {s1, s2}
  Publisher = {p1, p2}
  Cap = 1
  Events = 1
PROPERTIES PublishReturns
CHECK_DEADLOCK FALSE
