SPECIFICATION FairSpec
CONSTANTS
  Request = {r1, r2}
  Actions = 1
  Edits = 2
  Concurrency = 1
  Crashes = FALSE
INVARIANTS TypeOK
PROPERTIES EveryPipelineEnds
CHECK_DEADLOCK FALSE
