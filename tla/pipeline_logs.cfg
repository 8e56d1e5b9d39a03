SPECIFICATION Spec
CONSTANTS
  Request = {r1}
  Actions = 3
  Edits = 1
  Concurrency = 1
  Crashes = TRUE
INVARIANTS LogsMatchEvents LogsSettled EveryActionCompletes 
PROPERTIES LogsMoveForward
CHECK_DEADLOCK FALSE
