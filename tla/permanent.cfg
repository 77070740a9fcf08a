CONSTANTS
  N = 2
  Computers = {}
  MaxDepth = 1
  MaxStage = 1
  MaxTimer = 1
SPECIFICATION Spec
INVARIANT NeverWaitsForTheGone
CHECK_DEADLOCK FALSE
