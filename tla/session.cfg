CONSTANTS
  N = 3
  Computers = {0}
  MaxDepth = 2
  MaxStage = 2
  MaxTimer = 1
SPECIFICATION Spec
INVARIANTS TypeOK NobodyLeftWaiting SidesAgree CommandFindsPlayerActive
CHECK_DEADLOCK FALSE
