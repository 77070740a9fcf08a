CONSTANTS
  Threads = {t1}
  Procs = {p1, p2}
  Texts = {v1, bad}
  Valid = {v1}
  Default = Default
  NoProc = NoProc
  NoOne = NoOne
  NoArg = NoArg
  MaxCalls = 2
  MaxLoss = 0
SPECIFICATION Spec
INVARIANT SavedIsServed
CHECK_DEADLOCK FALSE
