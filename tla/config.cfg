CONSTANTS
  Threads = {t1, t2}
  Procs = {p1, p2}
  Texts = {v1, bad}
  Valid = {v1}
  Default = Default
  NoProc = NoProc
  NoOne = NoOne
  NoArg = NoArg
  MaxCalls = 2
  MaxLoss = 2
SPECIFICATION FairSpec
INVARIANTS TypeOK OneInFlight TakenIsQuiet AnswersMatchLog OneLossHidden
PROPERTIES CallReturns IdleGoes ClosesDown
CHECK_DEADLOCK FALSE
