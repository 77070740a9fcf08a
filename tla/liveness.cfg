CONSTANTS
  Users = {u1}
  Groups = {g1}
  Threads = {t1, t2}
  MaxMatch = 1
  MaxPlayer = 0
  NoUser = NoUser
  NoGroup = NoGroup
  Kinds = {"new", "terminate", "start", "request", "help", "timeout"}
SPECIFICATION FairSpec
PROPERTIES TerminateReturns OverMatchUnlisted
