CONSTANTS
  Users = {u1, u2}
  Groups = {g1}
  Threads = {t1, t2}
  MaxMatch = 1
  MaxPlayer = 0
  NoUser = NoUser
  NoGroup = NoGroup
  Kinds = {"new", "terminate", "join", "leave", "start", "interrupt", "request", "setting", "help", "timeout", "alert"}
SPECIFICATION Spec
INVARIANTS TypeOK Lifecycle
PROPERTY LivesAsPromised
SYMMETRY Symmetry
