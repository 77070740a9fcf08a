CONSTANTS
  Users = {u1, u2}
  Groups = {g1}
  Threads = {t1}
  MaxMatch = 2
  MaxPlayer = 0
  NoUser = NoUser
  NoGroup = NoGroup
  Kinds = {"new", "terminate", "join", "leave", "start", "interrupt", "timeout"}
SPECIFICATION Spec
INVARIANT ListedMatchOwnsGroup
SYMMETRY Symmetry
