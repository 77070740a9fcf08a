CONSTANTS
  Users = {u1, u2}
  Groups = {g1}
  Threads = {t1}
  MaxMatch = 3
  MaxPlayer = 0
  NoUser = NoUser
  NoGroup = NoGroup
  Kinds = {"new", "start", "timeout"}
SPECIFICATION Spec
INVARIANT OneMatchPerUser
SYMMETRY Symmetry
