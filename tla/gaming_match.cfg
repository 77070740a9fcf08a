CONSTANTS
  Users = {u1, u2}
  Groups = {g1}
  Threads = {t1}
  MaxMatch = 1
  MaxPlayer = 0
  NoUser = NoUser
  NoGroup = NoGroup
  Kinds = {"new", "start"}
SPECIFICATION Spec
INVARIANT GamingMatchKeepsChild
SYMMETRY Symmetry
