SPECIFICATION Spec
CONSTANTS
  a = a
  b = b
  u1 = u1
  u2 = u2
  x = x
  y = y
  z = z
  w = w
  Channels = {a, b}
  Users <- TwoUsers
  Nicks <- ThreeNicks
  Fold <- FoldXZ
  InitNick <- DistinctNicks
  NickOnly = {u1}
  MaxInits = 2
  Env = {"async", "concurrent_joins", "part", "kick_in_window"}
INVARIANTS TypeOK DuplicateBound
PROPERTIES StaysShown
SYMMETRY Symmetry
CHECK_DEADLOCK FALSE
