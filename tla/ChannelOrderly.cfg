SPECIFICATION FairSpec
CONSTANTS
  a = a
  b = b
  u1 = u1
  u2 = u2
  x = x
  y = y
  z = z
  w = w
  Channels = {a, b}
  Users <- OneUser
  Nicks <- TwoNicks
  Fold <- NoFold
  InitNick <- OneNick
  NickOnly = {u1}
  MaxInits = 2
  Env = {"async", "unresolved", "nameless_error"}
INVARIANTS FaultHasCause
PROPERTIES ResolutionEnds
CHECK_DEADLOCK FALSE
