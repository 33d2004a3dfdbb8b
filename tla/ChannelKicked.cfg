SPECIFICATION Spec
CONSTANTS
  a = a
  b = b
  u1 = u1
  u2 = u2
  x = x
  y = y
  z = z
  w = w
  Channels = {a, b}
  Users <- TwoUsers
  Nicks <- ThreeNicks
  Fold <- NoFold
  InitNick <- DistinctNicks
  NickOnly = {}
  MaxInits = 2
  Env = {"async", "kick_in_window"}
INVARIANTS RefreshFindsChannel
CHECK_DEADLOCK FALSE
