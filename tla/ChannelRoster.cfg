SPECIFICATION Spec
CONSTANTS
  a = a
  b = b
  u1 = u1
  u2 = u2
  x = x
  y = y
  z = z
  w = w
  Channels = {a, b}
  Users <- TwoUsers
  Nicks <- FourNicks
  Fold <- FoldXZ
  InitNick <- DistinctNicks
  NickOnly = {}
  MaxInits = 2
  Env = {"concurrent_joins", "early_topic"}
INVARIANTS FaultHasCause
PROPERTIES RosterSpec
CHECK_DEADLOCK FALSE
