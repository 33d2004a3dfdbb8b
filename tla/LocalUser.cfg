SPECIFICATION FairSpec
CONSTANTS
  g1 = g1
  g2 = g2
  m1 = m1
  m2 = m2
  none = none
  Gateways = {g1, g2}
  NoGateway = none
  Addresses <- Places
  Messages = {m1, m2}
INVARIANTS CallbackFindsOwner OwnConnectionHolds CarriedByOwn
PROPERTIES MessageSettles
CHECK_DEADLOCK FALSE
