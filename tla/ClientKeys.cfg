SPECIFICATION Spec
CONSTANTS
  johnd = johnd
  janed = janed
  nobody = nobody
  Presences = {johnd, janed}
  NoPresence = nobody
  MaxPairs = 3
  MaxLives = 4
SYMMETRY EitherWay
INVARIANTS KeysMatch
PROPERTIES ReplacedOnlyUnread SameOwnKeys
CHECK_DEADLOCK FALSE
