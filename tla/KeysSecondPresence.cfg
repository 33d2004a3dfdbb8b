SPECIFICATION Spec
CONSTANTS
  johnd = johnd
  janed = janed
  nobody = nobody
  Presences = {johnd, janed}
  NoPresence = nobody
  MaxPairs = 3
  MaxLives = 2
PROPERTIES SameKeysNextTime
CHECK_DEADLOCK FALSE
