SPECIFICATION Spec
CONSTANTS
  john = john
  icecap = icecap
  other = other
  Names = {john, icecap, other}
  LPName = john
  UserName = icecap
  MaxConns = 2
  MaxNicks = 2
PROPERTIES LoggedInWithNick
CHECK_DEADLOCK FALSE
