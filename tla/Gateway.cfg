SPECIFICATION FairSpec
CONSTANTS
  john = john
  icecap = icecap
  other = other
  Names = {john, icecap, other}
  LPName = john
  UserName = icecap
  MaxConns = 3
  MaxNicks = 3
INVARIANTS  HeldPerLink CloseBound
PROPERTIES LoginCompletes
CHECK_DEADLOCK FALSE
