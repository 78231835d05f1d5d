CONSTANTS
  Member = {1, 2, 3}
  Conn = {k1, k2}
  Cap = 1
  Grace = 1
  Fit = {1, 2}
SYMMETRY ConnSymmetry
CONSTRAINT TwoOrThree
SPECIFICATION RoutesSpec
CHECK_DEADLOCK FALSE
INVARIANTS RoutesSafety
PROPERTIES LostRelayCleared WatchIsKept
