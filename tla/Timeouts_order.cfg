CONSTANTS
  c1 = c1  c2 = c2  k1 = k1  k2 = k2  k3 = k3
  Clients = {c1}
  Keys = {k1, k2}
  Nobody = Nobody
  CtrlSz = 2
  MaxTime = 3
  MaxCalls = 3
  Plans <- CalmTwoKeys
SPECIFICATION Spec
PROPERTY ClosestFirst
CHECK_DEADLOCK FALSE
