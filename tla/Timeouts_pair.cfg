CONSTANTS
  c1 = c1  c2 = c2  k1 = k1  k2 = k2  k3 = k3
  Clients = {c1, c2}
  Keys = {k1, k2, k3}
  Nobody = Nobody
  CtrlSz = 2
  MaxTime = 3
  MaxCalls = 4
  Plans <- CalmAndRacing
SPECIFICATION Spec
INVARIANT StructuresAgree
PROPERTIES CancelIsFinal FiresOnceInTime
SYMMETRY KeySymmetry
CHECK_DEADLOCK FALSE
