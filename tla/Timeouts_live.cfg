CONSTANTS
  c1 = c1  c2 = c2  k1 = k1  k2 = k2  k3 = k3
  Clients = {c1}
  Keys = {k1}
  Nobody = Nobody
  CtrlSz = 2
  MaxTime = 2
  MaxCalls = 3
  Plans <- CalmOneKey
SPECIFICATION FairSpec
PROPERTIES EveryTimeoutFires CallsReturn
CHECK_DEADLOCK FALSE
