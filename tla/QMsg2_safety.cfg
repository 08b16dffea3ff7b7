CONSTANTS
  p1 = p1  p2 = p2  c1 = c1  c2 = c2  m1 = m1
  Threads = {p1, p2, c1, c2}
  Msgs = {m1}
  Null = Null
  NoOne = NoOne
  BufSz = 2
  MayCall <- SafetyCallers
SPECIFICATION Spec
INVARIANTS TypeOK SlotAccounting IndexAgreement SlotSafety
PROPERTY ImplementsFIFO
CHECK_DEADLOCK FALSE
