CONSTANTS
  p1 = p1  p2 = p2  c1 = c1  c2 = c2  m1 = m1
  Threads = {p1, p2, c1, c2}
  Msgs = {m1}
  Null = Null
  NoOne = NoOne
  BufSz = 2
  MayCall <- LiveCallers
SPECIFICATION FairSpec
PROPERTY SlotsComeBack
CHECK_DEADLOCK FALSE
