CONSTANTS
  c1 = c1  c2 = c2  Main = Main  Nobody = Nobody
  Threads <- ThreeThreads
  Clients = {c1, c2}
  Plans <- TwoPlans
  k1 = k1  k2 = k2  k3 = k3  NoKey = NoKey
  Keys <- ThreeKeys  Hash <- TheirHash
  Values = {0, 1}
  TombValue = 1
  DefaultCapacity = 4
  MaxVisits = 1002
  MaxCapacity = 8
  MaxRank = 4
  Copies = 2
  MaxSize = 6
  NSec = 8
  MSec = 2
  USec = 4
  MaxSec = 3
  Operands <- MixedOperands
SPECIFICATION LibrarySpec
INVARIANTS ThreadsSound TableSound HeapSound TimesExact
PROPERTIES RemovalsReturn ImplementsDictionary PollsTop
CHECK_DEADLOCK FALSE
