CONSTANTS
  Fds = {1, 2, 3}
  FdSlack = 1
  FirstEvents = 2
  None = None
  Garbage = Garbage
  Types = {"read", "write"}
  Keys = {"k1", "k2"}
  Sigs <- IntAndHup
  Terminating = {"int"}
  Budgets <- SevenBudgets
  MaxGen = 2
  MaxNow = 2
  Servers = {s1, s2}
  Conns = {c1, c2}
  Workers = {w1, w2}
  FirstServer = s1
  Own = Own
  QueueSize = 1
  Plans <- FivePlans
SPECIFICATION NetworkSpec
INVARIANTS TablesExact FaultsExplained SignalsHeard ConnectionsSound
PROPERTIES DispatchSound Served PeerGoneCloses
CHECK_DEADLOCK FALSE
