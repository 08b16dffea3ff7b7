CONSTANTS
  t1 = t1  t2 = t2
  Threads = {t1, t2}
  NoThread = NoThread
  Numbers = {1, 2, 3}
  Synchronized = {1, 2}
  MayCall <- Upwards
  Changes = {"add", "rm"}
  MaxEntries = 4
  MaxDepth = 2
  pa = pa  pb = pb  pd = pd  None = None
  QueueSize = 1
  FragSz = 2  FirstHeader = 1  Header = 1  MaxId = 2  Expire = 1
  Garbage = Garbage
  Plans <- SixPlans
  Types = {1, 2}  MacroNumbers = {1}  All = 0
  Directories <- FourDirectories
  Budget <- SomeCalls
  Requests = {r1, r2, r3}
  Length = 2
  Pipes <- SixPipes
  Splices = 2
SPECIFICATION ExtrasSpec
INVARIANTS ProceduresSound MacrosSound AssemblySound HandedOnOnce
PROPERTIES CallsReturn ChunksEnd
CHECK_DEADLOCK FALSE
