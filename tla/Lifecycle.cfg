CONSTANTS
  sig = sig  thr = thr
  Initialisers <- FourInitialisers
  OnMain = {sig}
  Elsewhere = {thr}
  Cap = 2
  MaxSocks = 2
SPECIFICATION FairSpec
INVARIANTS DeinitMirrorsInit QuitsIdle OneTerminateIsSafe
PROPERTY TerminateEnds
CHECK_DEADLOCK FALSE
