CONSTANTS
  MaxRank = 6
  Copies = 1
  MaxSize = 6
SPECIFICATION Spec
INVARIANT HeapProperty
CHECK_DEADLOCK FALSE
