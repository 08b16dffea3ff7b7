CONSTANTS
  NC = 2
  NP = 2
  Cap = 2
  MaxCalls = 2
  HandlersEnqueue = TRUE
SPECIFICATION FairSpec
PROPERTY JoinCompletes
CHECK_DEADLOCK FALSE
