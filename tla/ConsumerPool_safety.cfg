CONSTANTS
  NC = 2
  NP = 2
  Cap = 2
  MaxCalls = 3
  HandlersEnqueue = FALSE
SPECIFICATION Spec
INVARIANTS ThendsAccounted EarlyEventsHandled NoJamWhenFewProducers
PROPERTY SoftThendExplained
CHECK_DEADLOCK FALSE
