SPECIFICATION Spec
CONSTANTS
  Views <- OrderedViews
  MaxFlows = 1
  Timeout <- MCTimeout
  LatePackets = FALSE
  FailPoints <- NoFailures
  MaxCalls = 4
CHECK_DEADLOCK FALSE
INVARIANTS FlowIdsUnique
