SPECIFICATION Spec
CONSTANTS
  Views <- InOrderViews
  MaxFlows = 2
  Timeout <- MCTimeout
  LatePackets = FALSE
  FailPoints <- BetweenSteps
  MaxCalls = 5
CONSTRAINT OneScenario
CHECK_DEADLOCK FALSE
INVARIANTS TableOrdered ExpiryComplete FinsMatchState
PROPERTIES EvictedIsOldest StateNeverReverts
