SPECIFICATION Spec
CONSTANTS
  Views <- TableViews
  MaxFlows = 2
  Timeout <- MCTimeout
  LatePackets = TRUE
  FailPoints <- Points
  MaxCalls = 4
CHECK_DEADLOCK FALSE
INVARIANTS TableLimit ExportedOnce PacketsAccounted
PROPERTIES ContextIsOwn ExpirySound EvictionIsNeeded KeepsLedger
