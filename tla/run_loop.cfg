SPECIFICATION Spec
CONSTANTS
  Unlimited = Unlimited
  Counts <- MCCounts
  MaxItems = 3
  MaxInterrupts = 2
CHECK_DEADLOCK FALSE
INVARIANTS LineOncePerFlow EveryFlowWritten SummaryIsExact MatchesHaveEvents
