SPECIFICATION Spec
CONSTANTS
  Unlimited = Unlimited
  Counts <- MCCounts
  MaxPackets = 4
CHECK_DEADLOCK FALSE
INVARIANTS InOrderOfCapture FailureReachesConsumer StopsAfterOnePacket FinishedRunIsComplete
PROPERTIES ConsumerNeverHangs CloseTerminates
