SPECIFICATION Spec
CONSTANTS
  MaxName = 9
  MaxJumps = 2
  Messages <- MCMessages
  HeaderLimit = 2
  LineLimit = 2
  MaxTimestamp = 5
  PayloadLimit = 20
  MaxParts = 2
  MaxNesting = 2
  Policies = {"keep", "drop"}
  Flow = "flow"
  MaxLine = 2
  DiscardChunk = 2
  PreviewBytes = 3
  KeepsPayload = TRUE
  MaxRounds = 1
  IsoSeconds <- MCIsoSeconds
  Addresses <- MCAddresses
  PortTexts <- MCPortTexts
  Files <- MCFiles
  Names <- MCNames
  Packets <- MCPackets
  Events <- MCEvents
  Records <- MCRecords
  Failures <- MCFailures
CONSTRAINT ManyAreCalm
CHECK_DEADLOCK FALSE
INVARIANTS
  NameInBounds NameIsReference DetectedIsParsed EventIsHonest FailuresShow
  LinesAreRecords KeptIsTrackable FailureCostsOwnFields DecodingTellsLoss PathIsReference
