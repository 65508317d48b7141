SPECIFICATION StartSpec
CONSTANTS
  Lower <- MCLower
  Encoding <- MCEncoding
  HexBytes <- MCHexBytes
  Numbers <- MCNumbers
  LongNumbers = {"000080"}
  Networks <- MCNetworks
  Configs <- MCConfigs
  DisabledSids <- MCDisabledSids
  RuleFiles <- MCRuleFiles
  Records <- MCRecords
  Flows <- MCFlows
  MaxRecords = 0
  OutputChoices <- MCOutputChoices
  Inputs <- MCInputs
CHECK_DEADLOCK FALSE
INVARIANT RuleFilesAreSpared
