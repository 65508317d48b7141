SPECIFICATION StartSpec
CONSTANTS
  Lower <- MCLower
  Encoding <- MCEncoding
  HexBytes <- MCHexBytes
  Numbers <- MCNumbers
  LongNumbers = {"000080"}
  Networks <- MCNetworks
  Configs <- MCConfigs
  DisabledSids <- MCDisabledSids
  RuleFiles <- MCRuleFiles
  Records <- MCRecords
  Flows <- MCFlows
  MaxRecords = 2
  OutputChoices <- MCOutputChoices
  Inputs <- MCInputs
CHECK_DEADLOCK FALSE
INVARIANTS CandidatesComplete MatchesAreExact FirstLineWins ReportIsRight CountersAddUp
