SPECIFICATION Spec
CONSTANTS
  Lower <- MCLower
  Rules <- MCRules
  Payloads <- MCPayloads
CHECK_DEADLOCK FALSE
INVARIANTS ResultIsFirst SearchedOnce
PROPERTY SearchEnds
