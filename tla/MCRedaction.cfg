SPECIFICATION BatchSpec
CONSTANTS
  Symbols <- MCSymbols
  Policies <- MCPolicies
  Fields <- MCFields
  Credentials <- MCCredentials
  Strict = TRUE
  MaxLength = 4
  MinLiteral = 2
  TwiceScopes = {"console.text", "exception.message", "network.url", "navigation.url"}
  MaxRuns = 2
  MaxFields = 2
INVARIANTS
  
  MasksCompose
  RebuildIsIdentical
CHECK_DEADLOCK FALSE
