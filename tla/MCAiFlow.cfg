SPECIFICATION Spec
CONSTANTS
  Flows = {f1, f2}
  MaxTurns = 3
  MaxToolCalls = 2
  MaxRepairs = 1
  MaxWallClock = 1
  MaxTokens = 5
  PartialCapable = TRUE
  Ceiling = 5
  Planned = 3
  Usage = {2}
  ToolsPerTurn = 1
  Errors = {"TIMEOUT", "AUTH"}
  Delays = {0}
SYMMETRY Symmetry
INVARIANTS
  SpendHasRow
  WithinBudget
  OnlyValidatedLeaves
PROPERTIES
  SettledOnce
CHECK_DEADLOCK FALSE
