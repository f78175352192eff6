SPECIFICATION Spec
CONSTANTS
  x = x
  y = y
  look = look
  delete = delete
  Process = {p1, p2}
  Gate = {"experiment_selection", "target_failure"}
  Item = {x, y}
  Content = {look, delete}
  Destructive = {delete}
  Proposable <- Proposals
  None = None
  MaxRetries = 1
  Statements <- Files
  MaxCommands <- TwoTwoOne
SYMMETRY Symmetry
INVARIANTS
  OnlyApprovedContentRuns
  DestructiveAcknowledged
  DecisionBindsBytes
  GatesInOrder
  LineageNeverOverclaims
CHECK_DEADLOCK FALSE
