SPECIFICATION Spec
CONSTANTS
  Worker = {p1, p2}
  Experiment = {e1}
  Investigation = {i1}
  InvestigationOf <- AllInOne
  Job <- MCJob
  None = None
  LeaseMs = 1
  MaxNow = 2
  SeqNo = {}
  RunNo = {}
  Observable = {"VALID_COMPLETED", "PRODUCT_FAILED", "INFRASTRUCTURE_FAILED"}
  MaxRepetitions = 2
  MaxRetries = 1
  MaxRuns = 3
  MaxCommands = 2
SYMMETRY Symmetry
INVARIANTS
  AttemptsChain
  ExclusiveExecution
  SealedBeforeSettled
  RetryNeverHidesProductFailure
CHECK_DEADLOCK FALSE
