SPECIFICATION Spec
CONSTANTS
  Worker = {p1, p2}
  Experiment = {e1, e2}
  Investigation = {i1, i2}
  InvestigationOf <- OneEach
  Job <- MCJob
  None = None
  LeaseMs = 1
  MaxNow = 2
  SeqNo = {}
  RunNo = {}
  Observable = {"VALID_COMPLETED", "PRODUCT_FAILED", "INFRASTRUCTURE_FAILED"}
  MaxRepetitions = 1
  MaxRetries = 0
  MaxRuns = 3
  MaxCommands = 2
INVARIANT ExecutedRunCanSeal
CHECK_DEADLOCK FALSE
