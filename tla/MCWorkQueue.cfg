SPECIFICATION QueueSpec
CONSTANTS
  Job = {j1, j2}
  Worker = {w1, w2}
  None = None
  LeaseMs = 1
  MaxNow = 2
  SeqNo = {1, 2}
  RunNo = {1}
SYMMETRY Symmetry
INVARIANTS
  RowConsistent
PROPERTIES
  ImplementsLifecycle
