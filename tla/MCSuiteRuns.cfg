SPECIFICATION Spec
CONSTANTS
  Commands = {c1}
  Suites <- MCSuites
  Happenings <- MCHappenings
  Answers <- MCAnswers
  Order <- MCOrder
  PerArm = 1
  MinReached = 1
  MaxRepeat = 1
  MaxCommands = 4
INVARIANTS
  
  
  TriggerWasThere
  
CHECK_DEADLOCK FALSE
