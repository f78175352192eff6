SPECIFICATION Spec
CONSTANTS
  Jobs = {1, 2}
  Recordings <- MCRecordings
  MaxClicks = 3
  MaxPlans = 1
  MaxLogs = 2
INVARIANTS
  ScriptIsOneRecording
  
PROPERTIES
  OperatorGetsBack
CHECK_DEADLOCK FALSE
