SPECIFICATION Spec
CONSTANTS
  Flows <- MCFlows
  Alphabet <- MCAlphabet
  Screens <- MCScreens
  Pages <- MCPages
  MaxSteps = 3
  MaxRunSteps = 2
  Secrets = {"hunter2"}
  MaxEvents = 6
  Traffic = 1
  Noise = {"console"}
  CaptureBodies = TRUE
  SnapshotOn = {"failure"}
  Video = FALSE
  Classification = "test"
  BlockDestructive = TRUE
  Destructive = {"Delete"}
  Writing = {"Save"}
INVARIANTS
  LiveEqualsRebuild
  AttributedToItsAction
  
  
  
  LossIsRecorded
  TranslationKeepsTarget
  OptionalStepsAreActions
CHECK_DEADLOCK FALSE
