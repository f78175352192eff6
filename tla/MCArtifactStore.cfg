SPECIFICATION Spec
CONSTANTS
  b1 = b1
  b2 = b2
  b3 = b3
  Process = {p1, p2}
  Investigation = {i1, i2}
  Run = {r1}
  Blob = {b1, b2, b3}
  KindOf <- TracesAndManifest
  Short <- Colliding
  None = None
  KeepReproducers = TRUE
  MaxCommands = 4
SYMMETRY Symmetry

  
PROPERTIES
  RefsOnlyExpire
CHECK_DEADLOCK FALSE
