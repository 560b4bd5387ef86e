SPECIFICATION Spec
CONSTANTS
  MaxPolls = 4
  HardMaxPolls = 3
  DropDetection = TRUE
  LastValidHeight = 1
  Purses <- MCPurses
  Bounds <- MCBounds
INVARIANTS
  TypeOK
  ReconciledMeansConfirmed
  NotSentMeansAbsent
  LostObservationNeverHelps
PROPERTIES
  DropIsFinal
  Terminates
CHECK_DEADLOCK FALSE
