SPECIFICATION Spec
CONSTANTS
  MaxPolls = 3
  HardMaxPolls = 3
  DropDetection = TRUE
  LastValidHeight = 1
  Purses <- MCPurses
  Bounds <- MCBounds
INVARIANTS
  TokenChangeWasObserved
CHECK_DEADLOCK FALSE
