SPECIFICATION Spec
CONSTANTS
  SignerKeys = {"keyA"}
  Lamports <- OneReading
  Invokers = {t1, t2}
  MaxLaunches = 3
  Faults <- AnsweredFaults

SYMMETRY Terminals
INVARIANTS
  GapHasACause
  TrailTellsTheTruth
PROPERTIES
  CorruptTrailStaysClosed
  TrailOnlyGrows
CHECK_DEADLOCK FALSE
