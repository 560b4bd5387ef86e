SPECIFICATION Spec
CONSTANTS
  SignerKeys = {"keyA"}
  Lamports <- MCLamports
  Invokers = {t1}
  MaxLaunches = 3
  Faults <- AllFaults
INVARIANTS
  TypeOK
  WallSound
PROPERTIES
  SubmitsOntoSettledTrail
  ImplementsAccountingWall
CHECK_DEADLOCK FALSE
