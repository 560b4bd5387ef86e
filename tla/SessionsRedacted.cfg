SPECIFICATION Spec
CONSTANTS
  SignerKeys = {"keyA"}
  Lamports <- MCLamports
  Invokers = {t1}
  MaxLaunches = 2
  Faults <- NoFaults
INVARIANTS
  AnsweredReadsReconcile
CHECK_DEADLOCK FALSE
