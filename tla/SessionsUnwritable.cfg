SPECIFICATION Spec
CONSTANTS
  SignerKeys = {"keyA"}
  Lamports <- MCLamports
  Invokers = {t1}
  MaxLaunches = 2
  Faults <- WriteError
INVARIANTS
  EverySubmissionRecorded
CHECK_DEADLOCK FALSE
