SPECIFICATION Spec
CONSTANTS
  SignerKeys = {"keyA"}
  Lamports <- MCLamports
  Invokers = {t1}
  MaxLaunches = 2
  Faults <- LostReply
INVARIANTS
  RefusedBeforeSubmission
CHECK_DEADLOCK FALSE
