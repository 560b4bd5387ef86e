SPECIFICATION RehearsalSpec
CONSTANTS
  DesignAcks = {reviewed}
  MicrotradeAcks = {capped}
  MaxSpendCeiling = 2
  AuditChecks = {gate}
  Mints = {first, second}
  Target = first
  ChainFacts <- MCChainFacts
  OperatorRisk = {"clear", "critical", "token2022", "undecided",
                  "unreadable"}
  Modes = {"devnet", "mainnet-dry-run"}
  LeftoverFiles = {"quotes", "bundle", "envelope", "simulation"}
  LeftoverRisk = {"clear", "unreadable"}
  MaxRehearsals = 1
  MaxMishaps = 3
INVARIANT TypeOK
PROPERTIES
  ImplementsEvidenceFiles
  CompleteRestsOnClearRisk
  SwapRestsOnReadFacts
  RehearsedHasItsCandidate
CHECK_DEADLOCK FALSE
