SPECIFICATION Spec
CONSTANTS
  DesignAcks = {reviewed}
  MicrotradeAcks = {capped}
  MaxSpendCeiling = 2
  AuditChecks = {gate}
  CandidateFiles <- MCCandidateFiles
  Requests <- MCRequests
  Asserted <- MCAsserted
  Options <- MCOptions
  MaxCommands = 3
INVARIANTS
  TypeOK
  NoReadinessWithoutTheHuman
  PreflightValidates
  EchoesNeverRefuse
PROPERTIES
  EchoedAuditAuthorizes
  ReadyHadItsEvidence
CHECK_DEADLOCK FALSE
