SPECIFICATION Spec
CONSTANTS
  Mints <- MCMints
  Terminals = {t1}
  MaxLaunches = 2
  MaxCandidates = 3
  CapChoices <- MCCaps
  PriceFiles <- MCPrices
  Sizes <- MCSizes
  BandChoices <- MCBands
  Batches <- MCBatches
  Strategies <- MCStrategies
  DefaultSizes <- MCDefaultSizes
  MaxPlans = 1
  AppendMayTear = TRUE
INVARIANTS
  TypeOK
  ReplayIsTheRun
  BuysWithinCaps
  SellsWhatIsHeld
  MoneyConserved
  TriggeredExitCloses
  NoCrossedPositionLeft
  PlannedExitCloses
  PlanAddsToNothingHeld
PROPERTIES
  NothingAppendedToDamage
CHECK_DEADLOCK FALSE
