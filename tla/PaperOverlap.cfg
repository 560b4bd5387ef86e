SPECIFICATION Spec
CONSTANTS
  Mints <- MCMints
  Terminals = {t1, t2}
  MaxLaunches = 3
  MaxCandidates = 3
  CapChoices <- OneCap
  PriceFiles <- MCPrices
  Sizes <- MCSizes
  BandChoices <- MCBands
  Batches <- NoPlans
  Strategies <- NoPlans
  DefaultSizes <- NoPlans
  MaxPlans = 0
  AppendMayTear = FALSE
INVARIANTS
  SellsWhatIsHeld
CHECK_DEADLOCK FALSE
