\* One client, two io workers, which may die, and a RAM tier of one slab,
\* on a shared pool of two slots and three experts.
SPECIFICATION FairSpec
CONSTANTS
  Parts = 1
  SlotsPerPart = 2
  IdsPerPart = 3
  NumIds = 3
  DecayInterval = 3
  MaxFreq = 1
  RamSlots = 1
  HasRam = TRUE
  Compressed = FALSE
  GlobalPool = TRUE
  Routes <- MCRoutes
  Prefetches = {2}
  Profiles = {{1}}
  MaxDeaths = 2
  c1 = c1
  w1 = w1
  w2 = w2
  Clients = {c1}
  Workers <- MCWorkers
INVARIANTS
  UsableHandlesHoldWeights
  FillMatchesCache
  OneJobPerFill
  PinsAccounted
  SlabsCoherent
PROPERTIES
  RequestReturns
  WaitReturns
CHECK_DEADLOCK FALSE
