\* One client, one io worker, a RAM tier of two slabs and a zstd pack.
SPECIFICATION Spec
CONSTANTS
  Parts = 1
  SlotsPerPart = 2
  IdsPerPart = 3
  NumIds = 3
  DecayInterval = 2
  MaxFreq = 1
  RamSlots = 2
  HasRam = TRUE
  Compressed = TRUE
  GlobalPool = FALSE
  Routes <- MCRoutes
  Prefetches = {}
  Profiles = {{1}}
  MaxDeaths = 0
  c1 = c1
  w1 = w1
  w2 = w2
  Clients = {c1}
  Workers = {w1}
INVARIANT UsableHandlesHoldWeights
CHECK_DEADLOCK FALSE
