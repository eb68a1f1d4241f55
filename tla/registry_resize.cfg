\* The same card: a resize that does not fit.
SPECIFICATION Spec
CONSTANTS
  a = a
  b = b
  c = c
  Models <- MCModels
  Default = a
  MaxWarm = 2
  Prewarm = {b}
  Total = 12
  Shares = {0}
  Faulty = FALSE
  Layers <- MCLayers
  Core <- MCCore
  Kv <- MCKv
  SlotsShared <- MCShared
  SlotsSolo <- MCSolo
  SpecReserve <- MCReserve
  Targets = {1, 3}
  Reserves = {0, 1, 4}
INVARIANT PagerKept
