\* Three models, two of them warm at a time, on a card that holds two at their
\* shared sizes and a little more.
SPECIFICATION Spec
CONSTANTS
  a = a
  b = b
  c = c
  Models <- MCModels
  Default = a
  MaxWarm = 2
  Prewarm = {b}
  Total = 12
  Shares = {0, 2, 5, 12}
  Faulty = TRUE
  Layers <- MCLayers
  Core <- MCCore
  Kv <- MCKv
  SlotsShared <- MCShared
  SlotsSolo <- MCSolo
  SpecReserve <- MCReserve
  Targets = {1, 3}
  Reserves = {0, 3}
INVARIANTS
  MemoryAccounted
  WarmBounded
  SizeReported
  PreviousFits
  ReserveHonoured
  SizedForCount
