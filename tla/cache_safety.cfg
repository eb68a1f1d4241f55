\* Two layers of two slots; three experts compete in the first, the workload uses one of the second; two users.
SPECIFICATION Spec
CONSTANTS
  Parts = 2
  SlotsPerPart = 2
  IdsPerPart = 3
  NumIds = 4
  DecayInterval = 2
  MaxFreq = 1
  MaxRetired = 0
  u1 = u1
  u2 = u2
  Users <- MCUsers
SYMMETRY UserSymmetry
INVARIANTS
  TypeOK
  MapMatchesSlots
  HandlesStayValid
  OneFillPerSlot
  PinsCountHandles
PROPERTY PoolPromise
CHECK_DEADLOCK TRUE
