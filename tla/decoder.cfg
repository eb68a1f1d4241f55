\* Two layers of two slots and three experts, two experts a token; one call may
\* fail in the driver.
SPECIFICATION Spec
CONSTANTS
  Parts = 2
  SlotsPerPart = 2
  IdsPerPart = 3
  NumIds = 6
  DecayInterval = 1
  MaxFreq = 1
  TopK = 2
  RingSize = 2
  MaxFaults = 1
  MaxLost = 2
INVARIANTS
  TypeOK
  KernelsReadTheirExperts
  PinsOwned
  WedgeOnlyAfterFailure
PROPERTIES
  CallReturns
