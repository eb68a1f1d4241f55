\* One layer of two slots and four experts, aged by insertion count: the
\* interval is the smallest at least as large as the layer.
SPECIFICATION LayerSpec
CONSTANTS
  Parts = 1
  SlotsPerPart = 2
  IdsPerPart = 4
  NumIds = 4
  DecayInterval = 2
  MaxFreq = 2
  MaxRetired = 1
  u1 = u1
  u2 = u2
  Users = {u1}
PROPERTY RetiredExpertLeaves
CHECK_DEADLOCK TRUE
