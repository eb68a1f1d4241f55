CONSTANTS
  Ids = {s1, s2, s3}
  NoId = NoId
  a = a
  b = b
  Tokens = {a, b}
  BatchCap = 3
  MaxSeq = 3
  ChunkCap = 2
  RamBudget = 2
  Prompts <- MCPrompts
  AnonymousPrompts <- MCAnonymousPrompts
  Samples = {a}
  BatchContexts <- MCBatchContexts
  BatchesAvoidSessions = TRUE
SPECIFICATION Spec
SYMMETRY Symmetry
INVARIANTS
  TypeOK
  TurnOnOwnContext
  ContextsHonest
  SlotsExclusive
  BudgetKept
PROPERTIES
  ParksLeastRecent
  DropsOldestForBudget
