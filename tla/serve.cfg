\* Requests of every form to two models, one of which is warm at a time; clients
\* that leave or stall; loads, sessions and steps that fail; a decoder that panics
\* or hangs; characters split over tokens.
SPECIFICATION FairSpec
CHECK_DEADLOCK FALSE
CONSTANTS
  qwen = qwen
  kimik = kimik
  Models = {qwen, kimik}
  Kimi = {kimik}
  MaxWarm = 1
  Requests <- MCRequests
  Tokens <- MCTokens
  Bytes <- MCBytes
  Width <- MCWidth
  Faults = TRUE
  MaxTokens = 2
  MaxRequests = 2
INVARIANTS
  EngineMatchesPrompt
  StreamsWhole
  ClientGetsStream
PROPERTIES
  RequestAnswered
