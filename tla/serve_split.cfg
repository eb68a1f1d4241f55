\* The terminator of a stream, as the release notes promise it.
SPECIFICATION Spec
CHECK_DEADLOCK FALSE
CONSTANTS
  qwen = qwen
  kimik = kimik
  Models = {qwen, kimik}
  Kimi = {kimik}
  MaxWarm = 1
  Requests <- MCRequests
  Tokens <- MCTokens
  Bytes <- MCBytes
  Width <- MCWidth
  Faults = FALSE
  MaxTokens = 2
  MaxRequests = 2
INVARIANTS
  StreamTerminated
