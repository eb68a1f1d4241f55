\* Conversions in place, that succeed, fail or die anywhere, under a server that
\* loads, reads and closes the files at any time. Two units to a block and four
\* to a BufWriter, as 4096 and 8192 bytes: a raw blob of seven units is written
\* directly, a frame of one to three through the buffer, and header and index do
\* not fit the buffer together.
SPECIFICATION Spec
CHECK_DEADLOCK FALSE
CONSTANTS
  Align = 2
  Cap = 4
  Experts = 2
  Models <- MCModels
  Damages <- MCDamages
  MaxRuns = 2
INVARIANTS
  SoundReads
  FinishedPackReads
  PartialOnlyByCrash
  CoreWhole
