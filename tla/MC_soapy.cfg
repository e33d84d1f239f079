\* Two starts, fragments, a change of the sample rate, lost devices.
SPECIFICATION FairSpec
CONSTANTS
  Buffs = 2
  Word = 16
  Elems = 2
  Requests = {1}
  Formats = {"F32"}
  MaxBlocks = 3
  MaxStarts = 2
  MaxRates = 1
  Underflows = TRUE
  Abandons = FALSE
INVARIANTS
  RingAligned
  DrainedBeforeWritten
  WriterBehindDriver
PROPERTIES
  HandsOutOldest
  WriterIsWoken
CHECK_DEADLOCK FALSE
