\* A restart while a buffer is written in part.
SPECIFICATION Spec
CONSTANTS
  Buffs = 2
  Word = 16
  Elems = 2
  Requests = {1}
  Formats = {"F32"}
  MaxBlocks = 4
  MaxStarts = 2
  MaxRates = 0
  Underflows = FALSE
  Abandons = TRUE
PROPERTIES
  HandsOutOldest
CHECK_DEADLOCK FALSE
