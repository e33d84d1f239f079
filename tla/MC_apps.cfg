\* All three programs; file lengths below, at and above that of a buffer.
SPECIFICATION FairSpec
CONSTANTS
  Programs = {"file", "tcp", "test"}
  FL2K_BUF_LEN = 4
  FileLengths = {0, 1, 3, 4, 6, 8}
  CbDrop = 2
  Duration = 2
  DumpTime = 1
  MaxSamples = 3
  MaxSignals = 2
INVARIANTS
  FileIsContinuous
  TxBufAlive
  CountsItsInterval
PROPERTIES
  RepeatsUnlessAligned
  ExitStops
CHECK_DEADLOCK FALSE
