\* Up to three devices on the bus, three buffers, opens and calls that fail.
SPECIFICATION Spec
CONSTANTS
  MaxDevices = 3
  Word = 16
  XferBufNum = 3
  Polls = 2
  MaxOpens = 2
  MaxCalls = 2
  MaxStarts = 2
INVARIANTS
  IndicesAgree
  OpenIsReady
  NothingLeftBehind
  CompletionIsFresh
  BuffersFreedOnce
CHECK_DEADLOCK FALSE
