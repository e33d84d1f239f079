\* A second stop while the first is under way, then fl2k_close.
SPECIFICATION Spec
CONSTANTS
  XferNum = 1
  MaxBlocks = 1
  MaxStops = 2
  CounterRange = 4
  StopWhen = {"started"}
  ControlTransfers = FALSE
  Faults = {}
  PromptCancel = TRUE
INVARIANTS
  NoUseAfterFree
CHECK_DEADLOCK FALSE
