\* A stop while the sample worker waits for an empty buffer.
SPECIFICATION FairSpec
CONSTANTS
  XferNum = 1
  MaxBlocks = 3
  MaxStops = 1
  CounterRange = 4
  StopWhen = {"started"}
  ControlTransfers = FALSE
  Faults = {}
  PromptCancel = TRUE
PROPERTIES
  StopCompletes
CHECK_DEADLOCK FALSE
