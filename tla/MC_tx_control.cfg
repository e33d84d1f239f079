\* The callback also runs on the application's thread, inside control
\* transfers; a stop, failing transfers and event handling.
SPECIFICATION FairSpec
CONSTANTS
  XferNum = 1
  MaxBlocks = 1
  MaxStops = 1
  CounterRange = 1
  StopWhen = {"started", "set_rate"}
  ControlTransfers = TRUE
  Faults = {"xfer", "events"}
  PromptCancel = FALSE
PROPERTIES
  CancelLoopExits
CHECK_DEADLOCK FALSE
