\* Streaming with a stop and failing transfers: blocks are sent and waiters
\* resume as long as it goes on.
SPECIFICATION FairSpec
CONSTANTS
  XferNum = 1
  MaxBlocks = 3
  MaxStops = 1
  CounterRange = 1
  StopWhen = {"started"}
  ControlTransfers = FALSE
  Faults = {"xfer"}
  PromptCancel = TRUE
PROPERTIES
  FilledIsSent
  WaiterResumes
CHECK_DEADLOCK FALSE
