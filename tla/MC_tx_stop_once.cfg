\* Two transfers in flight, one stop, nothing fails: order, a full pipeline
\* and an orderly end.
SPECIFICATION Spec
CONSTANTS
  XferNum = 2
  MaxBlocks = 4
  MaxStops = 1
  CounterRange = 1
  StopWhen = {"started"}
  ControlTransfers = FALSE
  Faults = {}
  PromptCancel = TRUE
INVARIANTS
  PipelineFull
  NoPendingAfterFree
  NoUseAfterFree
PROPERTIES
  ImplementsStream
CHECK_DEADLOCK FALSE
