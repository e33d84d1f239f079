\* Several stops, every fault, cancellation as slow as libusb allows.
SPECIFICATION Spec
CONSTANTS
  XferNum = 1
  MaxBlocks = 3
  MaxStops = 2
  CounterRange = 1
  StopWhen = {"spawn_usb", "spawn_sample", "started"}
  ControlTransfers = FALSE
  Faults = {"submit", "xfer", "unplug", "events", "nomem", "spawn"}
  PromptCancel = FALSE
INVARIANTS
  TypeOK
  WriterExclusive
  OldestFilledFirst
PROPERTIES
  BlockIsStable
  NoSubmitWhileCancelling
CHECK_DEADLOCK FALSE
