\* A ring of four entries, buffers of three samples, every position of a signal.
SPECIFICATION FairSpec
CONSTANTS
  BUFFER_SAMPLES = 4
  AUDIO_BUF_SIZE = 3
  FL2K_BUF_LEN = 3
  CarrierRates = {2}
  StereoFlags = {FALSE, TRUE}
INVARIANTS
  SlopeBeforeUse
PROPERTIES
  TxBufUntouched
  CarrierContinues
  NoSampleLost
  ModulatorIsWoken
  WorkerIsWoken
CHECK_DEADLOCK FALSE
