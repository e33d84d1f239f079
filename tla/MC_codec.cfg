\* Bounded inputs of the calculations; groups of one bit, three overlapping
\* waveforms.
SPECIFICATION Spec
CONSTANTS
  BITS_PER_GROUP = 1
  SAMPLES_PER_BIT = 2
  FILTER_SIZE = 6
  MaxBits = 7
  Targets = {7777777, 10000000, 26666666, 44100000, 80000000, 99999999, 100000000, 126000000, 133333333, 150000001}
  Years = {70, 99, 100, 103, 104, 124, 199}
INVARIANTS
  GroupsInPattern
  SamplesOverlapAdd
  TableIsAchievable
  RateIsClosest
  PixelsInPlace
  CodewordsDivide
  ClockTimeDecodes
CHECK_DEADLOCK FALSE
