SPECIFICATION FairSpec
CONSTANTS
  RingLen = 2
  W = 4
  Batch = 2
  Speed = 0
  Burst = 1
PROPERTY
  StreamEnds
