SPECIFICATION FairSpec
CONSTANTS
  RingLen = 3
  W = 6
  Batch = 2
  Speed = 2
  Burst = 2
INVARIANTS
  FirstInFirstOut
  EndAccounts
PROPERTY
  StreamEnds
