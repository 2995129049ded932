SPECIFICATION FairSpec
CONSTANTS
  M = 12
  Lo = 4
  Cap = 3
  Jumps <- AllJumps
  r1 = r1
  r2 = r2
  Readers <- TwoReaders
  MaxGaps = 1
INVARIANTS
  DownloadWhole
PROPERTIES
  Implements
  GapsAreReal
  Thaws
