SPECIFICATION FairSpec
CONSTANTS
  Limits <- ThreeLimits
  Sources <- BothSources
  BuildSource = 1
  Measurements <- TwoMeasurements
  MaxChanges = 3
  MaxCuts = 1
  MaxFailures = 1
INVARIANTS
  FlashFollows
  GainsWholeUncut
PROPERTY
  Settles
CHECK_DEADLOCK FALSE
