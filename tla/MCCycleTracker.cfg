CONSTANTS
  MinPeriod = 2
  Nominal = 4
  Settle = 1
  Timeout = 6
  Kept = 1
  Steady <- Extremes
SPECIFICATION Spec
INVARIANT CountedOnce
PROPERTIES MeanOfWholeCycles ThreePulses JumpsAreReal EvenEngineFound
