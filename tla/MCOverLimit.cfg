SPECIFICATION Spec
CONSTANTS
  FloodFor = 1
  Margin = 1
  SoakFor = 1
  DrainFor = 1
  Retries = 2
  AbsMax = 2
  Settle = 1
  AutoClear = TRUE
  Intervals <- DayAndNight
  CircEvery = 2
  CircFor = 1
  SoakDuty = 1
  Debounce = 1
  MaxCalls = 2
INVARIANT
  OnTimeWithinLimit
