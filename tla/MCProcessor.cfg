SPECIFICATION PSpec
CONSTANTS
  N = 2
  Inputs <- NoInputs
  Dts <- OneStep
  HoseHold = 1
  OffHold = 1
  StableHold = 1
  SatHold = 1
  CommonWindow = 1
  SettleWindow = 1
  HoseOff = 2
  HoseHyst = 1
  OffKpa = 4
  CommonMoveKpa = 1
  TolGreen = 1
  TolYellow = 3
  Engines <- ThreeEngines
  Err <- TwoErr
  Settings <- ThreeSettings
  GainSets <- OneGain
  CaptureLen = 2
INVARIANTS
  PTypeOK
  ZeroHolds
  GreenIsTrue
PROPERTIES
  GainEarned
  AutoZeroAgrees
