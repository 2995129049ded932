SPECIFICATION MFairSpec
CONSTANTS
  N = 2
  Inputs <- TwoInputs
  Dts <- Steps
  HoseHold = 1
  OffHold = 3
  StableHold = 3
  SatHold = 2
  CommonWindow = 1
  SettleWindow = 2
  HoseOff = 2
  HoseHyst = 1
  OffKpa = 4
  CommonMoveKpa = 1
  TolGreen = 1
  TolYellow = 3
INVARIANTS
  VerdictEarned
  NoFaultFlash
  FaultsWin
  AdviceFits
PROPERTIES
  HoseStays
  RequestEarned
  AutoZeroComes
  VerdictComes
  FaultComes
