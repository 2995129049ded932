SPECIFICATION Spec
CONSTANTS
  Cap = 2
  CatchUp = 2
  W = 10
  MaxStall = 4
  MaxNow = 10
INVARIANTS
  PaceKept
  Accounted
PROPERTY
  LateIsOfTheRun
CHECK_DEADLOCK FALSE
