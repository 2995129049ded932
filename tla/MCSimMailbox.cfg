CONSTANTS
  RpmMin = 1
  RpmMax = 4
  Nominal <- AtIdle
  Forms <- AllForms
  MaxPosts = 5
SPECIFICATION Spec
INVARIANTS KeysKept ShownIsTrue
PROPERTIES SpeedKept PostApplied
