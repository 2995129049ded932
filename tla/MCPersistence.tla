--------------------------- MODULE MCPersistence ---------------------------
(* Persistence for TLC: three limits, so that a save cut short can leave a *)
(* pair that does not validate, both sources of a protoboard build, and    *)
(* two measurements.                                                       *)
EXTENDS Persistence

ThreeLimits == {1, 2, 3}
BothSources == {0, 1}
TwoMeasurements == {1, 2}
=============================================================================
