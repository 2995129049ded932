--------------------------- MODULE MCCycleTracker ---------------------------
(* CycleTracker for TLC: accepted periods from 2 to 4 samples, so that the *)
(* ratios the code tells apart occur: equal, suspect (4 to 3, 3 to 2), too *)
(* short (2 to 4) and too long (4 to 2).                                   *)
EXTENDS CycleTracker

Extremes == {MinPeriod, MaxPeriod}
=============================================================================
