------------------------------ MODULE MCGrower ------------------------------
(* Grower for TLC: floods, soaks and drains of one iteration, due every    *)
(* second by day and every fourth by night, with circulation in between.   *)
EXTENDS Grower

DayAndNight == {2, 4}
=============================================================================
