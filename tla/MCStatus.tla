------------------------------ MODULE MCStatus ------------------------------
(* StatusMonitor for TLC: a handful of engines, seen by two                *)
(* channels.  HoseOff = 2, HoseHyst = 1, OffKpa = 4, CommonMoveKpa = 1:    *)
(* level 0 is the atmosphere, -2 inside the hysteresis of a hose fault, -3 *)
(* outside it but near enough for a zero, -9 trapped vacuum.               *)
EXTENDS StatusMonitor

Pulse(mean) == [fault |-> FALSE, pulse |-> TRUE, sat |-> FALSE, level |-> mean, mean |-> mean]
Quiet(level) == [fault |-> FALSE, pulse |-> FALSE, sat |-> FALSE, level |-> level, mean |-> 0]
Clipped(mean) == [Pulse(mean) EXCEPT !.sat = TRUE]
Faulty == [Quiet(0) EXCEPT !.fault = TRUE]

Run(f) == [ch |-> f, rpm |-> "ok"]
Two(a, b) == [c \in 0 .. 1 |-> IF c = 0 THEN a ELSE b]

Steps == {-1, 1, 2}

(* Two channels: one that pulses, or is silent in the open air, beside     *)
(* anything; both silent, or both faulty; every class of the speed.        *)
Beside == {Pulse(-9), Quiet(0), Quiet(-2), Quiet(-9), Faulty}
TwoInputs ==
  {Run(Two(a, b)) : a \in {Pulse(-9), Quiet(0)}, b \in Beside}
    \cup {Run(Two(a, b)) : a \in Beside, b \in {Pulse(-9), Quiet(0)}}
    \cup {Run(Two(Quiet(-9), Quiet(-9))), Run(Two(Faulty, Faulty))}
    \cup {[ch |-> Two(Pulse(-9), Pulse(-9)), rpm |-> r] : r \in RpmClass}
    \cup {Run(Two(Pulse(-9), Clipped(-10))), Run(Two(Pulse(-9), Pulse(-12))),
          Run(Two(Pulse(-12), Quiet(-2)))}
=============================================================================
