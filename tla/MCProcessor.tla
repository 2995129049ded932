---------------------------- MODULE MCProcessor ----------------------------
(* Processor for TLC: two sensors, the second showing one unit too much,   *)
(* and three engines. A zero needs a level of at most OffKpa = 4 by a      *)
(* sensor, a green light means within TolGreen = 1.                        *)
EXTENDS Processor

Both(f) == [c \in 0 .. 1 |-> f[c + 1]]
Pulse(p) == [fault |-> FALSE, pulse |-> TRUE, sat |-> FALSE, level |-> p, mean |-> p]
Still(p) == [fault |-> FALSE, pulse |-> FALSE, sat |-> FALSE, level |-> p, mean |-> 0]
Engine(a, b) == [ch |-> Both(<<a, b>>), rpm |-> "ok"]

ThreeEngines ==
  {Engine(Still(-3), Still(-3)),    \* off, the vacuum still bleeding away
   Engine(Pulse(-9), Pulse(-9)),    \* idling, synchronised
   Engine(Pulse(-9), Pulse(-11))}   \* idling, out of synchronisation

TwoErr == Both(<<0, 1>>)
Setting(m, v) == [cfg |-> [master |-> m, auto_zero |-> TRUE], conv |-> v]
TwoTransforms == {Setting(0, 0), Setting(0, 2)}
TwoMasters == {Setting(0, 0), Setting(1, 0)}
ThreeSettings == TwoTransforms \cup TwoMasters
OneGain == {Both(<<2, 2>>)}

OneStep == {1}
NoInputs == {}

(* What GreenIsAlwaysTrue of ProcessorProofs supposes of the sensors and   *)
(* the engines holds of these.                                             *)
ASSUME EvenHypotheses == EvenGains /\ EvenAtRest
=============================================================================
