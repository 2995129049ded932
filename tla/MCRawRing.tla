----------------------------- MODULE MCRawRing -----------------------------
(* RawRing for TLC: a ring of three cells with two bits of every number.   *)
(* The jumps: the next sample, one lost, more than the window holds, the   *)
(* same number again and a source that started again.                      *)
EXTENDS RawRing

AllJumps == {1, 2, 5, 0, -2}
CONSTANTS r1, r2
TwoReaders == {r1, r2}
=============================================================================
