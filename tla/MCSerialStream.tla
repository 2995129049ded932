--------------------------- MODULE MCSerialStream ---------------------------
(* SerialStream for TLC: its constants are numbers, given in the cfg.      *)
EXTENDS SerialStream
=============================================================================
