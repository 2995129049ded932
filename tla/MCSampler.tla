----------------------------- MODULE MCSampler -----------------------------
(* Sampler for TLC: its constants are numbers, given in the cfg.           *)
EXTENDS Sampler
=============================================================================
